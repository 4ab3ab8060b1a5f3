------------------------------ MODULE FileStore ------------------------------
(***************************************************************************)
(* Files in file-service: a row of file_objects in PostgreSQL and an       *)
(* object in MinIO for each, with no transaction over the two.  An upload  *)
(* puts the object and then inserts the row; a deletion deletes the row    *)
(* and then removes the object; a download reads the row, then the object. *)
(* Handlers interleave between any two calls, and every call can fail      *)
(* before or after its effect.                                             *)
(*                                                                         *)
(* A request is used once.  Listing reads the rows and changes nothing.    *)
(***************************************************************************)
EXTENDS Naturals

CONSTANTS
  Files,      \* what uploads may create: a row id and the object key it refers to
  Requests

ASSUME FileAssumption == Files # {}

VARIABLES
  rows,       \* the files with a row in file_objects
  objects,    \* the files with an object in the bucket
  pc, job,    \* a request's next call, and what it asks for
  resp,       \* its answer
  fresh,      \* the files no upload has taken
  took        \* history: the requests that deleted a row

vars == <<rows, objects, pc, job, resp, fresh, took>>

-----------------------------------------------------------------------------
Ops     == {"upload", "delete", "download"}
Job     == [op : Ops, file : Files]
Steps   == {"idle", "put", "insert", "find", "drop", "remove", "get", "copy", "done"}
Answers == {"none", "created", "deleted", "content", "cut", "bad_request", "not_found", "internal"}

File(r) == job[r].file
Op(r)   == job[r].op

Go(r, step)    == pc' = [pc EXCEPT ![r] = step] /\ UNCHANGED resp
Reply(r, code) == pc' = [pc EXCEPT ![r] = "done"] /\ resp' = [resp EXCEPT ![r] = code]

Init ==
  /\ rows = {} /\ objects = {} /\ fresh = Files /\ took = {}
  /\ pc = [r \in Requests |-> "idle"] /\ resp = [r \in Requests |-> "none"]
  /\ job = [r \in Requests |-> CHOOSE j \in Job : TRUE]     \* set when it arrives

-----------------------------------------------------------------------------
\* An upload arrives: the type, the encoding or the size is wrong, or it gets a key
\* with a new UUID in it.
Upload(r) ==
  /\ pc[r] = "idle"
  /\ \E f \in fresh :
       /\ job' = [job EXCEPT ![r] = [op |-> "upload", file |-> f]]
       /\ \/ Reply(r, "bad_request") /\ UNCHANGED fresh
          \/ Go(r, "put") /\ fresh' = fresh \ {f}
  /\ UNCHANGED <<rows, objects, took>>

\* A deletion or a download arrives, for any id.
Ask(r) ==
  /\ pc[r] = "idle"
  /\ \E f \in Files, op \in {"delete", "download"} :
       job' = [job EXCEPT ![r] = [op |-> op, file |-> f]]
  /\ Go(r, "find")
  /\ UNCHANGED <<rows, objects, fresh, took>>

\* For comparison: the upload writes its row before its object.
RowFirst(r) ==
  /\ pc[r] = "put"
  /\ rows' = rows \cup {File(r)}
  /\ Go(r, "insert")
  /\ UNCHANGED <<objects, job, fresh, took>>

PutObject(r) ==
  /\ pc[r] = "put"
  /\ objects' = objects \cup {File(r)}
  /\ Go(r, "insert") \/ Reply(r, "internal")       \* its own answer may be lost
  /\ UNCHANGED <<rows, job, fresh, took>>

InsertRow(r) ==
  /\ pc[r] = "insert"
  /\ rows' = rows \cup {File(r)}
  /\ Reply(r, "created") \/ Reply(r, "internal")   \* its own answer may be lost
  /\ UNCHANGED <<objects, job, fresh, took>>

\* GetByID, at the head of deletions and downloads.
FindRow(r) ==
  /\ pc[r] = "find"
  /\ IF File(r) \in rows
     THEN Go(r, IF Op(r) = "delete" THEN "drop" ELSE "get")
     ELSE Reply(r, "not_found")
  /\ UNCHANGED <<rows, objects, job, fresh, took>>

\* For comparison: the number of deleted rows is not looked at.
UncheckedDrop(r) ==
  /\ pc[r] = "drop"
  /\ rows' = rows \ {File(r)} /\ took' = took \cup {r}
  /\ Go(r, "remove")
  /\ UNCHANGED <<objects, job, fresh>>

\* DELETE FROM file_objects; whoever deletes no row has lost a race.
DropRow(r) ==
  /\ pc[r] = "drop"
  /\ \/ /\ File(r) \in rows
        /\ rows' = rows \ {File(r)} /\ took' = took \cup {r}
        /\ Go(r, "remove") \/ Reply(r, "internal") \* its own answer may be lost
     \/ /\ File(r) \notin rows
        /\ Reply(r, "not_found")
        /\ UNCHANGED <<rows, took>>
  /\ UNCHANGED <<objects, job, fresh>>

\* For comparison: the error of RemoveObject is ignored.
CarelessRemove(r) ==
  /\ pc[r] = "remove"
  /\ objects' \in {objects, objects \ {File(r)}}
  /\ Reply(r, "deleted")
  /\ UNCHANGED <<rows, job, fresh, took>>

\* Removing an object that is not there succeeds.
RemoveObject(r) ==
  /\ pc[r] = "remove"
  /\ objects' = objects \ {File(r)}
  /\ Reply(r, "deleted") \/ Reply(r, "internal")   \* its own answer may be lost
  /\ UNCHANGED <<rows, job, fresh, took>>

\* GetObject and Stat: an object that is not there is an internal error.
GetObject(r) ==
  /\ pc[r] = "get"
  /\ IF File(r) \in objects THEN Go(r, "copy") ELSE Reply(r, "internal")
  /\ UNCHANGED <<rows, objects, job, fresh, took>>

\* io.Copy after the status 200: what is removed meanwhile arrives cut.
Copy(r) ==
  /\ pc[r] = "copy"
  /\ IF File(r) \in objects THEN Reply(r, "content") ELSE Reply(r, "cut")
  /\ UNCHANGED <<rows, objects, job, fresh, took>>

\* A call fails without effect, or its client or process goes away before it.
Fail(r) ==
  /\ pc[r] \notin {"idle", "done"}
  /\ Reply(r, IF pc[r] = "copy" THEN "cut" ELSE "internal")
  /\ UNCHANGED <<rows, objects, job, fresh, took>>

Next ==
  \E r \in Requests :
    \/ Upload(r) \/ Ask(r) \/ PutObject(r) \/ InsertRow(r) \/ FindRow(r) \/ DropRow(r)
    \/ RemoveObject(r) \/ GetObject(r) \/ Copy(r) \/ Fail(r)

Spec == Init /\ [][Next]_vars

-----------------------------------------------------------------------------
(* Properties *)

\* Every variable has its type.
TypeOK ==
  /\ rows \subseteq Files /\ objects \subseteq Files /\ fresh \subseteq Files
  /\ pc \in [Requests -> Steps] /\ job \in [Requests -> Job]
  /\ resp \in [Requests -> Answers] /\ took \subseteq Requests
  /\ fresh \cap (rows \cup objects) = {}

\* What is listed can be fetched: a row never refers to an object that is missing,
\* whatever uploads, deletions and failures overlap.
RowHasObject == rows \subseteq objects

\* An object that no row refers to (nothing will ever remove it) is the work of a
\* request that is under way or whose caller was told of a failure.
OrphanIsReported ==
  \A f \in objects \ rows : \E r \in Requests :
    /\ File(r) = f /\ Op(r) \in {"upload", "delete"}
    /\ pc[r] \in {"insert", "remove"} \/ resp[r] = "internal"

\* A file whose upload was acknowledged is there until a deletion takes it, and no
\* other file's deletion does.
UploadsLast ==
  \A r \in Requests : resp[r] = "created" =>
    \/ File(r) \in rows
    \/ \E d \in took : File(d) = File(r) /\ Op(d) = "delete"

\* Of all deletions of a file one at most takes the row, and only it may answer
\* that the file is deleted.
DeletedOnce ==
  /\ \A d, e \in took : File(d) = File(e) => d = e
  /\ \A r \in Requests : resp[r] = "deleted" => r \in took /\ File(r) \notin rows \cup objects

\* A download fails for the lack of an object, or is cut by it, only when a deletion
\* overtook it: it is answered in full, or the file was taken after it was found.
DownloadIsWhole ==
  \A r \in Requests : pc[r] \in {"get", "copy"} =>
    File(r) \in objects \/ \E d \in took : File(d) = File(r)

\* The two stores together are one store of files, whose callers are told what is true
\* when they are told (handler.go:164-180).
PhaseOf(f) ==
  IF f \in rows THEN "published"
  ELSE IF \E d \in took : File(d) = f
       THEN IF f \in objects THEN "withdrawn" ELSE "purged"
       ELSE IF f \in objects THEN "staged" ELSE "none"

Answered == {r \in Requests : resp[r] # "none"}

Lifecycle == INSTANCE FileLifecycle
             WITH phase <- [f \in Files |-> PhaseOf(f)],
                  taker <- {<<d, File(d)>> : d \in took},
                  said  <- {<<r, File(r), resp[r]>> : r \in Answered}

ActsAsOneStore == Lifecycle!LifecycleSpec
=============================================================================
