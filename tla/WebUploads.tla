----------------------------- MODULE WebUploads ------------------------------
(***************************************************************************)
(* The pages of WebPage with the uploads of the files page: a batch of     *)
(* files is filtered, then read and sent one after the other by a loop     *)
(* that outlives the page, and the upload zone is closed meanwhile.        *)
(***************************************************************************)
EXTENDS WebPage, Sequences

CONSTANTS
  MaxBatch,     \* bound: files of one selection
  MaxRuns       \* bound: batches that are started

ASSUME BatchAssumption == MaxBatch \in Nat /\ MaxRuns \in Nat

VARIABLES
  runs,         \* the calls of handleFilesSelect that got past its filters
  queue         \* isUploading and uploadQueue.current of the page: 0 while none uploads

uploadVars == <<runs, queue>>
vars == <<query, pageVars, uploadVars>>

FileKinds == {"fits", "type", "size"}     \* allowed and small enough, wrong type, too large
RunSteps  == {"unused", "read", "send", "stored", "over"}
NoRun     == [st |-> "unused"]

Active(i) == runs[i].st \in {"read", "send", "stored"}

Init ==
  /\ PageInit
  /\ runs = [i \in 1..MaxRuns |-> NoRun]
  /\ queue = 0

\* The zone is disabled while a batch is under way.
ZoneOpen == open /\ page = "files" /\ ~detail.shown /\ queue = 0

\* A file is chosen or dropped: the type is looked at first, the size of what is left next.
Typed(files) == SelectSeq(files, LAMBDA f : f # "type")
Sized(files) == SelectSeq(Typed(files), LAMBDA f : f # "size")

Select(files) ==
  /\ ZoneOpen
  /\ Sized(files) # <<>>
  /\ \E i \in 1..MaxRuns :
       /\ runs[i] = NoRun /\ \A j \in 1..i - 1 : runs[j] # NoRun
       /\ runs' = [runs EXCEPT ![i] = [st |-> "read", count |-> Len(Sized(files)), names |-> 0,
                     stored |-> <<>>, pos |-> 0, mine |-> TRUE, good |-> FALSE]]
  /\ queue' = 1
  /\ UNCHANGED <<query, pageVars>>

\* FileReader.onload
Read(i) ==
  /\ runs[i].st = "read" /\ runs' = [runs EXCEPT ![i].st = "send"]
  /\ UNCHANGED <<query, pageVars, queue>>

\* The service keeps the file.
Store(i) ==
  /\ runs[i].st = "send"
  /\ \E r \in Rows :
       /\ server[r] = NoRow
       /\ Change([server EXCEPT ![r] = Fresh(r)])
  /\ runs' = [runs EXCEPT ![i].st = "stored", ![i].pos = changes + 1,
                ![i].stored = Append(@, runs[i].names + 1)]
  /\ UNCHANGED <<query, page, dialog, detail, reqs, told, queue>>

\* The batch is over; finally opens the zone of the visit that started it.
Over(i, names, good) ==
  [st |-> "over", count |-> runs[i].count, names |-> names, stored |-> runs[i].stored, good |-> good]
NoReset(i) == queue' = queue     \* for comparison
Reset(i)   == queue' = IF runs[i].mine THEN 0 ELSE queue

\* The answer arrives: the next file, or the end of the batch.
NextFile(i) ==
  LET n == runs[i].names + 1
  IN  /\ runs[i].st = "stored" /\ n < runs[i].count
      /\ runs' = [runs EXCEPT ![i].st = "read", ![i].names = n]
      /\ queue' = IF runs[i].mine THEN n + 1 ELSE queue
      /\ UNCHANGED <<query, pageVars>>

Finish(i) ==
  LET n == runs[i].names + 1
  IN  /\ runs[i].st = "stored" /\ n = runs[i].count
      /\ runs' = [runs EXCEPT ![i] = Over(i, n, TRUE)]
      /\ Hear(runs[i].mine, runs[i].pos) /\ Reset(i)
      /\ UNCHANGED <<page, server, wrote, changes, dialog, detail, reqs>>

\* For comparison: the loop catches the failure of one file and goes on with the next.
SkippingBreak(i) ==
  LET n == runs[i].names + 1
  IN  /\ Active(i)
      /\ runs' = IF n < runs[i].count
                 THEN [runs EXCEPT ![i].st = "read", ![i].names = n]
                 ELSE [runs EXCEPT ![i] = Over(i, n, TRUE)]
      /\ queue' = IF ~runs[i].mine THEN queue ELSE IF n < runs[i].count THEN n + 1 ELSE 0
      /\ UNCHANGED <<query, pageVars>>

\* The file cannot be read, the service refuses it, or its answer is lost: the rest of the
\* batch is not tried, and the list is not invalidated.
Break(i) ==
  /\ Active(i)
  /\ runs' = [runs EXCEPT ![i] = Over(i, runs[i].names, FALSE)]
  /\ Reset(i)
  /\ UNCHANGED <<query, pageVars>>

\* A page that is left takes its zone along; its batches go on without it.
PageStep ==
  /\ PageNext
  /\ IF open /\ ~open'
     THEN /\ queue' = 0
          /\ runs' = [i \in DOMAIN runs |->
                        IF Active(i) THEN [runs[i] EXCEPT !.mine = FALSE] ELSE runs[i]]
     ELSE UNCHANGED uploadVars

Batches == UNION {[1..n -> FileKinds] : n \in 1..MaxBatch}

Next ==
  \/ PageStep
  \/ \E files \in Batches : Select(files)
  \/ \E i \in 1..MaxRuns : Read(i) \/ Store(i) \/ NextFile(i) \/ Finish(i) \/ Break(i)

Spec == Init /\ [][Next]_vars
-----------------------------------------------------------------------------
\* The types of the batches, beside those of the page.
Counts == {Len(Sized(files)) : files \in Batches}
TypeOK ==
  /\ PageTypeOK /\ queue \in Nat
  /\ runs \in [1..MaxRuns ->
        {NoRun}
        \cup [st : {"read", "send", "stored"}, count : Counts, names : Nat, stored : Seq(Nat),
              pos : Nat, mine : BOOLEAN, good : BOOLEAN]
        \cup [st : {"over"}, count : Counts, names : Nat, stored : Seq(Nat), good : BOOLEAN]]

\* The zone is closed exactly while a batch of this visit is under way, and shows the
\* file the batch is at: nothing leaves it closed for good, and no two batches of one
\* visit overlap (FilesPage.tsx:115-181, file-upload.tsx:60).
ZoneFollowsBatch ==
  LET mine == {i \in 1..MaxRuns : Active(i) /\ runs[i].mine}
  IN  /\ Cardinality(mine) <= 1
      /\ queue = IF mine = {} THEN 0 ELSE runs[CHOOSE i \in mine : TRUE].names + 1

\* What a batch has left in the service are its first files, each once and in order: all it
\* counts, at most one more whose answer was lost, and all of them when it reports success
\* (FilesPage.tsx:147-163).
BatchIsPrefix == \A i \in 1..MaxRuns : runs[i].st # "unused" =>
  /\ runs[i].stored = [k \in 1..Len(runs[i].stored) |-> k]
  /\ Len(runs[i].stored) \in {runs[i].names, runs[i].names + 1}
  /\ runs[i].good => Len(runs[i].stored) = runs[i].count
=============================================================================
