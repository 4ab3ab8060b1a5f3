---------------------------- MODULE FileLifecycle ----------------------------
(***************************************************************************)
(* What file-service promises about a file, apart from how a row and an    *)
(* object are kept in step: its data is staged, the file is published, one *)
(* caller withdraws it, and its data is purged.  It never goes back, and   *)
(* each answer is given at a moment at which it is true.                   *)
(***************************************************************************)
CONSTANTS Files, Requests

VARIABLES phase,     \* where each file stands
          taker,     \* the request that has withdrawn a file, as pairs of both
          said       \* the answers, as triples of a request, its file and what it was told

fileVars == <<phase, taker, said>>

Phases == {"none", "staged", "published", "withdrawn", "purged"}

FileInit == phase = [f \in Files |-> "none"] /\ taker = {} /\ said = {}

Move(f, from, to) == phase[f] = from /\ phase' = [phase EXCEPT ![f] = to]

\* Nobody is answered twice.
Say(r, f, what) == (\A s \in said : s[1] # r) /\ said' = said \cup {<<r, f, what>>}

Stage(r, f) ==
  /\ Move(f, "none", "staged")
  /\ UNCHANGED said \/ Say(r, f, "internal")
  /\ UNCHANGED taker

Publish(r, f) ==
  /\ Move(f, "staged", "published")
  /\ Say(r, f, "created") \/ Say(r, f, "internal")
  /\ UNCHANGED taker

Withdraw(r, f) ==
  /\ Move(f, "published", "withdrawn")
  /\ taker' = taker \cup {<<r, f>>}
  /\ UNCHANGED said \/ Say(r, f, "internal")

\* The data is removed by whoever withdrew the file, and only then is it "deleted".
Purge(r, f) ==
  /\ Move(f, "withdrawn", "purged") /\ <<r, f>> \in taker
  /\ Say(r, f, "deleted") \/ Say(r, f, "internal")
  /\ UNCHANGED taker

\* A file that is published is found, and content comes from data that is there.
Refuse(r, f) ==
  /\ \/ Say(r, f, "bad_request") \/ Say(r, f, "internal") \/ Say(r, f, "cut")
     \/ phase[f] # "published" /\ Say(r, f, "not_found")
  /\ UNCHANGED <<phase, taker>>

Deliver(r, f) ==
  /\ phase[f] \in {"published", "withdrawn"} /\ Say(r, f, "content")
  /\ UNCHANGED <<phase, taker>>

FileNext ==
  \E r \in Requests, f \in Files :
    Stage(r, f) \/ Publish(r, f) \/ Withdraw(r, f) \/ Purge(r, f) \/ Refuse(r, f) \/ Deliver(r, f)

LifecycleSpec == FileInit /\ [][FileNext]_fileVars
=============================================================================
