----------------------------- MODULE AtLeastOnce -----------------------------
(***************************************************************************)
(* What the audit pipeline promises about an event, apart from tasks,      *)
(* handlers and partitions: once emitted it is tried a few times and       *)
(* stored at least once if it is confirmed, more than once only if an      *)
(* attempt went wrong, and given up only when every attempt did, or when   *)
(* no attempt could store it.                                              *)
(***************************************************************************)
CONSTANTS Events, Attempts

VARIABLES fate,     \* what has become of each event, for its sender
          sound,    \* the events that can be stored
          copies,   \* the attempts that stored an event
          faults    \* the attempts that failed, or whose answer the sender did not get

deliveryVars == <<fate, sound, copies, faults>>

Fates == {"none", "pending", "confirmed", "given_up", "lost"}

DeliveryInit ==
  /\ fate = [e \in Events |-> "none"] /\ sound \in [Events -> BOOLEAN]
  /\ copies = [e \in Events |-> {}] /\ faults = [e \in Events |-> {}]

Settle(e, from, to) == fate[e] = from /\ fate' = [fate EXCEPT ![e] = to]

Emit(e) == Settle(e, "none", "pending") /\ UNCHANGED <<sound, copies, faults>>

\* A copy beside another one belongs to an attempt that went wrong.  It may come late,
\* whatever its sender has been told meanwhile.
Store(e, a) ==
  /\ fate[e] # "none" /\ sound[e]
  /\ copies[e] \subseteq faults[e] \/ a \in faults[e]
  /\ copies' = [copies EXCEPT ![e] = @ \cup {a}]
  /\ UNCHANGED <<fate, sound, faults>>

Confirm(e) ==
  /\ Settle(e, "pending", "confirmed") /\ ~(copies[e] \subseteq faults[e])
  /\ UNCHANGED <<sound, copies, faults>>

GiveUp(e) ==
  /\ Settle(e, "pending", "given_up")
  /\ sound[e] => faults'[e] = Attempts

\* An attempt goes wrong, and the sender may give up at that.
Fault(e, a) ==
  /\ fate[e] # "none"
  /\ faults' = [faults EXCEPT ![e] = @ \cup {a}]
  /\ UNCHANGED fate \/ GiveUp(e)
  /\ UNCHANGED <<sound, copies>>

Abandon(e) == GiveUp(e) /\ UNCHANGED <<sound, copies, faults>>

\* The sender ends.
Crash ==
  /\ fate' = [e \in Events |-> IF fate[e] = "pending" THEN "lost" ELSE fate[e]]
  /\ UNCHANGED <<sound, copies, faults>>

DeliveryNext ==
  \/ \E e \in Events : Emit(e) \/ Confirm(e) \/ Abandon(e)
  \/ \E e \in Events, a \in Attempts : Store(e, a) \/ Fault(e, a)
  \/ Crash

DeliverySpec == DeliveryInit /\ [][DeliveryNext]_deliveryVars
=============================================================================
