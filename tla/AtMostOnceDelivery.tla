------------------------- MODULE AtMostOnceDelivery -------------------------
(***************************************************************************)
(* What delivery of one Daily Workspace product promises, with no stores,  *)
(* no processes and no tokens.  A message is outstanding from the moment   *)
(* an attempt is authorised; it may be accepted by the platform while the  *)
(* attempt is in doubt, or even after the attempt was written off as       *)
(* unknown; a new attempt is authorised only after proof that the previous *)
(* one was not and never will be accepted.                                 *)
(***************************************************************************)
CONSTANT Copies      \* the identities an accepted message can have

VARIABLES
  phase,             \* "pending" | "inDoubt" | "acked" | "unknown"
  copies             \* the copies of the message the platform has accepted

vars == <<phase, copies>>

Init == phase = "pending" /\ copies = {}

Attempt == phase = "pending" /\ phase' = "inDoubt" /\ UNCHANGED copies

\* The platform accepts; nothing was accepted before, nothing is again.
Accept ==
  /\ phase \in {"inDoubt", "unknown"}
  /\ copies = {}
  /\ \E c \in Copies : copies' = {c}
  /\ UNCHANGED phase

\* Back to pending only when no copy exists.
NotSent ==
  /\ phase = "inDoubt" /\ copies = {}
  /\ phase' = "pending"
  /\ UNCHANGED copies

\* A positive settlement only when a copy exists.
Acknowledge ==
  /\ phase = "inDoubt" /\ copies # {}
  /\ phase' = "acked"
  /\ UNCHANGED copies

GiveUp == phase = "inDoubt" /\ phase' = "unknown" /\ UNCHANGED copies

Next == Attempt \/ Accept \/ NotSent \/ Acknowledge \/ GiveUp

Spec == Init /\ [][Next]_vars
=============================================================================
