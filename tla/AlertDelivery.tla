----------------------------- MODULE AlertDelivery -----------------------------
(***************************************************************************)
(* What the pipeline promises about an event: it is accepted once, it gets *)
(* one verdict, and the verdict is final.  An event whose verdict is       *)
(* "alerted" is announced exactly once, whatever is restarted or retried.  *)
(***************************************************************************)
EXTENDS Naturals

CONSTANT Event

VARIABLES status,     \* what has become of each event
          announced   \* how often an alert about it was handed over

Status == {"new", "accepted", "alerted", "gone"}

TypeOK == status \in [Event -> Status] /\ announced \in [Event -> Nat]

Init == status = [e \in Event |-> "new"] /\ announced = [e \in Event |-> 0]

\* Events are accepted, alerted and given up in groups: a batch is one step.
MayBecome(s, r) ==
  \/ r = s
  \/ s = "new" /\ r = "accepted"
  \/ s = "accepted" /\ r \in {"alerted", "gone"}

Step ==
  \E next \in [Event -> Status] :
    /\ \A e \in Event : MayBecome(status[e], next[e])
    /\ status' = next
    /\ announced' = [e \in Event |->
         IF next[e] = "alerted" /\ status[e] # "alerted" THEN announced[e] + 1
         ELSE announced[e]]

Spec == Init /\ [][Step]_<<status, announced>>

\* An alert is announced at most once, and only an alerted event is.
AnnouncedOnce ==
  \A e \in Event : announced[e] = IF status[e] = "alerted" THEN 1 ELSE 0
=============================================================================
