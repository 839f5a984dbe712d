-------------------------- MODULE MCSchedulesAlone --------------------------
(* Schedules worked by one process at a time: one of them through the whole *)
(* calendar, or two of them that are in each other's way in its first       *)
(* month. A behaviour is of one part.                                       *)
EXTENDS MCSchedules

VARIABLE part  \* "calendar" or "rivals"

aloneVars == <<vars, part>>

\* What the operator and the calendar do in a part. The rivals both start on
\* the second day, and come due together. No run is ever held up by this.
Calendar == \A s \in Ids \ {1} : s \notin Created \cup archived
Rivals ==
  /\ today.m = 1
  /\ \A s \in Created : first[s] = [m |-> 1, d |-> 2] /\ schedules[s].anchor = 3

AloneInit == Init /\ \/ part = "calendar" /\ Calendar
                     \/ part = "rivals" /\ Rivals

AloneNext ==
  /\ part' = part
  /\ \/ part = "calendar" /\ Next /\ Calendar'
     \/ part = "rivals" /\ Next /\ Rivals'

AloneSpec == AloneInit /\ [][AloneNext]_aloneVars /\ Fairness
=============================================================================
