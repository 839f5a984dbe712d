---------------------------- MODULE MCSchedules ----------------------------
(* Schedules on small calendars: months of three and of two days, or of    *)
(* two and of one, so an anchor on the last day is clamped into the short  *)
(* ones.                                                                   *)
EXTENDS Schedules, TLC

MCLengths  == <<2, 3>>
MCShortest == <<1, 2>>

\* The processes differ in name only.
Commands == Permutations(Procs)
=============================================================================
