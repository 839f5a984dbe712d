---------------------------- MODULE CycleLedger ----------------------------
(***************************************************************************)
(* What a recurring schedule promises, without days, pauses, processes or  *)
(* transactions. Each cycle is settled once, as billed or as forgiven, and *)
(* what is settled stays so; the cursor only passes cycles that are        *)
(* settled; and an invoice waits to be sent once, right after it was made. *)
(***************************************************************************)
EXTENDS Integers

CONSTANTS Ids, CycleMonths

VARIABLES
  billed,    \* the cycles invoiced, as <<schedule, month>>
  forgiven,  \* the cycles a pause covered
  cursor,    \* the month each schedule is at, 0 before there is one
  waiting,   \* cycles whose invoice is still to be sent or reported
  told       \* cycles whose invoice was

ledger == <<billed, forgiven, cursor, waiting, told>>

Init ==
  /\ billed = {} /\ forgiven = {}
  /\ cursor \in [Ids -> Nat]
  /\ waiting = {} /\ told = {}

\* The cursor of one schedule goes on, over cycles settled by now.
Passes(s) ==
  /\ \A t \in Ids \ {s} : cursor'[t] = cursor[t]
  /\ cursor[s] <= cursor'[s]
  /\ \A month \in cursor[s] .. cursor'[s] - 1 :
       (month - cursor[s]) % CycleMonths = 0 => <<s, month>> \in billed' \cup forgiven'

Open ==
  /\ \E s \in Ids : cursor[s] = 0 /\ cursor'[s] > 0 /\ \A t \in Ids \ {s} : cursor'[t] = cursor[t]
  /\ UNCHANGED <<billed, forgiven, waiting, told>>

\* One cycle, open until now, is invoiced, and lies behind the cursor.
Bill ==
  /\ \E s \in Ids : \E c \in billed' \ (billed \cup forgiven) :
       /\ c[1] = s /\ billed' = billed \cup {c}
       /\ Passes(s) /\ c[2] < cursor'[s]
       /\ waiting' \in {waiting, waiting \cup {c}}
  /\ UNCHANGED <<forgiven, told>>

\* Cycles of one schedule, all open until now, are forgiven together.
Forgive ==
  /\ \E s \in Ids : \A c \in forgiven' \ forgiven : c[1] = s /\ c \notin billed
  /\ forgiven \subseteq forgiven'
  /\ UNCHANGED <<billed, cursor, waiting, told>>

Pass ==
  /\ \E s \in Ids : Passes(s)
  /\ UNCHANGED <<billed, forgiven, waiting, told>>

\* An invoice is sent, or left to the operator, and waits no more.
Tell ==
  /\ \E c \in waiting : waiting' = waiting \ {c} /\ told' \in {told, told \cup {c}}
  /\ UNCHANGED <<billed, forgiven, cursor>>

\* What waited in a process that was killed is forgotten.
Forget ==
  /\ waiting' \subseteq waiting
  /\ UNCHANGED <<billed, forgiven, cursor, told>>

Next == Open \/ Bill \/ Forgive \/ Pass \/ Tell \/ Forget

Spec == Init /\ [][Next]_ledger
=============================================================================
