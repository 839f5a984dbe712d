----------------------------- MODULE Schedules -----------------------------
(***************************************************************************)
(* Recurring invoice schedules (crates/nigel-core/src/invoicing/           *)
(* schedules.rs): a schedule row and its history of settled periods, and   *)
(* the commands that several processes run against them at once - a cron   *)
(* job's "schedule run" beside an operator's pause, resume, edit and end.  *)
(*                                                                         *)
(* A date is a month number and a day.  Every command is cut at the points *)
(* where it lets go of the database: what it read before such a point is   *)
(* kept in op[p] and used, stale or not, by its later steps.               *)
(***************************************************************************)
EXTENDS Integers, FiniteSets, Sequences

CONSTANTS
  Ids,           \* schedule ids; a run walks them in ascending order
  Procs,         \* processes that open the database
  None,          \* SQL NULL
  CycleMonths,   \* months one cycle of the cadence covers: 1, 3 or 12
  Lengths,       \* the calendar: the days of its months, over and over
  AnchorDays,    \* anchor days the operator may ask for
  Autosends,     \* bound: the autosend choices an operator makes
  LastMonth,     \* bound: the calendar stops at the end of this month
  MaxCrashes     \* bound: processes killed in the middle of a command

ASSUME IdsAssumption == Ids \subseteq Nat
ASSUME CycleAssumption == CycleMonths \in {1, 3, 12}
ASSUME CalendarAssumption == Lengths \in Seq(Nat \ {0}) /\ Lengths # <<>>
ASSUME AutosendAssumption == Autosends \subseteq BOOLEAN
ASSUME AnchorAssumption == AnchorDays \subseteq Nat \ {0}
ASSUME BoundAssumption == LastMonth \in Nat /\ MaxCrashes \in Nat

VARIABLES
  today,      \* the day every command takes from the clock when it starts
  schedules,  \* invoice_schedules
  runs,       \* invoice_schedule_runs, one row per settled period
  archived,   \* schedules whose client is archived
  op,         \* what each process is in the middle of
  mailed,     \* invoices an autosend put in the client's inbox
  unsent,     \* invoices a run reported as generated and not sent
  first,      \* history: the period each schedule started with
  writtenOff, \* history: the periods that ending a schedule forgave
  crashes     \* history: how many processes were killed

vars == <<today, schedules, runs, archived, op, mailed, unsent, first,
          writtenOff, crashes>>

-----------------------------------------------------------------------------
(* Dates *)

Date == [m : Nat, d : Nat]

Leq(p, q) == p.m < q.m \/ (p.m = q.m /\ p.d <= q.d)
Lt(p, q)  == p.m < q.m \/ (p.m = q.m /\ p.d < q.d)

DaysIn(month) == Lengths[1 + (month % Len(Lengths))]

ClampDay(month, day) == IF day <= DaysIn(month) THEN day ELSE DaysIn(month)

\* The anchor advances, never the clamped day of the period before.
AdvancePeriod(anchor, p) ==
  [m |-> p.m + CycleMonths, d |-> ClampDay(p.m + CycleMonths, anchor)]

\* The periods a walk from next_period visits on or before a day.
Walk(row, day) ==
  {p \in {row.next} \cup
         {[m |-> k, d |-> ClampDay(k, row.anchor)] :
            k \in {j \in row.next.m + 1 .. day.m :
                     (j - row.next.m) % CycleMonths = 0}} : Leq(p, day)}

\* Mutant: the walk starts at the newest arrears.
IsLatest(q, periods) == \A x \in periods : Leq(x, q)

IsEarliest(q, periods) == \A x \in periods : Leq(q, x)

-----------------------------------------------------------------------------
(* The rows *)

Row == [anchor : AnchorDays, next : Date, autosend : BOOLEAN,
        paused : BOOLEAN, pausedAt : Date \cup {None}, endedAt : Date \cup {None}]

\* NULL is no date and no row.
ASSUME NoneAssumption == None \notin Date /\ None \notin Row

Created == {s \in Ids : schedules[s] # None}

\* What list_schedules answers a run with.
Active == {s \in Created : ~schedules[s].paused /\ schedules[s].endedAt = None}

Run == [schedule : Ids, period : Date, invoice : BOOLEAN]

HasRun(s, p) == \E r \in runs : r.schedule = s /\ r.period = p

InvoiceRun(s, p) == [schedule |-> s, period |-> p, invoice |-> TRUE]
SkipRun(s, p)    == [schedule |-> s, period |-> p, invoice |-> FALSE]

\* A pause covers everything from the day it began; an undated one nothing.
PauseCovers(row, p) == row.pausedAt # None /\ Leq(row.pausedAt, p)

\* Mutant: what a schedule owes ignores its pause.
UnbilledThroughPause(s, day) ==
  IF schedules[s].endedAt # None
  THEN {}
  ELSE {p \in Walk(schedules[s], day) : ~HasRun(s, p)}

Unbilled(s, day) ==
  IF schedules[s].endedAt # None
  THEN {}
  ELSE {p \in Walk(schedules[s], day) :
          ~PauseCovers(schedules[s], p) /\ ~HasRun(s, p)}

-----------------------------------------------------------------------------
Idle == [at |-> "idle"]

Become(p, state) == op' = [op EXCEPT ![p] = state]

\* A row of a database that predates the pause date: paused, undated.
LegacyRow(start, anchor) ==
  [anchor |-> anchor, next |-> start, autosend |-> FALSE,
   paused |-> TRUE, pausedAt |-> None, endedAt |-> None]

Init ==
  /\ today = [m |-> 1, d |-> 1]
  /\ schedules \in [Ids -> {None} \cup {LegacyRow([m |-> 1, d |-> 1], a) : a \in AnchorDays}]
  /\ first = [s \in Ids |-> IF schedules[s] = None THEN None ELSE schedules[s].next]
  /\ runs = {}
  /\ archived = {}
  /\ op = [p \in Procs |-> Idle]
  /\ mailed = {}
  /\ unsent = {}
  /\ writtenOff = {}
  /\ crashes = 0

-----------------------------------------------------------------------------
(* Commands that are one transaction *)

\* Bound: the days of the calendar a first period is asked for, past or to come.
Starts == UNION {{[m |-> k, d |-> x] : x \in 1 .. DaysIn(k)} : k \in 1 .. LastMonth}

\* The operator names the first period; the anchor says where the next ones land.
AddSchedule(p, s, start, anchor, auto) ==
  /\ op[p] = Idle
  /\ s \notin Created \cup archived
  /\ schedules' = [schedules EXCEPT ![s] =
                     [anchor |-> anchor, next |-> start, autosend |-> auto,
                      paused |-> FALSE, pausedAt |-> None, endedAt |-> None]]
  /\ first' = [first EXCEPT ![s] = start]
  /\ UNCHANGED <<today, runs, archived, op, mailed, unsent, writtenOff, crashes>>

\* Mutant: moving the anchor moves the cycle into the current month.
UpdateMovesCycle(p, s, anchor, auto) ==
  /\ op[p] = Idle
  /\ s \in Created
  /\ schedules' = [schedules EXCEPT
                     ![s].anchor = anchor, ![s].autosend = auto,
                     ![s].next = [m |-> today.m, d |-> ClampDay(today.m, anchor)]]
  /\ UNCHANGED <<today, runs, archived, op, mailed, unsent, first, writtenOff, crashes>>

\* next_period is never touched.
UpdateSchedule(p, s, anchor, auto) ==
  /\ op[p] = Idle
  /\ s \in Created
  /\ schedules' = [schedules EXCEPT ![s].anchor = anchor, ![s].autosend = auto]
  /\ UNCHANGED <<today, runs, archived, op, mailed, unsent, first, writtenOff, crashes>>

\* A schedule already paused keeps the date it has, or has not.
PauseSchedule(p, s) ==
  /\ op[p] = Idle
  /\ s \in Created
  /\ schedules' = [schedules EXCEPT
                     ![s].pausedAt = IF schedules[s].paused THEN @ ELSE today,
                     ![s].paused = TRUE]
  /\ UNCHANGED <<today, runs, archived, op, mailed, unsent, first, writtenOff, crashes>>

SetClientArchived(p, s) ==
  /\ op[p] = Idle
  /\ archived' = IF s \in archived THEN archived \ {s} ELSE archived \cup {s}
  /\ UNCHANGED <<today, schedules, runs, op, mailed, unsent, first, writtenOff, crashes>>

-----------------------------------------------------------------------------
(* Resume: the row is read, then one transaction writes the skip rows the  *)
(* row called for and clears the pause.                                    *)

StartResume(p, s) ==
  /\ op[p] = Idle
  /\ s \in Created
  /\ schedules[s].endedAt = None
  /\ Become(p, [at |-> "resume", id |-> s, day |-> today, row |-> schedules[s]])
  /\ UNCHANGED <<today, schedules, runs, archived, mailed, unsent, first, writtenOff, crashes>>

\* [paused_at, on), walked from where the cycle stands.
Forgiven(row, day) ==
  {q \in Walk(row, day) : Lt(q, day) /\ PauseCovers(row, q)}

\* Mutant: INSERT OR REPLACE, so a skip row takes the place of an invoice's.
CommitResumeReplaces(p) ==
  /\ op[p].at = "resume"
  /\ LET s == op[p].id
         skipped == Forgiven(op[p].row, op[p].day)
     IN  /\ runs' = {r \in runs : ~(r.schedule = s /\ r.period \in skipped)}
                    \cup {SkipRun(s, q) : q \in skipped}
         /\ schedules' = [schedules EXCEPT ![s].paused = FALSE, ![s].pausedAt = None]
  /\ Become(p, Idle)
  /\ UNCHANGED <<today, archived, mailed, unsent, first, writtenOff, crashes>>

CommitResume(p) ==
  /\ op[p].at = "resume"
  /\ LET s == op[p].id
         skipped == {q \in Forgiven(op[p].row, op[p].day) : ~HasRun(s, q)}
     IN  /\ runs' = runs \cup {SkipRun(s, q) : q \in skipped}
         /\ schedules' = [schedules EXCEPT ![s].paused = FALSE, ![s].pausedAt = None]
  /\ Become(p, Idle)
  /\ UNCHANGED <<today, archived, mailed, unsent, first, writtenOff, crashes>>

-----------------------------------------------------------------------------
(* generate_period: one transaction.  The row is the caller's copy, the    *)
(* history row is the authority.                                           *)

\* The period is settled already: the cycle advances, never backwards.
AlreadySettled(s, row, q) ==
  /\ HasRun(s, q)
  /\ LET next == AdvancePeriod(row.anchor, q)
     IN  schedules' = [schedules EXCEPT ![s].next = IF Leq(@, next) THEN next ELSE @]
  /\ runs' = runs

\* Mutant: the clamped day is remembered as the anchor.
GeneratesClamped(s, row, q) ==
  /\ ~HasRun(s, q)
  /\ s \notin archived
  /\ runs' = runs \cup {InvoiceRun(s, q)}
  /\ LET next == AdvancePeriod(row.anchor, q)
     IN  schedules' = [schedules EXCEPT ![s].next = next, ![s].anchor = next.d]

\* The invoice, the history row and the advance, together.
Generates(s, row, q) ==
  /\ ~HasRun(s, q)
  /\ s \notin archived
  /\ runs' = runs \cup {InvoiceRun(s, q)}
  /\ schedules' = [schedules EXCEPT ![s].next = AdvancePeriod(row.anchor, q)]

\* Mutant: a refused period is passed over.
RefusesAndAdvances(s, q) ==
  /\ ~HasRun(s, q)
  /\ s \in archived
  /\ runs' = runs
  /\ schedules' = [schedules EXCEPT ![s].next = AdvancePeriod(schedules[s].anchor, q)]

\* An archived client refuses the invoice, and the transaction with it.
Refuses(s, q) ==
  /\ ~HasRun(s, q)
  /\ s \in archived
  /\ UNCHANGED <<runs, schedules>>

-----------------------------------------------------------------------------
(* Run: the active schedules are listed once; each copy's next is the      *)
(* cursor of its walk.  The copies still due stay in rows.                 *)

StillDue(rows, day) ==
  [s \in {t \in DOMAIN rows : Leq(rows[t].next, day)} |-> rows[s]]

RunState(day, rows, made) ==
  LET due == StillDue(rows, day)
  IN  IF DOMAIN due = {} /\ made = <<>>
      THEN Idle
      ELSE [at |-> "run", day |-> day, rows |-> due, made |-> made]

Running(p) == op[p].at = "run"

\* The schedule whose walk is under way.
IsCurrent(s, rows) == s \in DOMAIN rows /\ \A t \in DOMAIN rows : s <= t

StartRun(p) ==
  /\ op[p] = Idle
  /\ Become(p, RunState(today, [s \in Active |-> schedules[s]], <<>>))
  /\ UNCHANGED <<today, schedules, runs, archived, mailed, unsent, first, writtenOff, crashes>>

\* Mutant: a period found settled is reported, and sent, as generated.
RunPeriodReportsSettled(p) ==
  /\ Running(p)
  /\ \E s \in Ids :
     LET row == op[p].rows[s]
         walked == [op[p].rows EXCEPT ![s].next = AdvancePeriod(row.anchor, row.next)]
     IN  /\ IsCurrent(s, op[p].rows)
         /\ AlreadySettled(s, row, row.next) \/ Generates(s, row, row.next)
         /\ Become(p, RunState(op[p].day, walked, Append(op[p].made, <<s, row.next>>)))
  /\ UNCHANGED <<today, archived, mailed, unsent, first, writtenOff, crashes>>

RunPeriod(p) ==
  /\ Running(p)
  /\ \E s \in Ids :
     LET row == op[p].rows[s]
         walked == [op[p].rows EXCEPT ![s].next = AdvancePeriod(row.anchor, row.next)]
     IN  /\ IsCurrent(s, op[p].rows)
         /\ \/ /\ AlreadySettled(s, row, row.next)
               /\ Become(p, RunState(op[p].day, walked, op[p].made))
            \/ /\ Generates(s, row, row.next)
               /\ Become(p, RunState(op[p].day, walked, Append(op[p].made, <<s, row.next>>)))
  /\ UNCHANGED <<today, archived, mailed, unsent, first, writtenOff, crashes>>

\* Mutant: one sick schedule stops the run.
RunRefusedStopsAll(p) ==
  /\ Running(p)
  /\ \E s \in Ids : IsCurrent(s, op[p].rows) /\ Refuses(s, op[p].rows[s].next)
  /\ Become(p, Idle)
  /\ UNCHANGED <<today, archived, mailed, unsent, first, writtenOff, crashes>>

\* One sick schedule stops its own walk and no other.
RunRefused(p) ==
  /\ Running(p)
  /\ \E s \in Ids :
     LET others == [t \in DOMAIN op[p].rows \ {s} |-> op[p].rows[t]]
     IN  /\ IsCurrent(s, op[p].rows)
         /\ Refuses(s, op[p].rows[s].next)
         /\ Become(p, RunState(op[p].day, others, op[p].made))
  /\ UNCHANGED <<today, archived, mailed, unsent, first, writtenOff, crashes>>

\* Every walk is over: the invoices of schedules that ask for it are sent.
\* A send that fails may have failed before the mail left or after.
RunSend(p) ==
  /\ Running(p)
  /\ DOMAIN op[p].rows = {}
  /\ op[p].made # <<>>
  /\ LET invoice == Head(op[p].made)
     IN  IF schedules[invoice[1]].autosend
         THEN \/ /\ mailed' = mailed \cup {invoice}
                 /\ unsent' = unsent
              \/ /\ mailed' \in {mailed, mailed \cup {invoice}}
                 /\ unsent' = unsent \cup {invoice}
         ELSE UNCHANGED <<mailed, unsent>>
  /\ Become(p, RunState(op[p].day, op[p].rows, Tail(op[p].made)))
  /\ UNCHANGED <<today, schedules, runs, archived, first, writtenOff, crashes>>

-----------------------------------------------------------------------------
(* End: the row is read and refused if ended, then what is owed is read,   *)
(* then the drafts are billed one transaction each, then the end is        *)
(* written.                                                                *)

Dispositions == {"refuse", "forgive", "bill"}

StartEnd(p, s, how) ==
  /\ op[p] = Idle
  /\ s \in Created
  /\ schedules[s].endedAt = None
  /\ Become(p, [at |-> "end", id |-> s, day |-> today, how |-> how, row |-> schedules[s]])
  /\ UNCHANGED <<today, schedules, runs, archived, mailed, unsent, first, writtenOff, crashes>>

FinishState(s, day, off) == [at |-> "finish", id |-> s, day |-> day, off |-> off]

DecideEnd(p) ==
  /\ op[p].at = "end"
  /\ LET s == op[p].id
         owed == Unbilled(s, op[p].day)
     IN  \/ /\ owed = {}
            /\ Become(p, FinishState(s, op[p].day, {}))
         \/ /\ owed # {} /\ op[p].how = "refuse"
            /\ Become(p, Idle)
         \/ /\ owed # {} /\ op[p].how = "forgive"
            /\ Become(p, FinishState(s, op[p].day, owed))
         \/ /\ owed # {} /\ op[p].how = "bill"
            /\ Become(p, [at |-> "bill", id |-> s, day |-> op[p].day,
                          row |-> op[p].row, owed |-> owed])
  /\ UNCHANGED <<today, schedules, runs, archived, mailed, unsent, first, writtenOff, crashes>>

EndBill(p) ==
  /\ op[p].at = "bill"
  /\ \E q \in op[p].owed :
     LET s == op[p].id
         rest == op[p].owed \ {q}
     IN  /\ IsEarliest(q, op[p].owed)
         /\ AlreadySettled(s, op[p].row, q) \/ Generates(s, op[p].row, q)
         /\ IF rest = {}
            THEN Become(p, FinishState(s, op[p].day, {}))
            ELSE op' = [op EXCEPT ![p].owed = rest]
  /\ UNCHANGED <<today, archived, mailed, unsent, first, writtenOff, crashes>>

\* Mutant: a walk that stopped partway ends the schedule all the same.
EndBillRefusedEnds(p) ==
  /\ op[p].at = "bill"
  /\ \E q \in op[p].owed : IsEarliest(q, op[p].owed) /\ Refuses(op[p].id, q)
  /\ Become(p, FinishState(op[p].id, op[p].day, {}))
  /\ UNCHANGED <<today, archived, mailed, unsent, first, writtenOff, crashes>>

\* The walk stopped partway: the schedule stays active.
EndBillRefused(p) ==
  /\ op[p].at = "bill"
  /\ \E q \in op[p].owed : IsEarliest(q, op[p].owed) /\ Refuses(op[p].id, q)
  /\ Become(p, Idle)
  /\ UNCHANGED <<today, archived, mailed, unsent, first, writtenOff, crashes>>

FinishEnd(p) ==
  /\ op[p].at = "finish"
  /\ schedules' = [schedules EXCEPT ![op[p].id].endedAt = op[p].day]
  /\ writtenOff' = writtenOff \cup {<<op[p].id, q>> : q \in op[p].off}
  /\ Become(p, Idle)
  /\ UNCHANGED <<today, runs, archived, mailed, unsent, first, crashes>>

-----------------------------------------------------------------------------
NextDay ==
  /\ today' = IF today.d < DaysIn(today.m)
              THEN [today EXCEPT !.d = @ + 1]
              ELSE [m |-> today.m + 1, d |-> 1]
  /\ today'.m <= LastMonth
  /\ UNCHANGED <<schedules, runs, archived, op, mailed, unsent, first, writtenOff, crashes>>

\* A process killed in the middle: what it committed stays, what it had read
\* and the invoices it still meant to send go with it.
Crash(p) ==
  /\ op[p] # Idle
  /\ crashes < MaxCrashes
  /\ crashes' = crashes + 1
  /\ Become(p, Idle)
  /\ UNCHANGED <<today, schedules, runs, archived, mailed, unsent, first, writtenOff>>

Continue(p) ==
  \/ CommitResume(p)
  \/ RunPeriod(p) \/ RunRefused(p) \/ RunSend(p)
  \/ DecideEnd(p) \/ EndBill(p) \/ EndBillRefused(p) \/ FinishEnd(p)

Operator(p, s) ==
  \/ \E anchor \in AnchorDays, auto \in Autosends :
       \/ \E start \in Starts : AddSchedule(p, s, start, anchor, auto)
       \/ UpdateSchedule(p, s, anchor, auto)
  \/ PauseSchedule(p, s)
  \/ SetClientArchived(p, s)
  \/ StartResume(p, s)
  \/ \E how \in Dispositions : StartEnd(p, s, how)

Next ==
  \/ NextDay
  \/ \E p \in Procs :
       \/ \E s \in Ids : Operator(p, s)
       \/ StartRun(p)
       \/ Continue(p)
       \/ Crash(p)

Spec == Init /\ [][Next]_vars

\* A command that began runs on, and the scheduled job keeps coming round.
Fairness ==
  /\ \A p \in Procs : WF_vars(Continue(p))
  /\ SF_vars(\E p \in Procs : StartRun(p))

FairSpec == Spec /\ Fairness

-----------------------------------------------------------------------------
(* Properties *)

\* What a process may be in the middle of.
OpOK(o) ==
  \/ o = Idle
  \/ /\ o.at = "run"
     /\ o \in [at : {"run"}, day : Date, rows : {o.rows}, made : Seq(Ids \X Date)]
     /\ DOMAIN o.rows \subseteq Ids
     /\ o.rows \in [DOMAIN o.rows -> Row]
  \/ o \in [at : {"resume"}, id : Ids, day : Date, row : Row]
  \/ o \in [at : {"end"}, id : Ids, day : Date, how : Dispositions, row : Row]
  \/ o \in [at : {"bill"}, id : Ids, day : Date, row : Row, owed : SUBSET Date]
  \/ o \in [at : {"finish"}, id : Ids, day : Date, off : SUBSET Date]

\* The rows and every process's copy of them have the columns' types.
TypeOK ==
  /\ today \in Date
  /\ schedules \in [Ids -> Row \cup {None}]
  /\ runs \subseteq Run
  /\ archived \subseteq Ids
  /\ DOMAIN op = Procs
  /\ \A p \in Procs : OpOK(op[p])
  /\ mailed \subseteq Ids \X Date
  /\ unsent \subseteq Ids \X Date
  /\ first \in [Ids -> Date \cup {None}]
  /\ writtenOff \subseteq Ids \X Date
  /\ crashes \in 0..MaxCrashes

\* The months of a schedule that have a history row, and those billed.
Settled(s) == {r.period.m : r \in {x \in runs : x.schedule = s}}
Billed(s)  == {r.period.m : r \in {x \in runs : x.schedule = s /\ x.invoice}}

\* The months a schedule's cycle falls in, from the one it started in.
CycleOf(s, month) == \E n \in 0..month : month = first[s].m + n * CycleMonths

\* Catch-up misses no cycle: every cycle behind next_period was billed or
\* skipped, whatever was paused, edited, refused, killed or run twice at once.
NoCycleLost ==
  \A s \in Created :
    \A month \in first[s].m .. schedules[s].next.m - 1 :
      CycleOf(s, month) => month \in Settled(s)

\* A cycle is invoiced once, whatever day of the month it was dated: a rerun,
\* a retried end and an edited anchor bill nothing twice.
BilledOnce ==
  \A r, x \in runs :
    (r.schedule = x.schedule /\ r.invoice /\ x.invoice /\ r.period.m = x.period.m) => r = x

\* A cycle forgiven by a pause that was lifted stays forgiven: no invoice is
\* ever written for its month.
ForgivenStaysForgiven ==
  \A r \in runs : ~r.invoice => r.period.m \notin Billed(r.schedule)

\* What a step added to the history as invoices of a schedule.
NewInvoices(s) == {r.period : r \in {x \in runs' \ runs : x.schedule = s /\ x.invoice}}

\* Only what is owed is billed: an ended schedule bills nothing more, a paused
\* one nothing its pause covers, and no cycle is billed before its day.
BillsOnlyOpenCycles ==
  [][\A s \in Created : \A q \in NewInvoices(s) :
       /\ schedules[s].endedAt = None
       /\ ~PauseCovers(schedules[s], q)
       /\ Leq(q, today)]_vars

\* Missed cycles are billed in order: an invoice is never dated before one the
\* same schedule already has, so numbers and dates agree.
BilledInOrder ==
  [][\A s \in Created : \A q \in NewInvoices(s) :
       \A r \in runs : (r.schedule = s /\ r.invoice) => Lt(r.period, q)]_vars

\* Ending leaves nothing undecided: every cycle up to the end date has been
\* billed, was skipped or paused, or was written off by this very end.
EndSettlesEverything ==
  [][\A s \in Created :
       (schedules[s].endedAt = None /\ schedules'[s].endedAt # None) =>
          \A q \in Walk(schedules[s], schedules'[s].endedAt) :
             HasRun(s, q) \/ PauseCovers(schedules[s], q) \/ <<s, q>> \in writtenOff']_vars

\* With a scheduled job and the processes left to finish, a cycle that is due
\* on an active schedule is settled in the end, unless the operator steps in -
\* and another schedule that cannot be billed does not hold it up.
DueIsSettled ==
  \A s \in Ids :
    (s \in Active /\ Leq(schedules[s].next, today)) ~>
      (s \notin Active \/ s \in archived \/ Lt(today, schedules[s].next))

\* What the rows, the history and the queues of the runs promise about each
\* cycle, as a specification of its own: however runs, resumes and ends cross, a
\* cycle is settled once, next_period never goes back and passes nothing that is
\* open, and an invoice is queued for sending by the run that made it, once.
CyclesOf(periods) == {<<i[1], i[2].m>> : i \in periods}
BilledCycles == {<<r.schedule, r.period.m>> : r \in {x \in runs : x.invoice}}
SkippedCycles == {<<r.schedule, r.period.m>> : r \in {x \in runs : ~x.invoice}}
Queued == UNION {{op[p].made[i] : i \in DOMAIN op[p].made} : p \in {q \in Procs : Running(q)}}
Cursors == [s \in Ids |-> IF s \in Created THEN schedules[s].next.m ELSE 0]
Waiting == CyclesOf(Queued)
Told == CyclesOf(mailed \cup unsent)

Ledger == INSTANCE CycleLedger WITH
            billed <- BilledCycles, forgiven <- SkippedCycles, cursor <- Cursors,
            waiting <- Waiting, told <- Told

LedgerSpec == Ledger!Spec
=============================================================================
