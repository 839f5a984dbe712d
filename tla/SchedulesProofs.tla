-------------------------- MODULE SchedulesProofs --------------------------
(***************************************************************************)
(* Proofs about Schedules, for every set of schedules and processes, every *)
(* calendar, cadence and set of anchor days.                               *)
(***************************************************************************)
EXTENDS Schedules, TLAPS

-----------------------------------------------------------------------------
(* Dates *)

\* Every month of the calendar has a day.
LEMMA DaysInType == \A k \in Nat : DaysIn(k) \in Nat \ {0}
<1> SUFFICES ASSUME NEW k \in Nat PROVE DaysIn(k) \in Nat \ {0}
  OBVIOUS
<1>1. Len(Lengths) \in Nat \ {0}
  BY CalendarAssumption
<1>2. k % Len(Lengths) \in 0 .. Len(Lengths) - 1
  BY <1>1, SMT
<1>3. 1 + (k % Len(Lengths)) \in DOMAIN Lengths
  BY <1>1, <1>2, CalendarAssumption
<1> QED
  BY <1>3, CalendarAssumption DEF DaysIn

\* The day the clamp answers exists, and is never past the anchor.
LEMMA ClampDayType ==
  ASSUME NEW k \in Nat, NEW a \in AnchorDays
  PROVE  ClampDay(k, a) \in Nat
BY DaysInType, AnchorAssumption DEF ClampDay

\* The next period is a date, one cycle of months later.
LEMMA AdvanceType ==
  ASSUME NEW a \in AnchorDays, NEW p \in Date
  PROVE  /\ AdvancePeriod(a, p) \in Date
         /\ AdvancePeriod(a, p).m = p.m + CycleMonths
<1>1. CycleMonths \in Nat /\ p.m \in Nat /\ p.m + CycleMonths \in Nat
  BY CycleAssumption DEF Date
<1> QED
  BY <1>1, ClampDayType DEF AdvancePeriod, Date

\* A walk visits dates.
LEMMA WalkType ==
  ASSUME NEW row \in Row, NEW day \in Date
  PROVE  Walk(row, day) \subseteq Date
<1> SUFFICES ASSUME NEW q \in Walk(row, day) PROVE q \in Date
  OBVIOUS
<1>1. row.next \in Date /\ row.anchor \in AnchorDays
  BY DEF Row
<1>2. CASE q = row.next
  BY <1>1, <1>2
<1>3. CASE \E k \in row.next.m + 1 .. day.m : q = [m |-> k, d |-> ClampDay(k, row.anchor)]
  <2>1. PICK k \in row.next.m + 1 .. day.m : q = [m |-> k, d |-> ClampDay(k, row.anchor)]
    BY <1>3
  <2>2. k \in Nat
    BY <1>1 DEF Date
  <2> QED
    BY <2>1, <2>2, <1>1, ClampDayType DEF Date
<1> QED
  BY <1>2, <1>3 DEF Walk

-----------------------------------------------------------------------------
(* Type correctness *)

LEMMA StartsType == \A q \in Starts : q \in Date /\ q.m >= 1
<1> SUFFICES ASSUME NEW k \in 1 .. LastMonth, NEW x \in 1 .. DaysIn(k)
             PROVE  [m |-> k, d |-> x] \in Date /\ [m |-> k, d |-> x].m >= 1
  BY DEF Starts
<1>1. k \in Nat /\ DaysIn(k) \in Nat
  BY BoundAssumption, DaysInType
<1> QED
  BY <1>1 DEF Date

\* A process that takes up a well-formed state leaves the others as they were.
LEMMA BecomeOK ==
  ASSUME TypeOK, NEW p \in Procs, NEW o, OpOK(o), Become(p, o)
  PROVE  DOMAIN op' = Procs /\ \A q \in Procs : OpOK(op'[q])
BY DEF TypeOK, Become

\* The state a run is left in is well formed.
LEMMA RunStateOK ==
  ASSUME NEW day \in Date, NEW rows, DOMAIN rows \subseteq Ids,
         rows \in [DOMAIN rows -> Row], NEW made \in Seq(Ids \X Date)
  PROVE  OpOK(RunState(day, rows, made))
<1> DEFINE due == StillDue(rows, day)
<1>1. /\ DOMAIN due \subseteq Ids
      /\ DOMAIN due \subseteq DOMAIN rows
      /\ due \in [DOMAIN due -> Row]
  BY DEF StillDue
<1> QED
  BY <1>1, Zenon DEF RunState, OpOK

\* What a running process holds.
LEMMA RunTyped ==
  ASSUME NEW p \in Procs, TypeOK, Running(p)
  PROVE  /\ op[p].day \in Date
         /\ DOMAIN op[p].rows \subseteq Ids
         /\ op[p].rows \in [DOMAIN op[p].rows -> Row]
         /\ op[p].made \in Seq(Ids \X Date)
<1>1. OpOK(op[p]) /\ op[p].at = "run"
  BY DEF TypeOK, Running
<1> QED
  BY <1>1 DEF OpOK, Idle

\* A run's copies stay rows of schedules when one walk moves on a period.
LEMMA WalkedTyped ==
  ASSUME NEW rows, DOMAIN rows \subseteq Ids, rows \in [DOMAIN rows -> Row],
         NEW s \in DOMAIN rows
  PROVE  LET walked == [rows EXCEPT ![s].next = AdvancePeriod(rows[s].anchor, rows[s].next)]
         IN  DOMAIN walked = DOMAIN rows /\ walked \in [DOMAIN walked -> Row]
<1>1. rows[s] \in Row
  OBVIOUS
<1>2. AdvancePeriod(rows[s].anchor, rows[s].next) \in Date
  BY <1>1, AdvanceType DEF Row
<1>3. [rows[s] EXCEPT !.next = AdvancePeriod(rows[s].anchor, rows[s].next)] \in Row
  BY <1>1, <1>2 DEF Row
<1> QED
  BY <1>3

\* A row whose cursor moves is still a row, and the table a table of rows.
LEMMA MoveNextTyped ==
  ASSUME TypeOK, NEW s \in Created, NEW d \in Date
  PROVE  [schedules EXCEPT ![s].next = d] \in [Ids -> Row \cup {None}]
<1>1. schedules[s] \in Row
  BY DEF Created, TypeOK
<1>2. [schedules[s] EXCEPT !.next = d] \in Row
  BY <1>1 DEF Row
<1> QED
  BY <1>2 DEF TypeOK, Created

\* What the three outcomes of generate_period leave in the tables.
LEMMA PeriodTyped ==
  ASSUME TypeOK, NEW s \in Created, NEW row \in Row, NEW q \in Date,
         AlreadySettled(s, row, q) \/ Generates(s, row, q) \/ Refuses(s, q)
  PROVE  schedules' \in [Ids -> Row \cup {None}] /\ runs' \subseteq Run
<1>1. AdvancePeriod(row.anchor, q) \in Date
  BY AdvanceType DEF Row
<1>2. schedules[s].next \in Date
  BY DEF TypeOK, Created, Row
<1>3. InvoiceRun(s, q) \in Run
  BY DEF InvoiceRun, Run, Created
<1>4. CASE AlreadySettled(s, row, q)
  <2>1. PICK d \in Date : schedules' = [schedules EXCEPT ![s].next = d]
    BY <1>1, <1>2, <1>4 DEF AlreadySettled
  <2> QED
    BY <2>1, <1>4, MoveNextTyped DEF AlreadySettled, TypeOK
<1>5. CASE Generates(s, row, q)
  BY <1>1, <1>3, <1>5, MoveNextTyped DEF Generates, TypeOK
<1>6. CASE Refuses(s, q)
  BY <1>6 DEF Refuses, TypeOK
<1> QED
  BY <1>4, <1>5, <1>6

-----------------------------------------------------------------------------
(* No process works on a schedule that was never created.  TypeOK is not   *)
(* inductive without it: a cursor is moved only in a row that is there.    *)

HeldBy(o) ==
  IF o.at = "run" THEN DOMAIN o.rows ELSE IF o.at = "idle" THEN {} ELSE {o.id}

HeldCreated == \A p \in Procs : HeldBy(op[p]) \subseteq Created

TypeInv == TypeOK /\ HeldCreated

LEMMA BecomeHeld ==
  ASSUME TypeInv, NEW p \in Procs, NEW o, Become(p, o),
         Created \subseteq Created', HeldBy(o) \subseteq Created'
  PROVE  HeldCreated'
<1> SUFFICES ASSUME NEW q \in Procs PROVE HeldBy(op'[q]) \subseteq Created'
  BY DEF HeldCreated
<1>1. op'[q] = IF q = p THEN o ELSE op[q]
  BY DEF Become, TypeInv, TypeOK
<1> QED
  BY <1>1 DEF TypeInv, HeldCreated

LEMMA IdleHeld == OpOK(Idle) /\ HeldBy(Idle) = {}
BY DEF OpOK, HeldBy, Idle

LEMMA RunStateHeld ==
  ASSUME NEW day, NEW rows, NEW made
  PROVE  HeldBy(RunState(day, rows, made)) \subseteq DOMAIN rows
<1> DEFINE due == StillDue(rows, day)
<1>1. DOMAIN due \subseteq DOMAIN rows
  BY DEF StillDue
<1>2. CASE RunState(day, rows, made) = Idle
  BY <1>2, IdleHeld
<1>3. CASE RunState(day, rows, made) = [at |-> "run", day |-> day, rows |-> due, made |-> made]
  <2> DEFINE o == RunState(day, rows, made)
  <2>1. o.at = "run" /\ o.rows = due
    BY <1>3
  <2> QED
    BY <2>1, <1>1 DEF HeldBy
<1> QED
  BY <1>2, <1>3, Zenon DEF RunState

\* A step of generate_period removes no schedule.
LEMMA PeriodCreated ==
  ASSUME TypeOK, NEW s \in Created, NEW row \in Row, NEW q \in Date,
         AlreadySettled(s, row, q) \/ Generates(s, row, q) \/ Refuses(s, q)
  PROVE  Created' = Created
<1>1. schedules[s] \in Row /\ schedules[s].next \in Date
  BY DEF TypeOK, Created, Row
<1>2. AdvancePeriod(row.anchor, q) \in Date
  BY AdvanceType DEF Row
<1>3. CASE Refuses(s, q)
  BY <1>3 DEF Refuses, Created
<1>4. CASE AlreadySettled(s, row, q) \/ Generates(s, row, q)
  <2>1. PICK d \in Date : schedules' = [schedules EXCEPT ![s].next = d]
    BY <1>1, <1>2, <1>4 DEF AlreadySettled, Generates
  <2>2. [schedules[s] EXCEPT !.next = d] \in Row
    BY <1>1 DEF Row
  <2>3. schedules' = [schedules EXCEPT ![s] = [schedules[s] EXCEPT !.next = d]]
    BY <2>1
  <2>4. schedules'[s] # None
    BY <2>2, <2>3, NoneAssumption DEF Created, TypeOK
  <2>5. \A t \in Ids \ {s} : schedules'[t] = schedules[t]
    BY <2>3 DEF TypeOK
  <2> QED
    BY <2>4, <2>5 DEF Created
<1> QED
  BY <1>3, <1>4

LEMMA TypeInvInit == Init => TypeInv
<1> SUFFICES ASSUME Init PROVE TypeInv
  OBVIOUS
<1>1. [m |-> 1, d |-> 1] \in Date
  BY DEF Date
<1>2. \A a \in AnchorDays : LegacyRow([m |-> 1, d |-> 1], a) \in Row
  BY <1>1 DEF LegacyRow, Row
<1>3. schedules \in [Ids -> Row \cup {None}]
  BY <1>2 DEF Init
<1>4. first \in [Ids -> Date \cup {None}]
  <2>1. \A s \in Ids : schedules[s] # None => schedules[s].next \in Date
    BY <1>3 DEF Row
  <2> QED
    BY <2>1 DEF Init
<1>5. DOMAIN op = Procs /\ \A p \in Procs : op[p] = Idle
  BY DEF Init
<1>6. TypeOK
  BY <1>1, <1>3, <1>4, <1>5, IdleHeld, BoundAssumption DEF TypeOK, Init
<1>7. HeldCreated
  BY <1>5, IdleHeld DEF HeldCreated
<1> QED
  BY <1>6, <1>7 DEF TypeInv

\* The tables' part of TypeOK, and the processes' part, step by step.
LEMMA TypeInvOneShot ==
  ASSUME TypeInv, NEW p \in Procs, NEW s \in Ids,
         NEW anchor \in AnchorDays, NEW auto \in Autosends
  PROVE  /\ (\E start \in Starts : AddSchedule(p, s, start, anchor, auto)) => TypeInv'
         /\ UpdateSchedule(p, s, anchor, auto) => TypeInv'
<1> USE DEF TypeInv
<1>1. ASSUME NEW start \in Starts, AddSchedule(p, s, start, anchor, auto) PROVE TypeInv'
  <2> DEFINE new == [anchor |-> anchor, next |-> start, autosend |-> auto,
                     paused |-> FALSE, pausedAt |-> None, endedAt |-> None]
  <2>1. new \in Row
    BY AutosendAssumption, StartsType DEF Row
  <2>2. schedules' = [schedules EXCEPT ![s] = new] /\ op' = op
    BY <1>1 DEF AddSchedule
  <2>3. Created \subseteq Created'
    BY <2>1, <2>2, NoneAssumption DEF Created, TypeOK
  <2>4. TypeOK'
    BY <1>1, <2>1, <2>2, StartsType DEF AddSchedule, TypeOK
  <2> QED
    BY <2>2, <2>3, <2>4 DEF HeldCreated
<1>2. ASSUME UpdateSchedule(p, s, anchor, auto) PROVE TypeInv'
  <2> DEFINE new == [schedules[s] EXCEPT !.anchor = anchor, !.autosend = auto]
  <2>0. schedules[s] \in Row
    BY <1>2 DEF UpdateSchedule, Created, TypeOK
  <2>1. new \in Row
    BY <2>0, AutosendAssumption DEF Row
  <2>2. schedules' = [schedules EXCEPT ![s] = new] /\ op' = op
    BY <1>2 DEF UpdateSchedule
  <2>3. Created \subseteq Created'
    BY <2>1, <2>2, NoneAssumption DEF Created, TypeOK
  <2>4. TypeOK'
    BY <1>2, <2>1, <2>2 DEF UpdateSchedule, TypeOK
  <2> QED
    BY <2>2, <2>3, <2>4 DEF HeldCreated
<1> QED
  BY <1>1, <1>2

LEMMA TypeInvPause ==
  ASSUME TypeInv, NEW p \in Procs, NEW s \in Ids
  PROVE  PauseSchedule(p, s) \/ SetClientArchived(p, s) => TypeInv'
<1> USE DEF TypeInv
<1>3. ASSUME PauseSchedule(p, s) PROVE TypeInv'
  <2> DEFINE at == IF schedules[s].paused THEN schedules[s].pausedAt ELSE today
  <2> DEFINE new == [schedules[s] EXCEPT !.pausedAt = at, !.paused = TRUE]
  <2>0. schedules[s] \in Row
    BY <1>3 DEF PauseSchedule, Created, TypeOK
  <2>a. at \in Date \cup {None}
    BY <2>0 DEF Row, TypeOK
  <2>1. new \in Row
    BY <2>0, <2>a DEF Row
  <2>2. schedules' = [schedules EXCEPT ![s] = new] /\ op' = op
    BY <1>3 DEF PauseSchedule
  <2>3. Created \subseteq Created'
    BY <2>1, <2>2, NoneAssumption DEF Created, TypeOK
  <2>4. TypeOK'
    BY <1>3, <2>1, <2>2 DEF PauseSchedule, TypeOK
  <2> QED
    BY <2>2, <2>3, <2>4 DEF HeldCreated
<1>4. ASSUME SetClientArchived(p, s) PROVE TypeInv'
  <2>1. TypeOK'
    BY <1>4 DEF SetClientArchived, TypeOK
  <2>2. HeldCreated'
    BY <1>4 DEF SetClientArchived, HeldCreated, Created
  <2> QED
    BY <2>1, <2>2
<1> QED
  BY <1>3, <1>4

LEMMA TypeInvRun ==
  ASSUME TypeInv, NEW p \in Procs
  PROVE  StartRun(p) \/ RunPeriod(p) \/ RunRefused(p) \/ RunSend(p) => TypeInv'
<1> USE DEF TypeInv
<1>1. ASSUME StartRun(p) PROVE TypeInv'
  <2> DEFINE rows == [s \in Active |-> schedules[s]]
  <2>1. DOMAIN rows \subseteq Created /\ DOMAIN rows \subseteq Ids
    BY DEF Active, Created
  <2>2. rows \in [DOMAIN rows -> Row]
    BY <2>1 DEF TypeOK, Active, Created
  <2>3. OpOK(RunState(today, rows, <<>>))
    <3>1. today \in Date /\ <<>> \in Seq(Ids \X Date)
      BY DEF TypeOK
    <3> HIDE DEF rows
    <3> QED
      BY <2>1, <2>2, <3>1, RunStateOK
  <2>4. HeldBy(RunState(today, rows, <<>>)) \subseteq DOMAIN rows
    BY RunStateHeld
  <2>5. Become(p, RunState(today, rows, <<>>)) /\ Created' = Created
    BY <1>1 DEF StartRun, Created
  <2>6. HeldCreated'
    BY <2>1, <2>4, <2>5, BecomeHeld
  <2>7. DOMAIN op' = Procs /\ \A q \in Procs : OpOK(op'[q])
    BY <2>3, <2>5, BecomeOK
  <2> QED
    BY <1>1, <2>6, <2>7 DEF StartRun, TypeOK
<1>2. ASSUME RunPeriod(p) PROVE TypeInv'
  <2>1. PICK s \in Ids :
          LET row == op[p].rows[s]
              walked == [op[p].rows EXCEPT ![s].next = AdvancePeriod(row.anchor, row.next)]
          IN  /\ IsCurrent(s, op[p].rows)
              /\ \/ /\ AlreadySettled(s, row, row.next)
                    /\ Become(p, RunState(op[p].day, walked, op[p].made))
                 \/ /\ Generates(s, row, row.next)
                    /\ Become(p, RunState(op[p].day, walked, Append(op[p].made, <<s, row.next>>)))
    BY <1>2 DEF RunPeriod
  <2> DEFINE row == op[p].rows[s]
             walked == [op[p].rows EXCEPT ![s].next = AdvancePeriod(row.anchor, row.next)]
  <2>2. /\ op[p].day \in Date
        /\ DOMAIN op[p].rows \subseteq Ids
        /\ op[p].rows \in [DOMAIN op[p].rows -> Row]
        /\ op[p].made \in Seq(Ids \X Date)
    BY <1>2, RunTyped DEF RunPeriod
  <2>3. DOMAIN op[p].rows \subseteq Created
    BY <1>2 DEF RunPeriod, Running, HeldCreated, HeldBy
  <2>4. s \in DOMAIN op[p].rows /\ row \in Row /\ row.next \in Date
    BY <2>1, <2>2 DEF IsCurrent, Row
  <2>5. DOMAIN walked = DOMAIN op[p].rows /\ walked \in [DOMAIN walked -> Row]
    BY <2>2, <2>4, WalkedTyped
  <2>6. PICK made \in Seq(Ids \X Date) : Become(p, RunState(op[p].day, walked, made))
    <3>1. Append(op[p].made, <<s, row.next>>) \in Seq(Ids \X Date)
      BY <2>2, <2>4
    <3> QED
      BY <2>1, <2>2, <3>1
  <2>7. OpOK(RunState(op[p].day, walked, made))
    BY <2>2, <2>5, RunStateOK
  <2>8. HeldBy(RunState(op[p].day, walked, made)) \subseteq Created
    BY <2>3, <2>5, RunStateHeld
  <2>9. AlreadySettled(s, row, row.next) \/ Generates(s, row, row.next)
    BY <2>1
  <2>10. Created' = Created
    BY <2>3, <2>4, <2>9, PeriodCreated
  <2>11. schedules' \in [Ids -> Row \cup {None}] /\ runs' \subseteq Run
    BY <2>3, <2>4, <2>9, PeriodTyped
  <2>12. HeldCreated'
    BY <2>6, <2>8, <2>10, BecomeHeld
  <2>13. DOMAIN op' = Procs /\ \A q \in Procs : OpOK(op'[q])
    BY <2>6, <2>7, BecomeOK
  <2> QED
    BY <1>2, <2>11, <2>12, <2>13 DEF RunPeriod, TypeOK
<1>3. ASSUME RunRefused(p) PROVE TypeInv'
  <2>1. PICK s \in Ids :
          LET others == [t \in DOMAIN op[p].rows \ {s} |-> op[p].rows[t]]
          IN  /\ Refuses(s, op[p].rows[s].next)
              /\ Become(p, RunState(op[p].day, others, op[p].made))
    BY <1>3 DEF RunRefused
  <2> DEFINE others == [t \in DOMAIN op[p].rows \ {s} |-> op[p].rows[t]]
  <2>2. /\ op[p].day \in Date
        /\ DOMAIN op[p].rows \subseteq Ids
        /\ op[p].rows \in [DOMAIN op[p].rows -> Row]
        /\ op[p].made \in Seq(Ids \X Date)
    BY <1>3, RunTyped DEF RunRefused
  <2>3. DOMAIN op[p].rows \subseteq Created
    BY <1>3 DEF RunRefused, Running, HeldCreated, HeldBy
  <2>4. DOMAIN others \subseteq DOMAIN op[p].rows /\ others \in [DOMAIN others -> Row]
    BY <2>2
  <2>5. OpOK(RunState(op[p].day, others, op[p].made))
    BY <2>2, <2>4, RunStateOK
  <2>6. HeldBy(RunState(op[p].day, others, op[p].made)) \subseteq Created
    BY <2>3, <2>4, RunStateHeld
  <2>7. Created' = Created /\ UNCHANGED <<runs, schedules>>
    BY <2>1 DEF Refuses, Created
  <2>8. HeldCreated'
    BY <2>1, <2>6, <2>7, BecomeHeld
  <2>9. DOMAIN op' = Procs /\ \A q \in Procs : OpOK(op'[q])
    BY <2>1, <2>5, BecomeOK
  <2> QED
    BY <1>3, <2>7, <2>8, <2>9 DEF RunRefused, TypeOK
<1>4. ASSUME RunSend(p) PROVE TypeInv'
  <2>1. /\ op[p].day \in Date
        /\ DOMAIN op[p].rows \subseteq Ids
        /\ op[p].rows \in [DOMAIN op[p].rows -> Row]
        /\ op[p].made \in Seq(Ids \X Date)
    BY <1>4, RunTyped DEF RunSend
  <2> DEFINE invoice == Head(op[p].made)
             o == RunState(op[p].day, op[p].rows, Tail(op[p].made))
  <2>2. invoice \in Ids \X Date /\ Tail(op[p].made) \in Seq(Ids \X Date)
    BY <1>4, <2>1 DEF RunSend
  <2>3. mailed' \subseteq Ids \X Date /\ unsent' \subseteq Ids \X Date
    BY <1>4, <2>2 DEF RunSend, TypeOK
  <2>4. OpOK(o)
    BY <2>1, <2>2, RunStateOK
  <2>5. HeldBy(o) \subseteq Created
    BY <1>4, RunStateHeld DEF RunSend
  <2>6. Become(p, o) /\ Created' = Created
    BY <1>4 DEF RunSend, Created
  <2>7. HeldCreated'
    BY <2>5, <2>6, BecomeHeld
  <2>8. DOMAIN op' = Procs /\ \A q \in Procs : OpOK(op'[q])
    BY <2>4, <2>6, BecomeOK
  <2> QED
    BY <1>4, <2>3, <2>7, <2>8 DEF RunSend, TypeOK
<1> QED
  BY <1>1, <1>2, <1>3, <1>4

\* What a process in the middle of an end or a resume holds.
LEMMA HeldTyped ==
  ASSUME TypeInv, NEW p \in Procs, op[p].at \in {"resume", "end", "bill", "finish"}
  PROVE  /\ op[p].id \in Created /\ op[p].id \in Ids /\ op[p].day \in Date
         /\ op[p].at # "finish" => op[p].row \in Row
         /\ op[p].at = "bill" => op[p].owed \subseteq Date
         /\ op[p].at = "finish" => op[p].off \subseteq Date
<1>1. OpOK(op[p]) /\ HeldBy(op[p]) \subseteq Created
  BY DEF TypeInv, TypeOK, HeldCreated
<1>2. op[p].id \in Created
  BY <1>1 DEF HeldBy
<1> QED
  BY <1>1, <1>2 DEF OpOK, Idle, Created

LEMMA TypeInvResume ==
  ASSUME TypeInv, NEW p \in Procs, NEW s \in Ids
  PROVE  StartResume(p, s) \/ CommitResume(p) => TypeInv'
<1> USE DEF TypeInv
<1>1. ASSUME StartResume(p, s) PROVE TypeInv'
  <2> DEFINE o == [at |-> "resume", id |-> s, day |-> today, row |-> schedules[s]]
  <2>1. OpOK(o) /\ HeldBy(o) \subseteq Created
    BY <1>1 DEF StartResume, OpOK, HeldBy, TypeOK, Created
  <2>2. Become(p, o) /\ Created' = Created
    BY <1>1 DEF StartResume, Created
  <2>3. HeldCreated'
    BY <2>1, <2>2, BecomeHeld
  <2>4. DOMAIN op' = Procs /\ \A q \in Procs : OpOK(op'[q])
    BY <2>1, <2>2, BecomeOK
  <2> QED
    BY <1>1, <2>3, <2>4 DEF StartResume, TypeOK
<1>2. ASSUME CommitResume(p) PROVE TypeInv'
  <2> DEFINE t == op[p].id
             new == [schedules[t] EXCEPT !.paused = FALSE, !.pausedAt = None]
  <2>1. t \in Created /\ t \in Ids /\ op[p].day \in Date /\ op[p].row \in Row
    BY <1>2, HeldTyped DEF CommitResume
  <2>2. new \in Row
    BY <2>1 DEF TypeOK, Created, Row
  <2>3. schedules' = [schedules EXCEPT ![t] = new]
    BY <1>2 DEF CommitResume
  <2>4. schedules' \in [Ids -> Row \cup {None}] /\ Created \subseteq Created'
    BY <2>1, <2>2, <2>3, NoneAssumption DEF TypeOK, Created
  <2>5. \A q \in Walk(op[p].row, op[p].day) : SkipRun(t, q) \in Run
    BY <2>1, WalkType DEF SkipRun, Run
  <2>6. runs' \subseteq Run
    BY <1>2, <2>5 DEF CommitResume, Forgiven, TypeOK
  <2>7. Become(p, Idle)
    BY <1>2 DEF CommitResume
  <2>8. HeldCreated'
    BY <2>4, <2>7, IdleHeld, BecomeHeld
  <2>9. DOMAIN op' = Procs /\ \A q \in Procs : OpOK(op'[q])
    BY <2>7, IdleHeld, BecomeOK
  <2> QED
    BY <1>2, <2>4, <2>6, <2>8, <2>9 DEF CommitResume, TypeOK
<1> QED
  BY <1>1, <1>2

LEMMA TypeInvEnd ==
  ASSUME TypeInv, NEW p \in Procs, NEW s \in Ids, NEW how \in Dispositions
  PROVE  StartEnd(p, s, how) \/ DecideEnd(p) \/ FinishEnd(p) => TypeInv'
<1> USE DEF TypeInv
<1>1. ASSUME StartEnd(p, s, how) PROVE TypeInv'
  <2> DEFINE o == [at |-> "end", id |-> s, day |-> today, how |-> how, row |-> schedules[s]]
  <2>1. OpOK(o) /\ HeldBy(o) \subseteq Created
    BY <1>1 DEF StartEnd, OpOK, HeldBy, TypeOK, Created
  <2>2. Become(p, o) /\ Created' = Created
    BY <1>1 DEF StartEnd, Created
  <2>3. HeldCreated'
    BY <2>1, <2>2, BecomeHeld
  <2>4. DOMAIN op' = Procs /\ \A q \in Procs : OpOK(op'[q])
    BY <2>1, <2>2, BecomeOK
  <2> QED
    BY <1>1, <2>3, <2>4 DEF StartEnd, TypeOK
<1>2. ASSUME DecideEnd(p) PROVE TypeInv'
  <2> DEFINE t == op[p].id
             owed == Unbilled(t, op[p].day)
  <2>1. t \in Created /\ t \in Ids /\ op[p].day \in Date /\ op[p].row \in Row
    BY <1>2, HeldTyped DEF DecideEnd
  <2>2. owed \subseteq Date
    <3>1. schedules[t] \in Row
      BY <2>1 DEF TypeOK, Created
    <3> QED
      BY <2>1, <3>1, WalkType DEF Unbilled
  <2> DEFINE bill == [at |-> "bill", id |-> t, day |-> op[p].day, row |-> op[p].row, owed |-> owed]
  <2>3. OpOK(bill) /\ HeldBy(bill) \subseteq Created
    BY <2>1, <2>2 DEF OpOK, HeldBy
  <2>4. \A off \in SUBSET Date : /\ OpOK(FinishState(t, op[p].day, off))
                                 /\ HeldBy(FinishState(t, op[p].day, off)) \subseteq Created
    BY <2>1 DEF OpOK, HeldBy, FinishState
  <2>5. \/ Become(p, Idle) \/ Become(p, bill)
        \/ \E off \in SUBSET Date : Become(p, FinishState(t, op[p].day, off))
    <3>1. {} \in SUBSET Date /\ owed \in SUBSET Date
      BY <2>2
    <3> QED
      BY <1>2, <3>1 DEF DecideEnd
  <2>6. PICK o : OpOK(o) /\ HeldBy(o) \subseteq Created /\ Become(p, o)
    BY <2>3, <2>4, <2>5, IdleHeld
  <2>7. Created' = Created
    BY <1>2 DEF DecideEnd, Created
  <2>8. HeldCreated'
    BY <2>6, <2>7, BecomeHeld
  <2>9. DOMAIN op' = Procs /\ \A q \in Procs : OpOK(op'[q])
    BY <2>6, BecomeOK
  <2> QED
    BY <1>2, <2>8, <2>9 DEF DecideEnd, TypeOK
<1>3. ASSUME FinishEnd(p) PROVE TypeInv'
  <2> DEFINE t == op[p].id
             new == [schedules[t] EXCEPT !.endedAt = op[p].day]
  <2>1. t \in Created /\ t \in Ids /\ op[p].day \in Date /\ op[p].off \subseteq Date
    BY <1>3, HeldTyped DEF FinishEnd
  <2>2. new \in Row
    BY <2>1 DEF TypeOK, Created, Row
  <2>3. schedules' = [schedules EXCEPT ![t] = new]
    BY <1>3 DEF FinishEnd
  <2>4. schedules' \in [Ids -> Row \cup {None}] /\ Created \subseteq Created'
    BY <2>1, <2>2, <2>3, NoneAssumption DEF TypeOK, Created
  <2>5. writtenOff' \subseteq Ids \X Date
    BY <1>3, <2>1 DEF FinishEnd, TypeOK
  <2>6. Become(p, Idle)
    BY <1>3 DEF FinishEnd
  <2>7. HeldCreated'
    BY <2>4, <2>6, IdleHeld, BecomeHeld
  <2>8. DOMAIN op' = Procs /\ \A q \in Procs : OpOK(op'[q])
    BY <2>6, IdleHeld, BecomeOK
  <2> QED
    BY <1>3, <2>4, <2>5, <2>7, <2>8 DEF FinishEnd, TypeOK
<1> QED
  BY <1>1, <1>2, <1>3

LEMMA TypeInvBill ==
  ASSUME TypeInv, NEW p \in Procs
  PROVE  EndBill(p) \/ EndBillRefused(p) => TypeInv'
<1> USE DEF TypeInv
<1> DEFINE t == op[p].id
<1>0. ASSUME op[p].at = "bill"
      PROVE  /\ t \in Created /\ t \in Ids /\ op[p].day \in Date
             /\ op[p].row \in Row /\ op[p].owed \subseteq Date
  BY <1>0, HeldTyped
<1>1. ASSUME EndBill(p) PROVE TypeInv'
  <2>1. PICK q \in op[p].owed :
          /\ AlreadySettled(t, op[p].row, q) \/ Generates(t, op[p].row, q)
          /\ IF op[p].owed \ {q} = {}
             THEN Become(p, FinishState(t, op[p].day, {}))
             ELSE op' = [op EXCEPT ![p].owed = op[p].owed \ {q}]
    BY <1>1 DEF EndBill
  <2> DEFINE rest == [op[p] EXCEPT !.owed = op[p].owed \ {q}]
  <2>2. /\ t \in Created /\ t \in Ids /\ op[p].day \in Date
        /\ op[p].row \in Row /\ op[p].owed \subseteq Date
    BY <1>0, <1>1 DEF EndBill
  <2>3. OpOK(FinishState(t, op[p].day, {})) /\ HeldBy(FinishState(t, op[p].day, {})) \subseteq Created
    BY <2>2 DEF OpOK, HeldBy, FinishState
  <2>4. OpOK(rest) /\ HeldBy(rest) \subseteq Created
    <3>1. op[p] \in [at : {"bill"}, id : Ids, day : Date, row : Row, owed : SUBSET Date]
      <4>1. OpOK(op[p]) /\ op[p].at = "bill"
        BY <1>1 DEF EndBill, TypeOK
      <4> QED
        BY <4>1 DEF OpOK, Idle
    <3>2. rest \in [at : {"bill"}, id : Ids, day : Date, row : Row, owed : SUBSET Date] /\ rest.id = t
      BY <3>1
    <3> QED
      BY <2>2, <3>2 DEF OpOK, HeldBy
  <2>5. Become(p, FinishState(t, op[p].day, {})) \/ Become(p, rest)
    BY <2>1 DEF Become
  <2>6. Created' = Created
    BY <2>1, <2>2, PeriodCreated
  <2>7. schedules' \in [Ids -> Row \cup {None}] /\ runs' \subseteq Run
    BY <2>1, <2>2, PeriodTyped
  <2>8. HeldCreated'
    BY <2>3, <2>4, <2>5, <2>6, BecomeHeld
  <2>9. DOMAIN op' = Procs /\ \A r \in Procs : OpOK(op'[r])
    BY <2>3, <2>4, <2>5, BecomeOK
  <2> QED
    BY <1>1, <2>7, <2>8, <2>9 DEF EndBill, TypeOK
<1>2. ASSUME EndBillRefused(p) PROVE TypeInv'
  <2>1. Become(p, Idle) /\ Created' = Created
    BY <1>2 DEF EndBillRefused, Refuses, Created
  <2>2. HeldCreated'
    BY <2>1, IdleHeld, BecomeHeld
  <2>3. DOMAIN op' = Procs /\ \A q \in Procs : OpOK(op'[q])
    BY <2>1, IdleHeld, BecomeOK
  <2> QED
    BY <1>2, <2>2, <2>3 DEF EndBillRefused, Refuses, TypeOK
<1> QED
  BY <1>1, <1>2

LEMMA TypeInvWorld ==
  ASSUME TypeInv
  PROVE  /\ NextDay => TypeInv'
         /\ \A p \in Procs : Crash(p) => TypeInv'
<1> USE DEF TypeInv
<1>1. ASSUME NextDay PROVE TypeInv'
  <2>1. today' \in Date
    BY <1>1 DEF NextDay, TypeOK, Date
  <2>2. HeldCreated'
    BY <1>1 DEF NextDay, HeldCreated, Created
  <2> QED
    BY <1>1, <2>1, <2>2 DEF NextDay, TypeOK
<1>2. ASSUME NEW p \in Procs, Crash(p) PROVE TypeInv'
  <2>1. Become(p, Idle) /\ Created' = Created
    BY <1>2 DEF Crash, Created
  <2>2. HeldCreated'
    BY <2>1, IdleHeld, BecomeHeld
  <2>3. DOMAIN op' = Procs /\ \A q \in Procs : OpOK(op'[q])
    BY <2>1, IdleHeld, BecomeOK
  <2>4. crashes' \in 0..MaxCrashes
    BY <1>2, BoundAssumption DEF Crash, TypeOK
  <2> QED
    BY <1>2, <2>2, <2>3, <2>4 DEF Crash, TypeOK
<1> QED
  BY <1>1, <1>2

LEMMA TypeInvStep == TypeInv /\ [Next]_vars => TypeInv'
<1> SUFFICES ASSUME TypeInv, [Next]_vars PROVE TypeInv'
  OBVIOUS
<1>1. CASE NextDay
  BY <1>1, TypeInvWorld
<1>2. ASSUME NEW p \in Procs, NEW s \in Ids, Operator(p, s) PROVE TypeInv'
  BY <1>2, TypeInvOneShot, TypeInvPause, TypeInvResume, TypeInvEnd DEF Operator
<1>3. ASSUME NEW p \in Procs, StartRun(p) PROVE TypeInv'
  BY <1>3, TypeInvRun
<1>4. ASSUME NEW p \in Procs, Continue(p) PROVE TypeInv'
  <2>1. CommitResume(p) => TypeInv'
    <3>1. CommitResume(p) => op[p].id \in Ids
      BY HeldTyped DEF CommitResume
    <3> QED
      BY <3>1, TypeInvResume
  <2>2. DecideEnd(p) \/ FinishEnd(p) => TypeInv'
    <3>1. DecideEnd(p) \/ FinishEnd(p) => op[p].id \in Ids
      BY HeldTyped DEF DecideEnd, FinishEnd
    <3>2. "bill" \in Dispositions
      BY DEF Dispositions
    <3> QED
      BY <3>1, <3>2, TypeInvEnd
  <2> QED
    BY <1>4, <2>1, <2>2, TypeInvRun, TypeInvBill DEF Continue
<1>5. ASSUME NEW p \in Procs, Crash(p) PROVE TypeInv'
  BY <1>5, TypeInvWorld
<1>6. CASE UNCHANGED vars
  BY <1>6 DEF vars, TypeInv, TypeOK, HeldCreated, Created
<1> QED
  BY <1>1, <1>2, <1>3, <1>4, <1>5, <1>6 DEF Next

\* The tables and every process's copies of them keep their types, whatever
\* the processes interleave.
THEOREM TypeCorrect == Spec => []TypeOK
<1>1. TypeInv => TypeOK
  BY DEF TypeInv
<1> QED
  BY TypeInvInit, TypeInvStep, <1>1, PTL DEF Spec

-----------------------------------------------------------------------------
(* No cycle is lost.  Behind every cursor - the table's and the copies the *)
(* processes walk with - lie settled cycles only, and behind every period  *)
(* an end still means to bill lie cycles that are settled or in its list.  *)

InCycle(start, k) == \E n \in Nat : k = start + n * CycleMonths

\* The cursor is on the cycle, and every month of the cycle behind it is in a set.
AllBehind(start, months, k) ==
  InCycle(start, k) /\ \A j \in Nat : (j < k /\ InCycle(start, j)) => j \in months

Complete(s, k) == AllBehind(first[s].m, Settled(s), k)

\* The same of a period to bill, the list itself counted as settled.
CompleteBut(s, k, owed) == AllBehind(first[s].m, Settled(s) \cup {x.m : x \in owed}, k)

OpComplete(o) ==
  /\ o.at = "run" => \A s \in DOMAIN o.rows : Complete(s, o.rows[s].next.m)
  /\ o.at = "bill" => \A q \in o.owed : CompleteBut(o.id, q.m, o.owed)

CycleInv ==
  /\ \A s \in Created : first[s] \in Date /\ Complete(s, schedules[s].next.m)
  /\ \A p \in Procs : OpComplete(op[p])

\* Two months of one cycle are at least a cycle apart, by a multiple of it.
LEMMA CycleGap ==
  ASSUME NEW start \in Nat, NEW j \in Nat, NEW k \in Nat,
         InCycle(start, j), InCycle(start, k), j < k
  PROVE  j + CycleMonths <= k /\ (k - j) % CycleMonths = 0
<1>1. PICK a \in Nat, b \in Nat : /\ j = start + a * CycleMonths
                                  /\ k = start + b * CycleMonths
  BY DEF InCycle
<1>2. CASE CycleMonths = 1
  BY <1>1, <1>2
<1>3. CASE CycleMonths = 3
  BY <1>1, <1>3
<1>4. CASE CycleMonths = 12
  BY <1>1, <1>4
<1> QED
  BY <1>2, <1>3, <1>4, CycleAssumption

LEMMA CycleNext ==
  ASSUME NEW start \in Nat, NEW k \in Nat, InCycle(start, k)
  PROVE  InCycle(start, k + CycleMonths)
<1>1. PICK a \in Nat : k = start + a * CycleMonths
  BY DEF InCycle
<1>2. a + 1 \in Nat
  OBVIOUS
<1>3. k + CycleMonths = start + (a + 1) * CycleMonths
  BY <1>1, CycleAssumption
<1> QED
  BY <1>2, <1>3 DEF InCycle

\* A whole number of cycles after a month of the cycle is one too.
LEMMA CycleMultiple ==
  ASSUME NEW start \in Nat, NEW j \in Nat, NEW k \in Nat, j < k,
         InCycle(start, j), (k - j) % CycleMonths = 0
  PROVE  InCycle(start, k)
<1>1. PICK a \in Nat : j = start + a * CycleMonths
  BY DEF InCycle
<1>2. CASE CycleMonths = 1
  <2>1. k = start + (k - start) * 1 /\ k - start \in Nat
    BY <1>1, <1>2
  <2> QED
    BY <1>2, <2>1 DEF InCycle
<1>3. CASE CycleMonths = 3
  <2>1. PICK b \in Nat : k - j = b * 3
    BY <1>3
  <2>2. k = start + (a + b) * 3 /\ a + b \in Nat
    BY <1>1, <1>3, <2>1
  <2> QED
    BY <1>3, <2>2 DEF InCycle
<1>4. CASE CycleMonths = 12
  <2>1. PICK b \in Nat : k - j = b * 12
    BY <1>4
  <2>2. k = start + (a + b) * 12 /\ a + b \in Nat
    BY <1>1, <1>4, <2>1
  <2> QED
    BY <1>4, <2>2 DEF InCycle
<1> QED
  BY <1>2, <1>3, <1>4, CycleAssumption

LEMMA AllBehindGrows ==
  ASSUME NEW start, NEW S, NEW T, S \subseteq T, NEW k, AllBehind(start, S, k)
  PROVE  AllBehind(start, T, k)
BY DEF AllBehind

\* A month behind which everything is settled, once settled itself, leaves
\* everything settled behind the next.
LEMMA AllBehindAdvances ==
  ASSUME NEW start \in Nat, NEW S, NEW k \in Nat, AllBehind(start, S, k), k \in S
  PROVE  AllBehind(start, S, k + CycleMonths)
<1>1. InCycle(start, k) /\ InCycle(start, k + CycleMonths)
  BY CycleNext DEF AllBehind
<1>2. ASSUME NEW j \in Nat, j < k + CycleMonths, InCycle(start, j) PROVE j \in S
  <2>1. CASE j < k
    BY <1>2, <2>1 DEF AllBehind
  <2>2. CASE j = k
    BY <2>2
  <2>3. CASE k < j
    <3>1. k + CycleMonths <= j
      BY <1>1, <1>2, <2>3, CycleGap
    <3> QED
      BY <1>2, <3>1, CycleAssumption
  <2> QED
    BY <2>1, <2>2, <2>3
<1> QED
  BY <1>1, <1>2 DEF AllBehind

\* Nothing lies behind the month a cycle starts in.
LEMMA AllBehindStart ==
  ASSUME NEW start \in Nat, NEW S
  PROVE  AllBehind(start, S, start)
<1>1. start = start + 0 * CycleMonths /\ 0 \in Nat
  BY CycleAssumption
<1>2. \A j \in Nat : InCycle(start, j) => start <= j
  BY CycleAssumption DEF InCycle
<1> QED
  BY <1>1, <1>2 DEF AllBehind, InCycle

LEMMA SettledGrows ==
  ASSUME runs \subseteq runs', NEW s
  PROVE  Settled(s) \subseteq Settled(s)'
BY DEF Settled

\* History is only added to, so what was complete stays so.
LEMMA CompleteStays ==
  ASSUME NEW s, NEW k, runs \subseteq runs', first'[s] = first[s], Complete(s, k)
  PROVE  AllBehind(first'[s].m, Settled(s)', k)
<1>1. Settled(s) \subseteq Settled(s)'
  BY SettledGrows
<1> QED
  BY <1>1, AllBehindGrows DEF Complete

LEMMA OpCompleteStays ==
  ASSUME NEW o, HeldBy(o) \subseteq Created, OpComplete(o), runs \subseteq runs',
         \A s \in Created : first'[s] = first[s]
  PROVE  OpComplete(o)'
<1>1. ASSUME o.at = "run", NEW s \in DOMAIN o.rows
      PROVE  AllBehind(first'[s].m, Settled(s)', o.rows[s].next.m)
  <2>1. s \in Created /\ Complete(s, o.rows[s].next.m)
    BY <1>1 DEF OpComplete, HeldBy
  <2> QED
    BY <2>1, CompleteStays
<1>2. ASSUME o.at = "bill", NEW q \in o.owed
      PROVE  AllBehind(first'[o.id].m, Settled(o.id)' \cup {x.m : x \in o.owed}, q.m)
  <2>1. o.id \in Created /\ CompleteBut(o.id, q.m, o.owed)
    BY <1>2 DEF OpComplete, HeldBy
  <2>2. Settled(o.id) \cup {x.m : x \in o.owed} \subseteq Settled(o.id)' \cup {x.m : x \in o.owed}
    BY SettledGrows
  <2> QED
    BY <2>1, <2>2, AllBehindGrows DEF CompleteBut
<1> QED
  BY <1>1, <1>2 DEF OpComplete, Complete, CompleteBut

\* The cursor a step of generate_period leaves in the table.
LEMMA PeriodNext ==
  ASSUME TypeInv, NEW s \in Created, NEW row \in Row, NEW q \in Date,
         AlreadySettled(s, row, q) \/ Generates(s, row, q)
  PROVE  /\ \A t \in Created \ {s} : schedules'[t] = schedules[t]
         /\ schedules'[s].next \in {schedules[s].next, AdvancePeriod(row.anchor, q)}
<1> DEFINE next == AdvancePeriod(row.anchor, q)
<1>1. PICK d \in {schedules[s].next, next} : schedules' = [schedules EXCEPT ![s].next = d]
  BY DEF AlreadySettled, Generates
<1>2. schedules[s] \in Row
  BY DEF TypeInv, TypeOK, Created
<1>3. [schedules[s] EXCEPT !.next = d].next = d
  BY <1>2 DEF Row
<1>4. schedules' = [schedules EXCEPT ![s] = [schedules[s] EXCEPT !.next = d]]
  BY <1>1
<1> QED
  BY <1>3, <1>4 DEF TypeInv, TypeOK, Created

\* What a step of generate_period does to the tables, for a period behind
\* which everything is settled.
LEMMA PeriodComplete ==
  ASSUME TypeInv, CycleInv, NEW s \in Created, NEW row \in Row, NEW q \in Date,
         Complete(s, q.m), first' = first,
         AlreadySettled(s, row, q) \/ Generates(s, row, q)
  PROVE  /\ runs \subseteq runs'
         /\ q.m \in Settled(s)'
         /\ AllBehind(first[s].m, Settled(s)', q.m + CycleMonths)
         /\ \A t \in Created : AllBehind(first[t].m, Settled(t)', schedules'[t].next.m)
<1> DEFINE next == AdvancePeriod(row.anchor, q)
<1>1. next.m = q.m + CycleMonths /\ q.m \in Nat
  BY AdvanceType DEF Row, Date
<1>2. runs \subseteq runs' /\ \E r \in runs' : r.schedule = s /\ r.period = q
  <2>1. CASE AlreadySettled(s, row, q)
    <3>1. HasRun(s, q) /\ runs' = runs
      BY <2>1 DEF AlreadySettled
    <3> QED
      BY <3>1 DEF HasRun
  <2>2. CASE Generates(s, row, q)
    <3>1. runs' = runs \cup {InvoiceRun(s, q)}
      BY <2>2 DEF Generates
    <3>2. InvoiceRun(s, q).schedule = s /\ InvoiceRun(s, q).period = q
      BY DEF InvoiceRun
    <3> QED
      BY <3>1, <3>2
  <2> QED
    BY <2>1, <2>2
<1>3. q.m \in Settled(s)'
  BY <1>2 DEF Settled
<1>4. first[s] \in Date /\ first[s].m \in Nat
  BY DEF CycleInv, Date
<1>5. AllBehind(first[s].m, Settled(s)', q.m)
  BY <1>2, CompleteStays
<1>6. AllBehind(first[s].m, Settled(s)', q.m + CycleMonths)
  BY <1>1, <1>3, <1>4, <1>5, AllBehindAdvances
<1>7. ASSUME NEW t \in Created PROVE AllBehind(first[t].m, Settled(t)', schedules'[t].next.m)
  <2>1. AllBehind(first[t].m, Settled(t)', schedules[t].next.m)
    BY <1>2, CompleteStays DEF CycleInv
  <2>2. schedules'[t].next = schedules[t].next \/ (t = s /\ schedules'[t].next = next)
    BY PeriodNext
  <2> QED
    BY <1>1, <1>6, <2>1, <2>2
<1> QED
  BY <1>2, <1>3, <1>6, <1>7

\* A step that adds to the history, moves no cursor of the table but with
\* everything settled behind it, and leaves its process in order.
LEMMA CycleInvBecome ==
  ASSUME TypeInv, CycleInv, NEW p \in Procs, NEW o, Become(p, o),
         runs \subseteq runs', Created' \subseteq Created, first' = first,
         OpComplete(o)',
         \A t \in Created : AllBehind(first[t].m, Settled(t)', schedules'[t].next.m)
  PROVE  CycleInv'
<1>1. \A t \in Created' : first'[t] \in Date /\ AllBehind(first'[t].m, Settled(t)', schedules'[t].next.m)
  BY DEF CycleInv
<1>2. ASSUME NEW q \in Procs PROVE OpComplete(op[q])'
  <2>1. CASE q = p
    <3>1. op'[q] = o
      BY <2>1 DEF Become, TypeInv, TypeOK
    <3> QED
      BY <3>1 DEF OpComplete, Complete, CompleteBut
  <2>2. CASE q # p
    <3>1. op'[q] = op[q]
      BY <2>2 DEF Become, TypeInv, TypeOK
    <3>2. HeldBy(op[q]) \subseteq Created /\ OpComplete(op[q])
      BY DEF TypeInv, HeldCreated, CycleInv
    <3>3. \A x : (HeldBy(x) \subseteq Created /\ OpComplete(x)) => OpComplete(x)'
      BY OpCompleteStays
    <3> QED
      BY <3>1, <3>2, <3>3 DEF OpComplete, Complete, CompleteBut
  <2> QED
    BY <2>1, <2>2
<1> QED
  BY <1>1, <1>2 DEF CycleInv, Complete

LEMMA TablesQuiet ==
  ASSUME CycleInv, runs \subseteq runs', first' = first,
         \A t \in Created : schedules'[t].next = schedules[t].next
  PROVE  \A t \in Created : AllBehind(first[t].m, Settled(t)', schedules'[t].next.m)
BY CompleteStays DEF CycleInv

\* A process in neither a walk nor a bill has nothing to keep complete.
LEMMA NothingToKeep ==
  ASSUME NEW o, o.at \notin {"run", "bill"}
  PROVE  OpComplete(o)'
BY DEF OpComplete

LEMMA RunStateComplete ==
  ASSUME NEW day, NEW rows, NEW made, NEW o, o = RunState(day, rows, made),
         \A s \in DOMAIN rows : AllBehind(first'[s].m, Settled(s)', rows[s].next.m)
  PROVE  OpComplete(o)'
<1> DEFINE due == StillDue(rows, day)
<1>1. DOMAIN due \subseteq DOMAIN rows /\ \A s \in DOMAIN due : due[s] = rows[s]
  BY DEF StillDue
<1>2. CASE o = Idle
  BY <1>2 DEF OpComplete, Idle
<1>3. CASE o = [at |-> "run", day |-> day, rows |-> due, made |-> made]
  <2>1. o.at = "run" /\ o.rows = due
    BY <1>3
  <2> QED
    BY <1>1, <2>1 DEF OpComplete, Complete
<1> QED
  BY <1>2, <1>3, Zenon DEF RunState

LEMMA CycleInvInit == Init => CycleInv
<1> SUFFICES ASSUME Init PROVE CycleInv
  OBVIOUS
<1>1. TypeInv
  BY TypeInvInit
<1>2. ASSUME NEW s \in Created
      PROVE  first[s] \in Date /\ Complete(s, schedules[s].next.m)
  <2>1. schedules[s] \in Row /\ s \in Ids
    BY <1>1 DEF TypeInv, TypeOK, Created
  <2>2. first[s] = schedules[s].next /\ first[s] \in Date
    BY <2>1 DEF Init, Created, Row
  <2>3. first[s].m \in Nat
    BY <2>2 DEF Date
  <2>4. AllBehind(first[s].m, Settled(s), first[s].m)
    BY <2>3, AllBehindStart
  <2> QED
    BY <2>2, <2>4 DEF Complete
<1>3. \A p \in Procs : OpComplete(op[p])
  BY DEF Init, OpComplete, Idle
<1> QED
  BY <1>2, <1>3 DEF CycleInv

\* Steps that leave the processes, the history and every cursor alone.
LEMMA CycleInvQuiet ==
  ASSUME CycleInv, op' = op, runs' = runs, first' = first, Created' \subseteq Created,
         \A t \in Created : schedules'[t].next = schedules[t].next
  PROVE  CycleInv'
BY DEF CycleInv, OpComplete, Complete, CompleteBut, Settled

LEMMA CycleInvOneShot ==
  ASSUME TypeInv, CycleInv, NEW p \in Procs, NEW s \in Ids,
         NEW anchor \in AnchorDays, NEW auto \in Autosends
  PROVE  /\ (\E start \in Starts : AddSchedule(p, s, start, anchor, auto)) => CycleInv'
         /\ UpdateSchedule(p, s, anchor, auto) => CycleInv'
<1>1. ASSUME NEW start \in Starts, AddSchedule(p, s, start, anchor, auto) PROVE CycleInv'
  <2>1. /\ s \notin Created /\ op' = op /\ runs' = runs
        /\ first'[s] = start /\ schedules'[s].next = start /\ start \in Date
        /\ \A t \in Ids \ {s} : first'[t] = first[t] /\ schedules'[t] = schedules[t]
    BY <1>1, StartsType DEF AddSchedule, TypeInv, TypeOK
  <2>2. Created' \subseteq Created \cup {s}
    BY <2>1 DEF Created
  <2>3. \A t \in Created : t # s /\ first'[t] = first[t] /\ schedules'[t] = schedules[t]
    BY <2>1 DEF Created
  <2>4. start.m \in Nat
    BY <2>1 DEF Date
  <2>5. AllBehind(first'[s].m, Settled(s)', schedules'[s].next.m)
    BY <2>1, <2>4, AllBehindStart
  <2>6. \A t \in Created : first'[t] \in Date /\ AllBehind(first'[t].m, Settled(t)', schedules'[t].next.m)
    BY <2>1, <2>3 DEF CycleInv, Complete, Settled
  <2>7. ASSUME NEW q \in Procs PROVE OpComplete(op[q])'
    <3>1. HeldBy(op[q]) \subseteq Created /\ OpComplete(op[q])
      BY DEF TypeInv, HeldCreated, CycleInv
    <3>2. \A x : (HeldBy(x) \subseteq Created /\ OpComplete(x)) => OpComplete(x)'
      BY <2>1, <2>3, OpCompleteStays
    <3> QED
      BY <2>1, <3>1, <3>2 DEF OpComplete, Complete, CompleteBut
  <2> QED
    BY <2>1, <2>2, <2>5, <2>6, <2>7 DEF CycleInv, Complete
<1>2. ASSUME UpdateSchedule(p, s, anchor, auto) PROVE CycleInv'
  <2>1. op' = op /\ runs' = runs /\ first' = first
    BY <1>2 DEF UpdateSchedule
  <2>2. schedules' = [schedules EXCEPT ![s] = [schedules[s] EXCEPT !.anchor = anchor, !.autosend = auto]]
    BY <1>2 DEF UpdateSchedule
  <2>3. s \in Created /\ schedules[s] \in Row
    BY <1>2 DEF UpdateSchedule, TypeInv, TypeOK, Created
  <2>4. [schedules[s] EXCEPT !.anchor = anchor, !.autosend = auto].next = schedules[s].next
    BY <2>3 DEF Row
  <2>5. \A t \in Created : schedules'[t].next = schedules[t].next
    BY <2>2, <2>4 DEF TypeInv, TypeOK, Created
  <2>6. Created' \subseteq Created
    BY <2>2, <2>3 DEF TypeInv, TypeOK, Created
  <2> QED
    BY <2>1, <2>5, <2>6, CycleInvQuiet
<1> QED
  BY <1>1, <1>2

LEMMA CycleInvPause ==
  ASSUME TypeInv, CycleInv, NEW p \in Procs, NEW s \in Ids
  PROVE  PauseSchedule(p, s) \/ SetClientArchived(p, s) => CycleInv'
<1>1. ASSUME PauseSchedule(p, s) PROVE CycleInv'
  <2> DEFINE at == IF schedules[s].paused THEN schedules[s].pausedAt ELSE today
             new == [schedules[s] EXCEPT !.pausedAt = at, !.paused = TRUE]
  <2>1. op' = op /\ runs' = runs /\ first' = first
    BY <1>1 DEF PauseSchedule
  <2>2. schedules' = [schedules EXCEPT ![s] = new]
    BY <1>1 DEF PauseSchedule
  <2>3. s \in Created /\ schedules[s] \in Row
    BY <1>1 DEF PauseSchedule, TypeInv, TypeOK, Created
  <2>4. new.next = schedules[s].next
    BY <2>3 DEF Row
  <2>5. \A t \in Created : schedules'[t].next = schedules[t].next
    BY <2>2, <2>4 DEF TypeInv, TypeOK, Created
  <2>6. Created' \subseteq Created
    BY <2>2, <2>3 DEF TypeInv, TypeOK, Created
  <2> QED
    BY <2>1, <2>5, <2>6, CycleInvQuiet
<1>2. ASSUME SetClientArchived(p, s) PROVE CycleInv'
  BY <1>2, CycleInvQuiet DEF SetClientArchived, Created
<1> QED
  BY <1>1, <1>2

LEMMA CycleInvRun ==
  ASSUME TypeInv, CycleInv, NEW p \in Procs
  PROVE  StartRun(p) \/ RunPeriod(p) \/ RunRefused(p) \/ RunSend(p) => CycleInv'
<1>0. ASSUME Running(p)
      PROVE  /\ DOMAIN op[p].rows \subseteq Created
             /\ op[p].rows \in [DOMAIN op[p].rows -> Row]
             /\ \A s \in DOMAIN op[p].rows : Complete(s, op[p].rows[s].next.m)
  BY <1>0, RunTyped DEF Running, TypeInv, HeldCreated, HeldBy, CycleInv, OpComplete
<1>1. ASSUME StartRun(p) PROVE CycleInv'
  <2>1. PICK rows : rows = [s \in Active |-> schedules[s]]
    OBVIOUS
  <2>2. PICK o : o = RunState(today, rows, <<>>)
    OBVIOUS
  <2>3. Become(p, o) /\ runs' = runs /\ schedules' = schedules /\ first' = first /\ Created' = Created
    BY <1>1, <2>1, <2>2 DEF StartRun, Created
  <2>4. \A s \in DOMAIN rows : s \in Created /\ rows[s].next = schedules[s].next
    BY <2>1 DEF Active
  <2>5. \A s \in DOMAIN rows : AllBehind(first'[s].m, Settled(s)', rows[s].next.m)
    BY <2>3, <2>4 DEF CycleInv, Complete, Settled
  <2>6. OpComplete(o)'
    BY <2>2, <2>5, RunStateComplete
  <2> QED
    BY <2>3, <2>6, TablesQuiet, CycleInvBecome
<1>2. ASSUME RunPeriod(p) PROVE CycleInv'
  <2>1. PICK s \in Ids :
          LET row == op[p].rows[s]
              walked == [op[p].rows EXCEPT ![s].next = AdvancePeriod(row.anchor, row.next)]
          IN  /\ IsCurrent(s, op[p].rows)
              /\ AlreadySettled(s, row, row.next) \/ Generates(s, row, row.next)
              /\ \E made : Become(p, RunState(op[p].day, walked, made))
    BY <1>2 DEF RunPeriod
  <2>2. PICK rows, row, next, day : /\ rows = op[p].rows
                                    /\ row = rows[s]
                                    /\ next = AdvancePeriod(row.anchor, row.next)
                                    /\ day = op[p].day
    OBVIOUS
  <2>3. PICK walked : walked = [rows EXCEPT ![s] = [row EXCEPT !.next = next]]
    OBVIOUS
  <2>4. PICK made, o : o = RunState(day, walked, made) /\ Become(p, o)
    BY <2>1, <2>2, <2>3
  <2>5. first' = first
    BY <1>2 DEF RunPeriod
  <2>6. s \in DOMAIN rows /\ s \in Created /\ row \in Row /\ row.next \in Date /\ Complete(s, row.next.m)
    BY <1>0, <1>2, <2>1, <2>2 DEF IsCurrent, RunPeriod, Row
  <2>7. AlreadySettled(s, row, row.next) \/ Generates(s, row, row.next)
    BY <2>1, <2>2
  <2>8. /\ runs \subseteq runs'
        /\ AllBehind(first[s].m, Settled(s)', row.next.m + CycleMonths)
        /\ \A t \in Created : AllBehind(first[t].m, Settled(t)', schedules'[t].next.m)
    BY <2>5, <2>6, <2>7, PeriodComplete
  <2>9. next.m = row.next.m + CycleMonths
    BY <2>2, <2>6, AdvanceType DEF Row
  <2>10. /\ DOMAIN walked = DOMAIN rows
         /\ walked[s].next = next
         /\ \A t \in DOMAIN rows \ {s} : walked[t] = rows[t]
    <3>1. [row EXCEPT !.next = next].next = next
      BY <2>6 DEF Row
    <3> QED
      BY <2>3, <2>6, <3>1
  <2>11. ASSUME NEW t \in DOMAIN walked
         PROVE  AllBehind(first'[t].m, Settled(t)', walked[t].next.m)
    <3>1. Complete(t, rows[t].next.m)
      BY <1>0, <1>2, <2>2, <2>10 DEF RunPeriod
    <3>2. AllBehind(first'[t].m, Settled(t)', rows[t].next.m)
      BY <2>5, <2>8, <3>1, CompleteStays
    <3> QED
      BY <2>5, <2>8, <2>9, <2>10, <3>2
  <2>12. OpComplete(o)'
    BY <2>4, <2>11, RunStateComplete
  <2>13. Created' = Created
    BY <2>6, <2>7, PeriodCreated DEF TypeInv
  <2> QED
    BY <2>4, <2>5, <2>8, <2>12, <2>13, CycleInvBecome
<1>3. ASSUME RunRefused(p) PROVE CycleInv'
  <2>1. PICK s \in Ids :
          LET others == [t \in DOMAIN op[p].rows \ {s} |-> op[p].rows[t]]
          IN  Become(p, RunState(op[p].day, others, op[p].made)) /\ UNCHANGED <<runs, schedules>>
    BY <1>3 DEF RunRefused, Refuses
  <2>2. PICK rows, others, o : /\ rows = op[p].rows
                               /\ others = [t \in DOMAIN rows \ {s} |-> rows[t]]
                               /\ o = RunState(op[p].day, others, op[p].made)
                               /\ Become(p, o)
    BY <2>1
  <2>3. runs' = runs /\ schedules' = schedules /\ first' = first /\ Created' = Created
    BY <1>3, <2>1 DEF RunRefused, Created
  <2>4. ASSUME NEW t \in DOMAIN others
        PROVE  AllBehind(first'[t].m, Settled(t)', others[t].next.m)
    <3>1. t \in DOMAIN rows /\ others[t] = rows[t]
      BY <2>2
    <3>2. Complete(t, others[t].next.m)
      BY <1>0, <1>3, <2>2, <3>1 DEF RunRefused
    <3> QED
      BY <2>3, <3>2, CompleteStays
  <2>5. OpComplete(o)'
    BY <2>2, <2>4, RunStateComplete
  <2> QED
    BY <2>2, <2>3, <2>5, TablesQuiet, CycleInvBecome
<1>4. ASSUME RunSend(p) PROVE CycleInv'
  <2>1. PICK rows, o : /\ rows = op[p].rows /\ DOMAIN rows = {}
                       /\ o = RunState(op[p].day, rows, Tail(op[p].made)) /\ Become(p, o)
    BY <1>4 DEF RunSend
  <2>2. runs' = runs /\ schedules' = schedules /\ first' = first /\ Created' = Created
    BY <1>4 DEF RunSend, Created
  <2>3. OpComplete(o)'
    BY <2>1, RunStateComplete
  <2> QED
    BY <2>1, <2>2, <2>3, TablesQuiet, CycleInvBecome
<1> QED
  BY <1>1, <1>2, <1>3, <1>4

LEMMA CycleInvResume ==
  ASSUME TypeInv, CycleInv, NEW p \in Procs, NEW s \in Ids
  PROVE  StartResume(p, s) \/ CommitResume(p) => CycleInv'
<1>1. ASSUME StartResume(p, s) PROVE CycleInv'
  <2>1. PICK o : o.at = "resume" /\ Become(p, o)
    BY <1>1 DEF StartResume
  <2>2. runs' = runs /\ schedules' = schedules /\ first' = first /\ Created' = Created
    BY <1>1 DEF StartResume, Created
  <2> QED
    BY <2>1, <2>2, NothingToKeep, TablesQuiet, CycleInvBecome
<1>2. ASSUME CommitResume(p) PROVE CycleInv'
  <2>1. PICK t, new : /\ t = op[p].id
                      /\ new = [schedules[t] EXCEPT !.paused = FALSE, !.pausedAt = None]
    OBVIOUS
  <2>2. t \in Created /\ schedules[t] \in Row
    BY <1>2, <2>1, HeldTyped DEF CommitResume, TypeInv, TypeOK, Created
  <2>3. new.next = schedules[t].next
    BY <2>1, <2>2 DEF Row
  <2>4. schedules' = [schedules EXCEPT ![t] = new]
    BY <1>2, <2>1 DEF CommitResume
  <2>5. \A x \in Created : schedules'[x].next = schedules[x].next
    BY <2>3, <2>4 DEF TypeInv, TypeOK, Created
  <2>6. Created' \subseteq Created
    BY <2>2, <2>4 DEF TypeInv, TypeOK, Created
  <2>7. runs \subseteq runs' /\ first' = first /\ Become(p, Idle)
    BY <1>2 DEF CommitResume
  <2>8. OpComplete(Idle)'
    BY DEF OpComplete, Idle
  <2> QED
    BY <2>5, <2>6, <2>7, <2>8, TablesQuiet, CycleInvBecome
<1> QED
  BY <1>1, <1>2

\* What is owed lies behind the cursor's walk: every cycle before an owed
\* period is settled or owed itself.
LEMMA UnbilledCompleteBut ==
  ASSUME TypeInv, CycleInv, NEW s \in Created, NEW day \in Date,
         NEW q \in Unbilled(s, day)
  PROVE  CompleteBut(s, q.m, Unbilled(s, day))
<1> DEFINE row == schedules[s]
           owed == Unbilled(s, day)
           start == first[s].m
<1>1. row \in Row /\ row.next \in Date /\ row.anchor \in AnchorDays /\ s \in Ids
  BY DEF TypeInv, TypeOK, Created, Row
<1>2. start \in Nat /\ AllBehind(start, Settled(s), row.next.m) /\ row.next.m \in Nat
  BY <1>1 DEF CycleInv, Complete, Date
<1>3. q \in Walk(row, day) /\ ~PauseCovers(row, q) /\ Leq(q, day) /\ row.endedAt = None
  BY DEF Unbilled, Walk
<1>4. q \in Date /\ q.m \in Nat
  BY <1>1, <1>3, WalkType DEF Date
<1>5. row.next.m <= q.m /\ InCycle(start, q.m)
  <2>1. InCycle(start, row.next.m)
    BY <1>2 DEF AllBehind
  <2>2. CASE q = row.next
    BY <1>2, <2>1, <2>2
  <2>3. CASE q # row.next
    <3>1. q.m \in row.next.m + 1 .. day.m /\ (q.m - row.next.m) % CycleMonths = 0
      BY <1>3, <2>3 DEF Walk
    <3> QED
      BY <1>2, <1>4, <2>1, <3>1, CycleMultiple
  <2> QED
    BY <2>2, <2>3
<1>6. ASSUME NEW j \in Nat, j < q.m, InCycle(start, j), row.next.m <= j
      PROVE  j \in Settled(s) \cup {x.m : x \in owed}
  <2>1. PICK x : x = IF j = row.next.m THEN row.next ELSE [m |-> j, d |-> ClampDay(j, row.anchor)]
    OBVIOUS
  <2>2. x \in Date /\ x.m = j
    BY <1>1, <1>6, <2>1, ClampDayType DEF Date
  <2>3. Leq(x, q) /\ Leq(x, day)
    BY <1>3, <1>4, <1>6, <2>2 DEF Leq, Date
  <2>4. x \in Walk(row, day)
    <3>1. CASE j = row.next.m
      BY <2>1, <2>3, <3>1 DEF Walk
    <3>2. CASE j # row.next.m
      <4>1. (j - row.next.m) % CycleMonths = 0
        BY <1>2, <1>6, <3>2, CycleGap DEF AllBehind
      <4>2. j \in row.next.m + 1 .. day.m
        BY <1>2, <1>6, <2>2, <2>3, <3>2 DEF Leq, Date
      <4> QED
        BY <2>1, <2>3, <3>2, <4>1, <4>2 DEF Walk
    <3> QED
      BY <3>1, <3>2
  <2>5. ~PauseCovers(row, x)
    <3>1. row.pausedAt = None \/ row.pausedAt \in Date
      BY <1>1 DEF Row
    <3> QED
      BY <1>3, <1>4, <2>2, <2>3, <3>1 DEF PauseCovers, Leq, Date
  <2>6. CASE HasRun(s, x)
    BY <2>2, <2>6 DEF HasRun, Settled
  <2>7. CASE ~HasRun(s, x)
    BY <1>3, <2>2, <2>4, <2>5, <2>7 DEF Unbilled
  <2> QED
    BY <2>6, <2>7
<1> QED
  BY <1>2, <1>5, <1>6 DEF CompleteBut, AllBehind

LEMMA CycleInvEnd ==
  ASSUME TypeInv, CycleInv, NEW p \in Procs, NEW s \in Ids, NEW how \in Dispositions
  PROVE  StartEnd(p, s, how) \/ DecideEnd(p) \/ FinishEnd(p) => CycleInv'
<1>1. ASSUME StartEnd(p, s, how) PROVE CycleInv'
  <2>1. PICK o : o.at = "end" /\ Become(p, o)
    BY <1>1 DEF StartEnd
  <2>2. runs' = runs /\ schedules' = schedules /\ first' = first /\ Created' = Created
    BY <1>1 DEF StartEnd, Created
  <2> QED
    BY <2>1, <2>2, NothingToKeep, TablesQuiet, CycleInvBecome
<1>2. ASSUME DecideEnd(p) PROVE CycleInv'
  <2>1. PICK t, owed : t = op[p].id /\ owed = Unbilled(t, op[p].day)
    OBVIOUS
  <2>2. t \in Created /\ op[p].day \in Date
    BY <1>2, <2>1, HeldTyped DEF DecideEnd
  <2>3. runs' = runs /\ schedules' = schedules /\ first' = first /\ Created' = Created
    BY <1>2 DEF DecideEnd, Created
  <2>4. PICK o : /\ Become(p, o)
                 /\ o.at \in {"idle", "finish"} \/ (o.at = "bill" /\ o.id = t /\ o.owed = owed)
    BY <1>2, <2>1 DEF DecideEnd, Idle, FinishState
  <2>5. CASE o.at \in {"idle", "finish"}
    BY <2>3, <2>4, <2>5, NothingToKeep, TablesQuiet, CycleInvBecome
  <2>6. CASE o.at = "bill" /\ o.id = t /\ o.owed = owed
    <3>1. \A q \in o.owed : CompleteBut(o.id, q.m, o.owed)
      BY <2>1, <2>2, <2>6, UnbilledCompleteBut
    <3>2. OpComplete(o)'
      BY <2>3, <2>6, <3>1 DEF OpComplete, CompleteBut, Settled
    <3> QED
      BY <2>3, <2>4, <3>2, TablesQuiet, CycleInvBecome
  <2> QED
    BY <2>4, <2>5, <2>6
<1>3. ASSUME FinishEnd(p) PROVE CycleInv'
  <2>1. PICK t, new : t = op[p].id /\ new = [schedules[t] EXCEPT !.endedAt = op[p].day]
    OBVIOUS
  <2>2. t \in Created /\ schedules[t] \in Row
    BY <1>3, <2>1, HeldTyped DEF FinishEnd, TypeInv, TypeOK, Created
  <2>3. new.next = schedules[t].next
    BY <2>1, <2>2 DEF Row
  <2>4. schedules' = [schedules EXCEPT ![t] = new]
    BY <1>3, <2>1 DEF FinishEnd
  <2>5. \A x \in Created : schedules'[x].next = schedules[x].next
    BY <2>3, <2>4 DEF TypeInv, TypeOK, Created
  <2>6. Created' \subseteq Created
    BY <2>2, <2>4 DEF TypeInv, TypeOK, Created
  <2>7. runs' = runs /\ first' = first /\ Become(p, Idle)
    BY <1>3 DEF FinishEnd
  <2>8. OpComplete(Idle)'
    BY DEF OpComplete, Idle
  <2> QED
    BY <2>5, <2>6, <2>7, <2>8, TablesQuiet, CycleInvBecome
<1> QED
  BY <1>1, <1>2, <1>3

LEMMA CycleInvBill ==
  ASSUME TypeInv, CycleInv, NEW p \in Procs
  PROVE  EndBill(p) \/ EndBillRefused(p) => CycleInv'
<1>1. ASSUME EndBill(p) PROVE CycleInv'
  <2>1. PICK t, row, owed : t = op[p].id /\ row = op[p].row /\ owed = op[p].owed
    OBVIOUS
  <2>2. PICK q \in owed :
          /\ IsEarliest(q, owed)
          /\ AlreadySettled(t, row, q) \/ Generates(t, row, q)
          /\ IF owed \ {q} = {}
             THEN Become(p, FinishState(t, op[p].day, {}))
             ELSE op' = [op EXCEPT ![p].owed = owed \ {q}]
    BY <1>1, <2>1 DEF EndBill
  <2>3. t \in Created /\ row \in Row /\ owed \subseteq Date /\ q \in Date /\ first' = first
    BY <1>1, <2>1, HeldTyped DEF EndBill
  <2>4. \A x \in owed : CompleteBut(t, x.m, owed)
    BY <1>1, <2>1 DEF EndBill, CycleInv, OpComplete
  <2>5. Complete(t, q.m)
    <3>1. InCycle(first[t].m, q.m)
      BY <2>4 DEF CompleteBut, AllBehind
    <3>2. ASSUME NEW j \in Nat, j < q.m, InCycle(first[t].m, j) PROVE j \in Settled(t)
      <4>1. j \in Settled(t) \cup {x.m : x \in owed}
        BY <2>4, <3>2 DEF CompleteBut, AllBehind
      <4>2. \A x \in owed : x.m # j
        BY <2>2, <2>3, <3>2 DEF IsEarliest, Leq, Date
      <4> QED
        BY <4>1, <4>2
    <3> QED
      BY <3>1, <3>2 DEF Complete, AllBehind
  <2>6. /\ runs \subseteq runs'
        /\ q.m \in Settled(t)'
        /\ \A x \in Created : AllBehind(first[x].m, Settled(x)', schedules'[x].next.m)
    BY <2>2, <2>3, <2>5, PeriodComplete
  <2>7. Created' = Created
    BY <2>2, <2>3, PeriodCreated DEF TypeInv
  <2>8. CASE owed \ {q} = {}
    <3>1. PICK o : o.at = "finish" /\ Become(p, o)
      BY <2>2, <2>8 DEF FinishState
    <3> QED
      BY <2>3, <2>6, <2>7, <3>1, NothingToKeep, CycleInvBecome
  <2>9. CASE owed \ {q} # {}
    <3>1. PICK o : o = [op[p] EXCEPT !.owed = owed \ {q}]
      OBVIOUS
    <3>2. Become(p, o)
      BY <2>2, <2>9, <3>1 DEF Become
    <3>3. o.at = "bill" /\ o.id = t /\ o.owed = owed \ {q}
      <4>1. op[p] \in [at : {"bill"}, id : Ids, day : Date, row : Row, owed : SUBSET Date]
        <5>1. OpOK(op[p]) /\ op[p].at = "bill"
          BY <1>1 DEF EndBill, TypeInv, TypeOK
        <5> QED
          BY <5>1 DEF OpOK, Idle
      <4> QED
        BY <2>1, <3>1, <4>1
    <3>4. ASSUME NEW x \in o.owed
          PROVE  AllBehind(first[t].m, Settled(t)' \cup {y.m : y \in o.owed}, x.m)
      <4>1. Settled(t) \cup {y.m : y \in owed} \subseteq Settled(t)' \cup {y.m : y \in o.owed}
        BY <2>6, <3>3, SettledGrows
      <4> QED
        BY <2>4, <3>3, <4>1, AllBehindGrows DEF CompleteBut
    <3>5. OpComplete(o)'
      BY <2>3, <3>3, <3>4 DEF OpComplete, CompleteBut
    <3> QED
      BY <2>3, <2>6, <2>7, <3>2, <3>5, CycleInvBecome
  <2> QED
    BY <2>8, <2>9
<1>2. ASSUME EndBillRefused(p) PROVE CycleInv'
  <2>1. /\ Become(p, Idle)
        /\ runs' = runs /\ schedules' = schedules /\ first' = first /\ Created' = Created
    BY <1>2 DEF EndBillRefused, Refuses, Created
  <2>2. OpComplete(Idle)'
    BY DEF OpComplete, Idle
  <2> QED
    BY <2>1, <2>2, TablesQuiet, CycleInvBecome
<1> QED
  BY <1>1, <1>2

LEMMA CycleInvWorld ==
  ASSUME TypeInv, CycleInv
  PROVE  /\ NextDay => CycleInv'
         /\ \A p \in Procs : Crash(p) => CycleInv'
<1>1. ASSUME NextDay PROVE CycleInv'
  BY <1>1, CycleInvQuiet DEF NextDay, Created
<1>2. ASSUME NEW p \in Procs, Crash(p) PROVE CycleInv'
  <2>1. /\ Become(p, Idle)
        /\ runs' = runs /\ schedules' = schedules /\ first' = first /\ Created' = Created
    BY <1>2 DEF Crash, Created
  <2>2. OpComplete(Idle)'
    BY DEF OpComplete, Idle
  <2> QED
    BY <2>1, <2>2, TablesQuiet, CycleInvBecome
<1> QED
  BY <1>1, <1>2

LEMMA CycleInvStep == TypeInv /\ CycleInv /\ [Next]_vars => CycleInv'
<1> SUFFICES ASSUME TypeInv, CycleInv, [Next]_vars PROVE CycleInv'
  OBVIOUS
<1>1. CASE NextDay
  BY <1>1, CycleInvWorld
<1>2. ASSUME NEW p \in Procs, NEW s \in Ids, Operator(p, s) PROVE CycleInv'
  BY <1>2, CycleInvOneShot, CycleInvPause, CycleInvResume, CycleInvEnd DEF Operator
<1>3. ASSUME NEW p \in Procs, StartRun(p) PROVE CycleInv'
  BY <1>3, CycleInvRun
<1>4. ASSUME NEW p \in Procs, Continue(p) PROVE CycleInv'
  <2>1. CommitResume(p) => op[p].id \in Ids
    BY HeldTyped DEF CommitResume
  <2>2. DecideEnd(p) \/ FinishEnd(p) => op[p].id \in Ids
    BY HeldTyped DEF DecideEnd, FinishEnd
  <2>3. "bill" \in Dispositions
    BY DEF Dispositions
  <2> QED
    BY <1>4, <2>1, <2>2, <2>3, CycleInvRun, CycleInvBill, CycleInvResume, CycleInvEnd DEF Continue
<1>5. ASSUME NEW p \in Procs, Crash(p) PROVE CycleInv'
  BY <1>5, CycleInvWorld
<1>6. CASE UNCHANGED vars
  BY <1>6, CycleInvQuiet DEF vars, Created
<1> QED
  BY <1>1, <1>2, <1>3, <1>4, <1>5, <1>6 DEF Next

\* Catch-up misses no cycle, under any interleaving of runs, edits, pauses,
\* resumes, ends and crashes, for every cadence and calendar.
THEOREM CyclesComplete == Spec => []NoCycleLost
<1>1. TypeInv /\ CycleInv => NoCycleLost
  <2> SUFFICES ASSUME TypeInv, CycleInv, NEW s \in Created,
                      NEW month \in first[s].m .. schedules[s].next.m - 1,
                      CycleOf(s, month)
               PROVE  month \in Settled(s)
    BY DEF NoCycleLost
  <2>1. schedules[s].next.m \in Nat /\ first[s].m \in Nat
    BY DEF TypeInv, TypeOK, Created, Row, Date, CycleInv
  <2>2. month \in Nat /\ month < schedules[s].next.m
    BY <2>1
  <2>3. InCycle(first[s].m, month)
    BY <2>2 DEF CycleOf, InCycle
  <2> QED
    BY <2>2, <2>3 DEF CycleInv, Complete, AllBehind
<1> QED
  BY TypeInvInit, TypeInvStep, CycleInvInit, CycleInvStep, <1>1, PTL DEF Spec

-----------------------------------------------------------------------------
(* One process at a time.  While nobody else writes, the copies a process  *)
(* holds are the table's rows, so nothing is billed twice, out of order or *)
(* out of turn - whatever anchors the operator edits the schedules to.     *)

Alone == \A p, q \in Procs : p = q

\* A month of a walk is one period, and lies a number of cycles ahead.
LEMMA WalkShape ==
  ASSUME NEW row \in Row, NEW day \in Date, NEW x \in Date
  PROVE  x \in Walk(row, day) <=>
           /\ Leq(x, day)
           /\ \/ x = row.next
              \/ /\ x.m > row.next.m
                 /\ (x.m - row.next.m) % CycleMonths = 0
                 /\ x.d = ClampDay(x.m, row.anchor)
<1>1. row.next.m \in Nat /\ day.m \in Nat /\ x.m \in Nat
  BY DEF Row, Date
<1>2. Leq(x, day) => x.m <= day.m
  BY <1>1 DEF Leq
<1>3. x = [m |-> x.m, d |-> x.d]
  BY DEF Date
<1>4. ASSUME x \in Walk(row, day), x # row.next
      PROVE  /\ x.m > row.next.m
             /\ (x.m - row.next.m) % CycleMonths = 0
             /\ x.d = ClampDay(x.m, row.anchor)
  <2>1. PICK k \in row.next.m + 1 .. day.m :
          (k - row.next.m) % CycleMonths = 0 /\ x = [m |-> k, d |-> ClampDay(k, row.anchor)]
    BY <1>4 DEF Walk
  <2> QED
    BY <1>1, <2>1
<1>5. ASSUME Leq(x, day), x.m > row.next.m, (x.m - row.next.m) % CycleMonths = 0,
             x.d = ClampDay(x.m, row.anchor)
      PROVE  x \in Walk(row, day)
  <2>1. x.m \in {j \in row.next.m + 1 .. day.m : (j - row.next.m) % CycleMonths = 0}
    BY <1>1, <1>2, <1>5
  <2> QED
    BY <1>3, <1>5, <2>1 DEF Walk
<1> QED
  BY <1>4, <1>5 DEF Walk

\* Whole cycles add up, and come apart.
LEMMA CyclesApart ==
  ASSUME NEW n \in Nat, NEW k \in Nat, NEW j \in Nat, n <= k, k < j,
         (k - n) % CycleMonths = 0
  PROVE  /\ (j - n) % CycleMonths = 0 <=>
              /\ k + CycleMonths <= j
              /\ (j - (k + CycleMonths)) % CycleMonths = 0
<1>1. CASE CycleMonths = 1
  BY <1>1
<1>2. CASE CycleMonths = 3
  BY <1>2
<1>3. CASE CycleMonths = 12
  BY <1>3
<1> QED
  BY <1>1, <1>2, <1>3, CycleAssumption

\* Advancing past a period of a walk leaves the rest of the walk.
LEMMA WalkAdvances ==
  ASSUME NEW row \in Row, NEW day \in Date, NEW q \in Walk(row, day), NEW new \in Row,
         new.anchor = row.anchor, new.next = AdvancePeriod(row.anchor, q)
  PROVE  Walk(new, day) = {x \in Walk(row, day) : q.m < x.m}
<1>1. q \in Date /\ Walk(row, day) \subseteq Date /\ Walk(new, day) \subseteq Date
  BY WalkType
<1>2. /\ row.next.m \in Nat /\ q.m \in Nat /\ row.anchor \in AnchorDays
      /\ CycleMonths \in Nat \ {0} /\ q.m + CycleMonths \in Nat
  BY <1>1, CycleAssumption DEF Row, Date
<1>3. new.next = [m |-> q.m + CycleMonths, d |-> ClampDay(q.m + CycleMonths, row.anchor)]
  BY DEF AdvancePeriod
<1>4. row.next.m <= q.m /\ (q.m - row.next.m) % CycleMonths = 0
  <2>1. CASE q = row.next
    <3>1. 0 % CycleMonths = 0
      BY CycleAssumption
    <3> QED
      BY <1>2, <2>1, <3>1
  <2> QED
    BY <1>1, <1>2, <2>1, WalkShape
<1>5. ASSUME NEW x \in Date PROVE x \in Walk(new, day) <=> x \in Walk(row, day) /\ q.m < x.m
  <2>1. x.m \in Nat /\ x = [m |-> x.m, d |-> x.d]
    BY DEF Date
  <2>2. q.m < x.m => ((x.m - row.next.m) % CycleMonths = 0 <=>
              /\ q.m + CycleMonths <= x.m
              /\ (x.m - (q.m + CycleMonths)) % CycleMonths = 0)
    BY <1>2, <1>4, <2>1, CyclesApart
  <2>3. x \in Walk(new, day) <=>
           /\ Leq(x, day)
           /\ \/ x = new.next
              \/ /\ x.m > q.m + CycleMonths
                 /\ (x.m - (q.m + CycleMonths)) % CycleMonths = 0
                 /\ x.d = ClampDay(x.m, row.anchor)
    BY <1>3, WalkShape
  <2>4. q.m < x.m => (x \in Walk(row, day) <=>
           /\ Leq(x, day)
           /\ (x.m - row.next.m) % CycleMonths = 0
           /\ x.d = ClampDay(x.m, row.anchor))
    BY <1>2, <1>4, <2>1, WalkShape
  <2>5. x = new.next <=> x.m = q.m + CycleMonths /\ x.d = ClampDay(x.m, row.anchor)
    BY <1>3, <2>1
  <2>6. x.m = q.m + CycleMonths => (x.m - (q.m + CycleMonths)) % CycleMonths = 0
    <3>1. 0 % CycleMonths = 0
      BY CycleAssumption
    <3> QED
      BY <1>2, <3>1
  <2>7. CASE q.m < x.m
    <3>1. (x.m - row.next.m) % CycleMonths = 0 <=>
             \/ x.m = q.m + CycleMonths
             \/ x.m > q.m + CycleMonths /\ (x.m - (q.m + CycleMonths)) % CycleMonths = 0
      BY <1>2, <2>1, <2>2, <2>6, <2>7
    <3> QED
      BY <2>3, <2>4, <2>5, <2>7, <3>1, Zenon
  <2>8. CASE ~(q.m < x.m)
    <3>1. x.m # q.m + CycleMonths /\ ~(x.m > q.m + CycleMonths)
      BY <1>2, <2>1, <2>8
    <3> QED
      BY <2>3, <2>5, <2>8, <3>1, Zenon
  <2> QED
    BY <2>7, <2>8
<1> QED
  BY <1>1, <1>5

\* A walk has one period in a month, and begins at the cursor.
LEMMA WalkDistinct ==
  ASSUME NEW row \in Row, NEW day \in Date, NEW q \in Walk(row, day)
  PROVE  /\ row.next.m <= q.m
         /\ \A x \in Walk(row, day) : x.m = q.m => x = q
<1>1. q \in Date /\ Walk(row, day) \subseteq Date
  BY WalkType
<1>2. row.next.m \in Nat /\ \A x \in Date : x.m \in Nat /\ x = [m |-> x.m, d |-> x.d]
  BY DEF Row, Date
<1>3. \A x \in Walk(row, day) : \/ x = row.next
                                \/ x.m > row.next.m /\ x.d = ClampDay(x.m, row.anchor)
  BY <1>1, WalkShape
<1> QED
  BY <1>1, <1>2, <1>3

\* What a process alone holds is what the tables still say.
HeldAlone(o) ==
  /\ o.at # "idle" => Leq(o.day, today)
  /\ o.at = "run" => \A s \in DOMAIN o.rows :
        s \in Active /\ o.rows[s] = schedules[s] /\ Leq(o.rows[s].next, o.day)
  /\ o.at \in {"end", "bill"} => o.row.anchor = schedules[o.id].anchor
  /\ o.at \in {"resume", "end", "bill", "finish"} => schedules[o.id].endedAt = None
  /\ o.at = "bill" => o.owed = Unbilled(o.id, o.day)
  /\ o.at = "finish" => o.off = Unbilled(o.id, o.day)

PauseDated == \A s \in Created : schedules[s].pausedAt # None => schedules[s].paused

\* Every invoice of a schedule is dated in a month behind its cursor.
InvoicesBehind ==
  \A r \in runs : r.invoice =>
    r.schedule \in Created /\ r.period.m < schedules[r.schedule].next.m

TablesAlone == PauseDated /\ InvoicesBehind /\ BilledOnce

AloneInv == TablesAlone /\ \A p \in Procs : HeldAlone(op[p])

\* The process that moves is the only one there is.
LEMMA AloneBecome ==
  ASSUME Alone, TypeInv, NEW p \in Procs, NEW o, Become(p, o), HeldAlone(o)', TablesAlone'
  PROVE  AloneInv'
<1>1. ASSUME NEW q \in Procs PROVE op'[q] = o
  BY DEF Alone, Become, TypeInv, TypeOK
<1>2. ASSUME NEW q \in Procs PROVE HeldAlone(op[q])'
  BY <1>1 DEF HeldAlone
<1> QED
  BY <1>2 DEF AloneInv

LEMMA IdleAlone == HeldAlone(Idle)'
BY DEF HeldAlone, Idle

\* Rows that keep their cursors, or that are new, and an invoice-free history.
LEMMA TablesAloneKept ==
  ASSUME TypeInv, AloneInv, PauseDated',
         \A r \in runs' : r.invoice => r \in runs,
         \A s \in Created : s \in Created' /\ schedules'[s].next = schedules[s].next
  PROVE  TablesAlone'
<1>1. InvoicesBehind'
  BY DEF AloneInv, TablesAlone, InvoicesBehind
<1>2. BilledOnce'
  BY DEF AloneInv, TablesAlone, BilledOnce
<1> QED
  BY <1>1, <1>2 DEF TablesAlone

\* A row with other settings: its columns, and the cursor among them.
LEMMA SetRow ==
  ASSUME TypeInv, NEW s \in Created, NEW new \in Row, schedules' = [schedules EXCEPT ![s] = new]
  PROVE  /\ Created' = Created
         /\ schedules'[s] = new
         /\ \A t \in Created \ {s} : schedules'[t] = schedules[t]
BY NoneAssumption DEF TypeInv, TypeOK, Created

LEMMA AloneInit == Init => AloneInv
<1> SUFFICES ASSUME Init PROVE AloneInv
  OBVIOUS
<1>1. ASSUME NEW s \in Created PROVE schedules[s].pausedAt = None
  BY DEF Init, Created, LegacyRow
<1>2. runs = {} /\ \A p \in Procs : op[p] = Idle
  BY DEF Init
<1>3. \A p \in Procs : HeldAlone(op[p])
  BY <1>2 DEF HeldAlone, Idle
<1> QED
  BY <1>1, <1>2, <1>3 DEF AloneInv, TablesAlone, PauseDated, InvoicesBehind, BilledOnce

\* A step of an idle process that leaves it idle.
LEMMA AloneQuiet ==
  ASSUME Alone, NEW p \in Procs, op[p] = Idle, op' = op, TablesAlone'
  PROVE  AloneInv'
<1>1. ASSUME NEW q \in Procs PROVE HeldAlone(op[q])'
  BY DEF HeldAlone, Idle, Alone
<1> QED
  BY <1>1 DEF AloneInv

LEMMA AloneOneShot ==
  ASSUME Alone, TypeInv, AloneInv, NEW p \in Procs, NEW s \in Ids,
         NEW anchor \in AnchorDays, NEW auto \in Autosends
  PROVE  (\E start \in Starts : AddSchedule(p, s, start, anchor, auto)) \/ UpdateSchedule(p, s, anchor, auto) => AloneInv'
<1>1. ASSUME NEW start \in Starts, AddSchedule(p, s, start, anchor, auto) PROVE AloneInv'
  <2>1. PICK new : /\ new = [anchor |-> anchor, next |-> start, autosend |-> auto,
                             paused |-> FALSE, pausedAt |-> None, endedAt |-> None]
                   /\ schedules' = [schedules EXCEPT ![s] = new]
    BY <1>1 DEF AddSchedule
  <2>2. new.pausedAt = None /\ s \notin Created /\ runs' = runs /\ op[p] = Idle /\ op' = op
    BY <1>1, <2>1 DEF AddSchedule
  <2>3. \A t \in Created : t \in Created' /\ schedules'[t] = schedules[t]
    BY <2>1, <2>2 DEF TypeInv, TypeOK, Created
  <2>4. Created' \subseteq Created \cup {s} /\ schedules'[s] = new
    BY <2>1 DEF TypeInv, TypeOK, Created
  <2>5. PauseDated'
    BY <2>2, <2>3, <2>4 DEF AloneInv, TablesAlone, PauseDated
  <2> QED
    BY AloneQuiet, <2>2, <2>3, <2>5, TablesAloneKept
<1>2. ASSUME UpdateSchedule(p, s, anchor, auto) PROVE AloneInv'
  <2>1. s \in Created /\ schedules[s] \in Row /\ runs' = runs /\ op[p] = Idle /\ op' = op
    BY <1>2 DEF UpdateSchedule, TypeInv, TypeOK, Created
  <2>2. PICK new : new = [schedules[s] EXCEPT !.anchor = anchor, !.autosend = auto]
    OBVIOUS
  <2>3. new \in Row /\ new.next = schedules[s].next /\ new.paused = schedules[s].paused
                   /\ new.pausedAt = schedules[s].pausedAt
    BY <2>1, <2>2, AutosendAssumption DEF Row
  <2>4. schedules' = [schedules EXCEPT ![s] = new]
    BY <1>2, <2>2 DEF UpdateSchedule
  <2>5. Created' = Created /\ schedules'[s] = new /\ \A t \in Created \ {s} : schedules'[t] = schedules[t]
    BY <2>1, <2>3, <2>4, SetRow
  <2>6. PauseDated'
    BY <2>1, <2>3, <2>5 DEF AloneInv, TablesAlone, PauseDated
  <2>7. \A t \in Created : t \in Created' /\ schedules'[t].next = schedules[t].next
    BY <2>3, <2>5
  <2> QED
    BY AloneQuiet, <2>1, <2>6, <2>7, TablesAloneKept
<1> QED
  BY <1>1, <1>2

LEMMA AlonePause ==
  ASSUME Alone, TypeInv, AloneInv, NEW p \in Procs, NEW s \in Ids
  PROVE  PauseSchedule(p, s) \/ SetClientArchived(p, s) => AloneInv'
<1>1. ASSUME PauseSchedule(p, s) PROVE AloneInv'
  <2>1. s \in Created /\ schedules[s] \in Row /\ runs' = runs /\ op[p] = Idle /\ op' = op
    BY <1>1 DEF PauseSchedule, TypeInv, TypeOK, Created
  <2>2. PICK at \in Date \cup {None} : at = IF schedules[s].paused THEN schedules[s].pausedAt ELSE today
    BY <2>1 DEF Row, TypeInv, TypeOK
  <2>3. PICK new : new = [schedules[s] EXCEPT !.pausedAt = at, !.paused = TRUE]
    OBVIOUS
  <2>4. new \in Row /\ new.next = schedules[s].next /\ new.paused
    BY <2>1, <2>3 DEF Row
  <2>5. schedules' = [schedules EXCEPT ![s] = new]
    BY <1>1, <2>2, <2>3 DEF PauseSchedule
  <2>6. Created' = Created /\ schedules'[s] = new /\ \A t \in Created \ {s} : schedules'[t] = schedules[t]
    BY <2>1, <2>4, <2>5, SetRow
  <2>7. PauseDated'
    BY <2>4, <2>6 DEF AloneInv, TablesAlone, PauseDated
  <2>8. \A t \in Created : t \in Created' /\ schedules'[t].next = schedules[t].next
    BY <2>4, <2>6
  <2> QED
    BY AloneQuiet, <2>1, <2>7, <2>8, TablesAloneKept
<1>2. ASSUME SetClientArchived(p, s) PROVE AloneInv'
  <2>1. schedules' = schedules /\ runs' = runs /\ op[p] = Idle /\ op' = op
    BY <1>2 DEF SetClientArchived
  <2>2. TablesAlone'
    BY <2>1 DEF AloneInv, TablesAlone, PauseDated, InvoicesBehind, BilledOnce, Created
  <2> QED
    BY AloneQuiet, <2>1, <2>2
<1> QED
  BY <1>1, <1>2

\* What StillDue lets through is due; the rest of a run's state is handed on.
LEMMA RunStateAlone ==
  ASSUME NEW day \in Date, NEW rows, NEW made, NEW o, o = RunState(day, rows, made),
         Leq(day, today'),
         \A s \in DOMAIN rows : s \in Active' /\ rows[s] = schedules'[s]
  PROVE  HeldAlone(o)'
<1> DEFINE due == StillDue(rows, day)
<1>1. /\ DOMAIN due \subseteq DOMAIN rows
      /\ \A s \in DOMAIN due : due[s] = rows[s] /\ Leq(rows[s].next, day)
  BY DEF StillDue
<1>2. CASE o = Idle
  BY <1>2, IdleAlone
<1>3. CASE o = [at |-> "run", day |-> day, rows |-> due, made |-> made]
  <2>1. o.at = "run" /\ o.rows = due /\ o.day = day
    BY <1>3
  <2> HIDE DEF due
  <2> QED
    BY <1>1, <2>1 DEF HeldAlone
<1> QED
  BY <1>2, <1>3, Zenon DEF RunState

\* The period a process comes to lies on the walk from the table's cursor, so
\* the cursor passes it, settled before or now.
LEMMA AloneAdvances ==
  ASSUME TypeInv, AloneInv, NEW s \in Created, NEW row \in Row, NEW day \in Date,
         row.anchor = schedules[s].anchor, NEW q \in Walk(schedules[s], day),
         AlreadySettled(s, row, q) \/ Generates(s, row, q)
  PROVE  /\ Created' = Created
         /\ schedules'[s] = [schedules[s] EXCEPT !.next = AdvancePeriod(row.anchor, q)]
         /\ schedules'[s].next.m = q.m + CycleMonths
         /\ \A t \in Created \ {s} : schedules'[t] = schedules[t]
         /\ schedules[s].next.m <= q.m
<1> DEFINE next == AdvancePeriod(row.anchor, q)
<1>1. schedules[s] \in Row /\ schedules[s].next \in Date
  BY DEF TypeInv, TypeOK, Created, Row
<1>2. q \in Date /\ schedules[s].next.m <= q.m
  BY <1>1, WalkType, WalkDistinct
<1>3. next \in Date /\ next.m = q.m + CycleMonths
  BY <1>2, AdvanceType DEF Row
<1>4. Leq(schedules[s].next, next)
  BY <1>1, <1>2, <1>3, CycleAssumption DEF Leq, Date
<1>5. schedules' = [schedules EXCEPT ![s].next = next]
  BY <1>4 DEF AlreadySettled, Generates
<1>6. PICK new : new = [schedules[s] EXCEPT !.next = next]
  OBVIOUS
<1>7. new \in Row /\ new.next = next
  BY <1>1, <1>3, <1>6 DEF Row
<1>8. schedules' = [schedules EXCEPT ![s] = new]
  BY <1>5, <1>6
<1> HIDE DEF next
<1>9. Created' = Created /\ schedules'[s] = new /\ \A t \in Created \ {s} : schedules'[t] = schedules[t]
  BY <1>7, <1>8, SetRow
<1> QED
  BY <1>2, <1>3, <1>6, <1>7, <1>9 DEF next

\* An invoice for a period on the walk is the first of its month, and the
\* cursor goes past it.
LEMMA AloneTables ==
  ASSUME TypeInv, AloneInv, NEW s \in Created, NEW row \in Row, NEW day \in Date,
         row.anchor = schedules[s].anchor, NEW q \in Walk(schedules[s], day),
         AlreadySettled(s, row, q) \/ Generates(s, row, q)
  PROVE  TablesAlone'
<1>1. /\ Created' = Created
      /\ schedules'[s] = [schedules[s] EXCEPT !.next = AdvancePeriod(row.anchor, q)]
      /\ schedules'[s].next.m = q.m + CycleMonths
      /\ \A t \in Created \ {s} : schedules'[t] = schedules[t]
      /\ schedules[s].next.m <= q.m
  BY AloneAdvances
<1>2. schedules[s] \in Row
  BY DEF TypeInv, TypeOK, Created
<1>3. schedules'[s].paused = schedules[s].paused /\ schedules'[s].pausedAt = schedules[s].pausedAt
  BY <1>1, <1>2 DEF Row
<1>4. PauseDated'
  BY <1>1, <1>3 DEF AloneInv, TablesAlone, PauseDated
<1>5. q \in Date /\ q.m \in Nat /\ schedules[s].next.m \in Nat /\ CycleMonths \in Nat \ {0}
  BY <1>2, WalkType, CycleAssumption DEF Row, Date
<1>6. \A r \in runs' : r \in runs \/ r = InvoiceRun(s, q)
  BY DEF AlreadySettled, Generates
<1>7. InvoiceRun(s, q).schedule = s /\ InvoiceRun(s, q).period = q
  BY DEF InvoiceRun
<1>8. ASSUME NEW r \in runs, r.invoice, r.schedule = s PROVE r.period.m \in Nat /\ r.period.m < q.m
  <2>1. r.period.m \in Nat /\ r.period.m < schedules[s].next.m
    BY <1>8 DEF AloneInv, TablesAlone, InvoicesBehind, TypeInv, TypeOK, Run, Date
  <2> QED
    BY <1>1, <1>5, <2>1
<1>9. ASSUME NEW r \in runs', r.invoice
      PROVE  r.schedule \in Created' /\ r.period.m < schedules'[r.schedule].next.m
  <2>1. CASE r = InvoiceRun(s, q) \/ (r \in runs /\ r.schedule = s)
    <3>1. r.schedule = s
      BY <1>7, <2>1
    <3>2. r.period.m < q.m + CycleMonths
      BY <1>5, <1>7, <1>8, <1>9, <2>1
    <3>3. schedules'[r.schedule].next.m = q.m + CycleMonths
      BY <1>1, <3>1
    <3> QED
      BY <1>1, <3>1, <3>2, <3>3
  <2>3. CASE r \in runs /\ r.schedule # s
    BY <1>1, <1>9, <2>3 DEF AloneInv, TablesAlone, InvoicesBehind
  <2> QED
    BY <1>6, <2>1, <2>3
<1>10. BilledOnce'
  <2> SUFFICES ASSUME NEW r \in runs', NEW x \in runs', r.schedule = x.schedule, r.invoice, x.invoice,
                      r.period.m = x.period.m
               PROVE  r = x
    BY DEF BilledOnce
  <2>1. CASE r \in runs /\ x \in runs
    BY <2>1 DEF AloneInv, TablesAlone, BilledOnce
  <2>2. CASE r = InvoiceRun(s, q) /\ x \in runs
    BY <1>5, <1>7, <1>8, <2>2
  <2>3. CASE r \in runs /\ x = InvoiceRun(s, q)
    BY <1>5, <1>7, <1>8, <2>3
  <2> QED
    BY <1>6, <2>1, <2>2, <2>3
<1> QED
  BY <1>4, <1>9, <1>10 DEF TablesAlone, InvoicesBehind

LEMMA AloneRun ==
  ASSUME Alone, TypeInv, AloneInv, NEW p \in Procs
  PROVE  StartRun(p) \/ RunPeriod(p) \/ RunRefused(p) \/ RunSend(p) => AloneInv'
<1>0. ASSUME Running(p)
      PROVE  /\ op[p].day \in Date /\ Leq(op[p].day, today)
             /\ DOMAIN op[p].rows \subseteq Created
             /\ \A s \in DOMAIN op[p].rows :
                  s \in Active /\ op[p].rows[s] = schedules[s] /\ Leq(schedules[s].next, op[p].day)
  BY <1>0, RunTyped DEF Running, TypeInv, HeldCreated, HeldBy, AloneInv, HeldAlone
<1>1. ASSUME StartRun(p) PROVE AloneInv'
  <2>1. PICK rows, o : rows = [s \in Active |-> schedules[s]] /\ o = RunState(today, rows, <<>>)
    OBVIOUS
  <2>2. Become(p, o) /\ runs' = runs /\ schedules' = schedules /\ today' = today /\ Created' = Created
    BY <1>1, <2>1 DEF StartRun, Created
  <2>3. today \in Date /\ Leq(today, today)
    BY DEF TypeInv, TypeOK, Leq, Date
  <2>4. Active' = Active
    BY <2>2 DEF Active
  <2>5. \A s \in DOMAIN rows : s \in Active' /\ rows[s] = schedules'[s]
    BY <2>1, <2>2, <2>4
  <2>6. HeldAlone(o)'
    BY <2>1, <2>2, <2>3, <2>5, RunStateAlone
  <2>7. TablesAlone'
    BY <2>2 DEF AloneInv, TablesAlone, PauseDated, InvoicesBehind, BilledOnce
  <2> QED
    BY <2>2, <2>6, <2>7, AloneBecome
<1>2. ASSUME RunPeriod(p) PROVE AloneInv'
  <2>1. PICK s \in Ids :
          LET row == op[p].rows[s]
              walked == [op[p].rows EXCEPT ![s].next = AdvancePeriod(row.anchor, row.next)]
          IN  /\ IsCurrent(s, op[p].rows)
              /\ AlreadySettled(s, row, row.next) \/ Generates(s, row, row.next)
              /\ \E made : Become(p, RunState(op[p].day, walked, made))
    BY <1>2 DEF RunPeriod
  <2>2. PICK rows, row, new, walked, day :
          /\ rows = op[p].rows /\ row = rows[s] /\ day = op[p].day
          /\ new = [row EXCEPT !.next = AdvancePeriod(row.anchor, row.next)]
          /\ walked = [rows EXCEPT ![s] = new]
    OBVIOUS
  <2>3. PICK made, o : o = RunState(day, walked, made) /\ Become(p, o)
    BY <2>1, <2>2
  <2>4. /\ s \in Active /\ s \in Created /\ s \in DOMAIN rows
        /\ row = schedules[s] /\ row \in Row /\ day \in Date
        /\ Leq(day, today) /\ today' = today
    BY <1>0, <1>2, <2>1, <2>2 DEF IsCurrent, RunPeriod, TypeInv, TypeOK, Created
  <2>5. row.next \in Walk(schedules[s], day)
    BY <1>0, <1>2, <2>2, <2>4 DEF Walk, RunPeriod
  <2>6. AlreadySettled(s, row, row.next) \/ Generates(s, row, row.next)
    BY <2>1, <2>2
  <2>7. /\ Created' = Created
        /\ schedules'[s] = new
        /\ \A t \in Created \ {s} : schedules'[t] = schedules[t]
    BY <2>2, <2>4, <2>5, <2>6, AloneAdvances
  <2>8. new.paused = row.paused /\ new.endedAt = row.endedAt
    BY <2>2, <2>4 DEF Row
  <2>9. \A t \in Active : t \in Active'
    BY <2>4, <2>7, <2>8 DEF Active
  <2>10. DOMAIN walked = DOMAIN rows /\ walked[s] = new /\ \A t \in DOMAIN rows \ {s} : walked[t] = rows[t]
    BY <2>2, <2>4
  <2>11. \A t \in DOMAIN rows : t \in Active /\ t \in Created /\ rows[t] = schedules[t]
    BY <1>0, <1>2, <2>2 DEF RunPeriod
  <2>12. \A t \in DOMAIN walked : t \in Active' /\ walked[t] = schedules'[t]
    BY <2>7, <2>9, <2>10, <2>11
  <2>13. HeldAlone(o)'
    BY <2>3, <2>4, <2>12, RunStateAlone
  <2>14. TablesAlone'
    BY <2>4, <2>5, <2>6, AloneTables
  <2> QED
    BY <2>3, <2>13, <2>14, AloneBecome
<1>3. ASSUME RunRefused(p) PROVE AloneInv'
  <2>1. PICK s \in Ids :
          LET others == [t \in DOMAIN op[p].rows \ {s} |-> op[p].rows[t]]
          IN  Become(p, RunState(op[p].day, others, op[p].made)) /\ UNCHANGED <<runs, schedules>>
    BY <1>3 DEF RunRefused, Refuses
  <2>2. PICK others, o : /\ others = [t \in DOMAIN op[p].rows \ {s} |-> op[p].rows[t]]
                         /\ o = RunState(op[p].day, others, op[p].made)
                         /\ Become(p, o)
    BY <2>1
  <2>3. runs' = runs /\ schedules' = schedules /\ today' = today /\ Created' = Created
    BY <1>3, <2>1 DEF RunRefused, Created
  <2>4. Active' = Active
    BY <2>3 DEF Active
  <2>5. \A t \in DOMAIN others : t \in Active' /\ others[t] = schedules'[t]
    BY <1>0, <1>3, <2>2, <2>3, <2>4 DEF RunRefused
  <2>6. HeldAlone(o)'
    BY <1>0, <1>3, <2>2, <2>3, <2>5, RunStateAlone DEF RunRefused
  <2>7. TablesAlone'
    BY <2>3 DEF AloneInv, TablesAlone, PauseDated, InvoicesBehind, BilledOnce
  <2> QED
    BY <2>2, <2>6, <2>7, AloneBecome
<1>4. ASSUME RunSend(p) PROVE AloneInv'
  <2>1. PICK o : o = RunState(op[p].day, op[p].rows, Tail(op[p].made)) /\ Become(p, o)
    BY <1>4 DEF RunSend
  <2>2. runs' = runs /\ schedules' = schedules /\ today' = today /\ Created' = Created
    BY <1>4 DEF RunSend, Created
  <2>3. DOMAIN op[p].rows = {}
    BY <1>4 DEF RunSend
  <2>4. HeldAlone(o)'
    BY <1>0, <1>4, <2>1, <2>2, <2>3, RunStateAlone DEF RunSend
  <2>5. TablesAlone'
    BY <2>2 DEF AloneInv, TablesAlone, PauseDated, InvoicesBehind, BilledOnce
  <2> QED
    BY <2>1, <2>2, <2>4, <2>5, AloneBecome
<1> QED
  BY <1>1, <1>2, <1>3, <1>4

LEMMA AloneResume ==
  ASSUME Alone, TypeInv, AloneInv, NEW p \in Procs, NEW s \in Ids
  PROVE  StartResume(p, s) \/ CommitResume(p) => AloneInv'
<1>1. ASSUME StartResume(p, s) PROVE AloneInv'
  <2>1. PICK o : o = [at |-> "resume", id |-> s, day |-> today, row |-> schedules[s]] /\ Become(p, o)
    BY <1>1 DEF StartResume
  <2>2. /\ runs' = runs /\ schedules' = schedules /\ today' = today /\ Created' = Created
        /\ schedules[s].endedAt = None
    BY <1>1 DEF StartResume, Created
  <2>3. Leq(today, today)
    BY DEF TypeInv, TypeOK, Leq, Date
  <2>4. HeldAlone(o)'
    BY <2>1, <2>2, <2>3 DEF HeldAlone
  <2>5. TablesAlone'
    BY <2>2 DEF AloneInv, TablesAlone, PauseDated, InvoicesBehind, BilledOnce
  <2> QED
    BY <2>1, <2>4, <2>5, AloneBecome
<1>2. ASSUME CommitResume(p) PROVE AloneInv'
  <2>1. PICK t, new : /\ t = op[p].id
                      /\ new = [schedules[t] EXCEPT !.paused = FALSE, !.pausedAt = None]
    OBVIOUS
  <2>2. t \in Created /\ schedules[t] \in Row
    BY <1>2, <2>1, HeldTyped DEF CommitResume, TypeInv, TypeOK, Created
  <2>3. new \in Row /\ new.next = schedules[t].next /\ new.pausedAt = None
    BY <2>1, <2>2 DEF Row
  <2>4. schedules' = [schedules EXCEPT ![t] = new]
    BY <1>2, <2>1 DEF CommitResume
  <2>5. Created' = Created /\ schedules'[t] = new /\ \A x \in Created \ {t} : schedules'[x] = schedules[x]
    BY <2>2, <2>3, <2>4, SetRow
  <2>6. PauseDated'
    BY <2>3, <2>5 DEF AloneInv, TablesAlone, PauseDated
  <2>7. \A r \in runs' : r.invoice => r \in runs
    BY <1>2 DEF CommitResume, SkipRun
  <2>8. TablesAlone'
    BY <2>3, <2>5, <2>6, <2>7, TablesAloneKept
  <2> QED
    BY <1>2, <2>8, IdleAlone, AloneBecome DEF CommitResume
<1> QED
  BY <1>1, <1>2

LEMMA AloneEnd ==
  ASSUME Alone, TypeInv, AloneInv, NEW p \in Procs, NEW s \in Ids, NEW how \in Dispositions
  PROVE  StartEnd(p, s, how) \/ DecideEnd(p) \/ FinishEnd(p) => AloneInv'
<1>1. ASSUME StartEnd(p, s, how) PROVE AloneInv'
  <2>1. PICK o : /\ o = [at |-> "end", id |-> s, day |-> today, how |-> how, row |-> schedules[s]]
                 /\ Become(p, o)
    BY <1>1 DEF StartEnd
  <2>2. /\ runs' = runs /\ schedules' = schedules /\ today' = today /\ Created' = Created
        /\ schedules[s].endedAt = None
    BY <1>1 DEF StartEnd, Created
  <2>3. Leq(today, today)
    BY DEF TypeInv, TypeOK, Leq, Date
  <2>4. HeldAlone(o)'
    BY <2>1, <2>2, <2>3 DEF HeldAlone
  <2>5. TablesAlone'
    BY <2>2 DEF AloneInv, TablesAlone, PauseDated, InvoicesBehind, BilledOnce
  <2> QED
    BY <2>1, <2>4, <2>5, AloneBecome
<1>2. ASSUME DecideEnd(p) PROVE AloneInv'
  <2>1. PICK t, day, owed : t = op[p].id /\ day = op[p].day /\ owed = Unbilled(t, day)
    OBVIOUS
  <2>2. /\ runs' = runs /\ schedules' = schedules /\ today' = today /\ Created' = Created
        /\ op[p].at = "end"
    BY <1>2 DEF DecideEnd, Created
  <2>3. /\ Leq(day, today) /\ op[p].row.anchor = schedules[t].anchor
        /\ schedules[t].endedAt = None
    BY <2>1, <2>2 DEF AloneInv, HeldAlone
  <2>4. Unbilled(t, day)' = owed
    BY <2>1, <2>2 DEF Unbilled, HasRun
  <2>5. PICK o : /\ Become(p, o)
                 /\ \/ o = Idle
                    \/ o = FinishState(t, day, owed)
                    \/ o = [at |-> "bill", id |-> t, day |-> day, row |-> op[p].row, owed |-> owed]
    BY <1>2, <2>1 DEF DecideEnd
  <2>6. HeldAlone(o)'
    <3>1. CASE o = Idle
      BY <3>1, IdleAlone
    <3>2. CASE o = FinishState(t, day, owed)
      BY <2>2, <2>3, <2>4, <3>2 DEF FinishState, HeldAlone
    <3>3. CASE o = [at |-> "bill", id |-> t, day |-> day, row |-> op[p].row, owed |-> owed]
      BY <2>2, <2>3, <2>4, <3>3 DEF HeldAlone
    <3> QED
      BY <2>5, <3>1, <3>2, <3>3
  <2>7. TablesAlone'
    BY <2>2 DEF AloneInv, TablesAlone, PauseDated, InvoicesBehind, BilledOnce
  <2> QED
    BY <2>5, <2>6, <2>7, AloneBecome
<1>3. ASSUME FinishEnd(p) PROVE AloneInv'
  <2>1. PICK t, new : t = op[p].id /\ new = [schedules[t] EXCEPT !.endedAt = op[p].day]
    OBVIOUS
  <2>2. t \in Created /\ schedules[t] \in Row /\ op[p].day \in Date
    BY <1>3, <2>1, HeldTyped DEF FinishEnd, TypeInv, TypeOK, Created
  <2>3. /\ new \in Row /\ new.next = schedules[t].next
        /\ new.pausedAt = schedules[t].pausedAt /\ new.paused = schedules[t].paused
    BY <2>1, <2>2 DEF Row
  <2>4. schedules' = [schedules EXCEPT ![t] = new]
    BY <1>3, <2>1 DEF FinishEnd
  <2>5. Created' = Created /\ schedules'[t] = new /\ \A x \in Created \ {t} : schedules'[x] = schedules[x]
    BY <2>2, <2>3, <2>4, SetRow
  <2>6. PauseDated'
    BY <2>2, <2>3, <2>5 DEF AloneInv, TablesAlone, PauseDated
  <2>7. runs' = runs
    BY <1>3 DEF FinishEnd
  <2>8. TablesAlone'
    BY <2>3, <2>5, <2>6, <2>7, TablesAloneKept
  <2> QED
    BY <1>3, <2>8, IdleAlone, AloneBecome DEF FinishEnd
<1> QED
  BY <1>1, <1>2, <1>3

\* Billing the earliest period owed leaves the others owed, and nothing else.
LEMMA UnbilledRest ==
  ASSUME TypeInv, AloneInv, NEW s \in Created, NEW row \in Row, NEW day \in Date,
         row.anchor = schedules[s].anchor, schedules[s].endedAt = None,
         NEW q \in Unbilled(s, day), IsEarliest(q, Unbilled(s, day)), Generates(s, row, q)
  PROVE  Unbilled(s, day)' = Unbilled(s, day) \ {q}
<1> DEFINE old == schedules[s]
           new == [schedules[s] EXCEPT !.next = AdvancePeriod(row.anchor, q)]
<1>1. old \in Row /\ q \in Walk(old, day) /\ q \in Date
  BY WalkType DEF Unbilled, TypeInv, TypeOK, Created
<1>2. schedules'[s] = new
  BY <1>1, AloneAdvances
<1>3. AdvancePeriod(row.anchor, q) \in Date
  BY <1>1, AdvanceType DEF Row
<1>4. /\ new \in Row /\ new.anchor = row.anchor /\ new.next = AdvancePeriod(row.anchor, q)
      /\ new.endedAt = None /\ new.pausedAt = old.pausedAt
  BY <1>1, <1>3 DEF Row
<1> HIDE DEF new
<1>5. Walk(new, day) = {x \in Walk(old, day) : q.m < x.m}
  BY <1>1, <1>4, WalkAdvances
<1>6. \A x : PauseCovers(new, x) <=> PauseCovers(old, x)
  BY <1>4 DEF PauseCovers
<1>7. \A x : HasRun(s, x)' <=> (HasRun(s, x) \/ x = q)
  <2>1. InvoiceRun(s, q).schedule = s /\ InvoiceRun(s, q).period = q
    BY DEF InvoiceRun
  <2> QED
    BY <2>1 DEF Generates, HasRun
<1>8. Unbilled(s, day)' = {x \in Walk(new, day) : ~PauseCovers(new, x) /\ ~HasRun(s, x)'}
  BY <1>2, <1>4 DEF Unbilled
<1>9. Unbilled(s, day) = {x \in Walk(old, day) : ~PauseCovers(old, x) /\ ~HasRun(s, x)}
  BY DEF Unbilled
<1>10. ASSUME NEW x \in Unbilled(s, day), x # q PROVE q.m < x.m
  <2>1. x \in Walk(old, day) /\ x \in Date
    BY <1>1, <1>9, <1>10, WalkType
  <2>2. x.m # q.m
    BY <1>1, <1>10, <2>1, WalkDistinct
  <2>3. Leq(q, x)
    BY <1>10 DEF IsEarliest
  <2> QED
    BY <1>1, <2>1, <2>2, <2>3 DEF Leq, Date
<1>11. ~(q.m < q.m)
  BY <1>1 DEF Date
<1> QED
  BY <1>5, <1>6, <1>7, <1>8, <1>9, <1>10, <1>11

LEMMA AloneBill ==
  ASSUME Alone, TypeInv, AloneInv, NEW p \in Procs
  PROVE  EndBill(p) \/ EndBillRefused(p) => AloneInv'
<1>1. ASSUME EndBill(p) PROVE AloneInv'
  <2>1. PICK t, row, day, owed : t = op[p].id /\ row = op[p].row /\ day = op[p].day /\ owed = op[p].owed
    OBVIOUS
  <2>2. PICK q \in owed :
          /\ IsEarliest(q, owed)
          /\ AlreadySettled(t, row, q) \/ Generates(t, row, q)
          /\ IF owed \ {q} = {}
             THEN Become(p, FinishState(t, day, {}))
             ELSE op' = [op EXCEPT ![p].owed = owed \ {q}]
    BY <1>1, <2>1 DEF EndBill
  <2>3. t \in Created /\ row \in Row /\ day \in Date /\ owed \subseteq Date /\ today' = today
    BY <1>1, <2>1, HeldTyped DEF EndBill
  <2>4. /\ Leq(day, today) /\ row.anchor = schedules[t].anchor
        /\ schedules[t].endedAt = None /\ owed = Unbilled(t, day)
    BY <1>1, <2>1 DEF EndBill, AloneInv, HeldAlone
  <2>5. q \in Walk(schedules[t], day) /\ ~HasRun(t, q)
    BY <2>4 DEF Unbilled
  <2>6. Generates(t, row, q)
    BY <2>2, <2>5 DEF AlreadySettled
  <2>7. Unbilled(t, day)' = owed \ {q}
    BY <2>2, <2>3, <2>4, <2>6, UnbilledRest
  <2>8. schedules[t] \in Row
    BY <2>3 DEF TypeInv, TypeOK, Created
  <2>9. schedules'[t].anchor = row.anchor /\ schedules'[t].endedAt = None
    <3>1. schedules'[t] = [schedules[t] EXCEPT !.next = AdvancePeriod(row.anchor, q)]
      BY <2>3, <2>4, <2>5, <2>6, AloneAdvances
    <3> QED
      BY <2>4, <2>8, <3>1 DEF Row
  <2>10. TablesAlone'
    BY <2>3, <2>4, <2>5, <2>6, AloneTables
  <2>11. CASE owed \ {q} = {}
    <3>1. PICK o : o = FinishState(t, day, {}) /\ Become(p, o)
      BY <2>2, <2>11
    <3>2. HeldAlone(o)'
      BY <2>3, <2>4, <2>7, <2>9, <2>11, <3>1 DEF FinishState, HeldAlone
    <3> QED
      BY <2>10, <3>1, <3>2, AloneBecome
  <2>12. CASE owed \ {q} # {}
    <3>1. PICK o : o = [op[p] EXCEPT !.owed = owed \ {q}]
      OBVIOUS
    <3>2. Become(p, o)
      BY <2>2, <2>12, <3>1 DEF Become
    <3>3. o.at = "bill" /\ o.id = t /\ o.owed = owed \ {q} /\ o.row = row /\ o.day = day
      <4>1. op[p] \in [at : {"bill"}, id : Ids, day : Date, row : Row, owed : SUBSET Date]
        <5>1. OpOK(op[p]) /\ op[p].at = "bill"
          BY <1>1 DEF EndBill, TypeInv, TypeOK
        <5> QED
          BY <5>1 DEF OpOK, Idle
      <4> QED
        BY <2>1, <3>1, <4>1
    <3>4. HeldAlone(o)'
      BY <2>3, <2>4, <2>7, <2>9, <3>3 DEF HeldAlone
    <3> QED
      BY <2>10, <3>2, <3>4, AloneBecome
  <2> QED
    BY <2>11, <2>12
<1>2. ASSUME EndBillRefused(p) PROVE AloneInv'
  <2>1. Become(p, Idle) /\ runs' = runs /\ schedules' = schedules /\ Created' = Created
    BY <1>2 DEF EndBillRefused, Refuses, Created
  <2>2. TablesAlone'
    BY <2>1 DEF AloneInv, TablesAlone, PauseDated, InvoicesBehind, BilledOnce
  <2> QED
    BY <2>1, <2>2, IdleAlone, AloneBecome
<1> QED
  BY <1>1, <1>2

LEMMA AloneWorld ==
  ASSUME Alone, TypeInv, AloneInv
  PROVE  /\ NextDay => AloneInv'
         /\ \A p \in Procs : Crash(p) => AloneInv'
         /\ UNCHANGED vars => AloneInv'
<1>1. ASSUME runs' = runs, schedules' = schedules PROVE TablesAlone'
  BY <1>1 DEF AloneInv, TablesAlone, PauseDated, InvoicesBehind, BilledOnce, Created
<1>2. ASSUME NextDay PROVE AloneInv'
  <2>1. op' = op /\ runs' = runs /\ schedules' = schedules
    BY <1>2 DEF NextDay
  <2>2. today \in Date /\ ((today'.m = today.m /\ today'.d = today.d + 1) \/ today'.m = today.m + 1)
    BY <1>2 DEF NextDay, TypeInv, TypeOK, Date
  <2>3. \A d \in Date : Leq(d, today) => Leq(d, today')
    BY <2>2 DEF Leq, Date
  <2>4. ASSUME NEW p \in Procs PROVE op[p].at # "idle" => Leq(op[p].day, today')
    <3>1. op[p].at # "idle" => op[p].day \in Date
      BY DEF TypeInv, TypeOK, OpOK, Idle
    <3> QED
      BY <2>3, <3>1 DEF AloneInv, HeldAlone
  <2>5. ASSUME NEW p \in Procs PROVE HeldAlone(op[p])'
    BY <2>1, <2>4 DEF AloneInv, HeldAlone, Active, Created, Unbilled, HasRun
  <2> QED
    BY <1>1, <2>1, <2>5 DEF AloneInv
<1>3. ASSUME NEW p \in Procs, Crash(p) PROVE AloneInv'
  BY <1>1, <1>3, IdleAlone, AloneBecome DEF Crash
<1>4. ASSUME UNCHANGED vars PROVE AloneInv'
  <2>1. \A p \in Procs : HeldAlone(op[p])'
    BY <1>4 DEF vars, AloneInv, HeldAlone, Active, Created, Unbilled, HasRun
  <2> QED
    BY <1>1, <1>4, <2>1 DEF vars, AloneInv
<1> QED
  BY <1>2, <1>3, <1>4

LEMMA AloneStep == Alone /\ TypeInv /\ AloneInv /\ [Next]_vars => AloneInv'
<1> SUFFICES ASSUME Alone, TypeInv, AloneInv, [Next]_vars PROVE AloneInv'
  OBVIOUS
<1>1. CASE NextDay
  BY <1>1, AloneWorld
<1>2. ASSUME NEW p \in Procs, NEW s \in Ids, Operator(p, s) PROVE AloneInv'
  <2>1. ASSUME NEW anchor \in AnchorDays, NEW auto \in Autosends,
               (\E start \in Starts : AddSchedule(p, s, start, anchor, auto)) \/ UpdateSchedule(p, s, anchor, auto)
        PROVE  AloneInv'
    BY <2>1, AloneOneShot
  <2>2. ASSUME PauseSchedule(p, s) \/ SetClientArchived(p, s) PROVE AloneInv'
    BY <2>2, AlonePause
  <2>3. ASSUME StartResume(p, s) PROVE AloneInv'
    BY <2>3, AloneResume
  <2>4. ASSUME NEW how \in Dispositions, StartEnd(p, s, how) PROVE AloneInv'
    BY <2>4, AloneEnd
  <2> QED
    BY <1>2, <2>1, <2>2, <2>3, <2>4 DEF Operator
<1>3. ASSUME NEW p \in Procs, StartRun(p) PROVE AloneInv'
  BY <1>3, AloneRun
<1>4. ASSUME NEW p \in Procs, Continue(p) PROVE AloneInv'
  <2>1. CommitResume(p) => op[p].id \in Ids
    BY HeldTyped DEF CommitResume
  <2>2. DecideEnd(p) \/ FinishEnd(p) => op[p].id \in Ids
    BY HeldTyped DEF DecideEnd, FinishEnd
  <2>3. "bill" \in Dispositions
    BY DEF Dispositions
  <2> QED
    BY <1>4, <2>1, <2>2, <2>3, AloneRun, AloneBill, AloneResume, AloneEnd DEF Continue
<1>5. ASSUME NEW p \in Procs, Crash(p) PROVE AloneInv'
  BY <1>5, AloneWorld
<1>6. CASE UNCHANGED vars
  BY <1>6, AloneWorld
<1> QED
  BY <1>1, <1>2, <1>3, <1>4, <1>5, <1>6 DEF Next

\* While one process at a time works, what it holds is what the tables say.
THEOREM AloneInvariant == Alone /\ Spec => [](TypeInv /\ AloneInv)
<1>1. Alone => [](Alone)
  OBVIOUS
<1> QED
  BY <1>1, TypeInvInit, TypeInvStep, AloneInit, AloneStep, PTL DEF Spec

\* A cycle is invoiced once, whatever anchor days the operator edits the
\* schedule to between a run and the next. (With two
\* processes and an edit between their reads it may be billed on both days.)
THEOREM CyclesBilledOnce == Alone /\ Spec => []BilledOnce
<1>1. AloneInv => BilledOnce
  BY DEF AloneInv, TablesAlone
<1> QED
  BY <1>1, AloneInvariant, PTL

\* What one step adds to the history as invoices is one period, on the walk
\* from the cursor of a schedule that has not ended, due, and not paused away.
LEMMA AloneInvoices ==
  ASSUME Alone, TypeInv, AloneInv, [Next]_vars, NEW s \in Created, NEW q \in NewInvoices(s)
  PROVE  /\ schedules[s].endedAt = None
         /\ ~PauseCovers(schedules[s], q)
         /\ Leq(q, today)
         /\ q \in Date /\ schedules[s].next.m <= q.m
<1>0. PICK r \in runs' \ runs : r.schedule = s /\ r.invoice /\ r.period = q
  BY DEF NewInvoices
<1>1. PICK p \in Procs : CommitResume(p) \/ RunPeriod(p) \/ EndBill(p)
  <2>1. runs' # runs
    BY <1>0
  <2>2. ~NextDay /\ ~UNCHANGED vars
    BY <2>1 DEF NextDay, vars
  <2>3. ASSUME NEW p \in Procs, NEW t \in Ids PROVE ~Operator(p, t)
    BY <2>1 DEF Operator, AddSchedule, UpdateSchedule, PauseSchedule, SetClientArchived, StartResume, StartEnd
  <2>4. ASSUME NEW p \in Procs
        PROVE  ~StartRun(p) /\ ~Crash(p) /\ ~RunRefused(p) /\ ~RunSend(p) /\ ~DecideEnd(p)
                 /\ ~EndBillRefused(p) /\ ~FinishEnd(p)
    BY <2>1 DEF StartRun, Crash, RunRefused, Refuses, RunSend, DecideEnd, EndBillRefused, FinishEnd
  <2> QED
    BY <2>2, <2>3, <2>4 DEF Next, Continue
<1>2. schedules[s] \in Row /\ schedules[s].next \in Date
  BY DEF TypeInv, TypeOK, Created, Row
<1>3. ASSUME NEW day \in Date, Leq(day, today), q \in Walk(schedules[s], day)
      PROVE  Leq(q, today) /\ q \in Date /\ schedules[s].next.m <= q.m
  <2>1. q \in Date /\ schedules[s].next.m <= q.m /\ Leq(q, day)
    BY <1>2, <1>3, WalkType, WalkDistinct DEF Walk
  <2>2. today \in Date
    BY DEF TypeInv, TypeOK
  <2> QED
    BY <1>3, <2>1, <2>2 DEF Leq, Date
<1>4. CASE CommitResume(p)
  BY <1>0, <1>4 DEF CommitResume, SkipRun
<1>5. CASE RunPeriod(p)
  <2>1. PICK t \in Ids : /\ t \in DOMAIN op[p].rows
                         /\ runs' \subseteq runs \cup {InvoiceRun(t, op[p].rows[t].next)}
    BY <1>5 DEF RunPeriod, AlreadySettled, Generates, IsCurrent
  <2>2. r = InvoiceRun(t, op[p].rows[t].next)
    BY <1>0, <2>1
  <2>3. t = s /\ q = op[p].rows[s].next
    BY <1>0, <2>2 DEF InvoiceRun
  <2>4. /\ s \in Active /\ op[p].rows[s] = schedules[s] /\ Leq(schedules[s].next, op[p].day)
        /\ Leq(op[p].day, today) /\ op[p].day \in Date
    BY <1>5, <2>1, <2>3, RunTyped DEF RunPeriod, Running, TypeInv, AloneInv, HeldAlone
  <2>5. schedules[s].endedAt = None /\ ~schedules[s].paused /\ schedules[s].pausedAt = None
    BY <2>4 DEF Active, AloneInv, TablesAlone, PauseDated
  <2>6. q \in Walk(schedules[s], op[p].day)
    BY <2>3, <2>4 DEF Walk
  <2> QED
    BY <1>3, <2>4, <2>5, <2>6 DEF PauseCovers
<1>6. CASE EndBill(p)
  <2>1. PICK x \in op[p].owed : runs' \subseteq runs \cup {InvoiceRun(op[p].id, x)}
    BY <1>6 DEF EndBill, AlreadySettled, Generates
  <2>2. op[p].id = s /\ x = q
    BY <1>0, <2>1 DEF InvoiceRun
  <2>3. /\ schedules[s].endedAt = None /\ q \in Unbilled(s, op[p].day)
        /\ Leq(op[p].day, today) /\ op[p].day \in Date
    BY <1>6, <2>1, <2>2, HeldTyped DEF EndBill, AloneInv, HeldAlone
  <2>4. q \in Walk(schedules[s], op[p].day) /\ ~PauseCovers(schedules[s], q)
    BY <2>3 DEF Unbilled
  <2> QED
    BY <1>3, <2>3, <2>4
<1> QED
  BY <1>1, <1>4, <1>5, <1>6

\* Only what is owed is billed: an ended schedule bills nothing more, a paused
\* one nothing its pause covers, and no cycle is billed before its day.
THEOREM OpenCyclesOnly == Alone /\ Spec => BillsOnlyOpenCycles
<1>1. Alone /\ TypeInv /\ AloneInv /\ [Next]_vars =>
        [\A s \in Created : \A q \in NewInvoices(s) :
           /\ schedules[s].endedAt = None
           /\ ~PauseCovers(schedules[s], q)
           /\ Leq(q, today)]_vars
  BY AloneInvoices
<1>2. Alone => [](Alone)
  OBVIOUS
<1> QED
  BY <1>1, <1>2, AloneInvariant, PTL DEF BillsOnlyOpenCycles, Spec

\* Missed cycles are billed in the order of their dates, and after everything
\* the schedule was billed before.
THEOREM InOrder == Alone /\ Spec => BilledInOrder
<1>1. Alone /\ TypeInv /\ AloneInv /\ [Next]_vars =>
        [\A s \in Created : \A q \in NewInvoices(s) :
           \A r \in runs : (r.schedule = s /\ r.invoice) => Lt(r.period, q)]_vars
  <2> SUFFICES ASSUME Alone, TypeInv, AloneInv, [Next]_vars, NEW s \in Created, NEW q \in NewInvoices(s),
                      NEW r \in runs, r.schedule = s, r.invoice
               PROVE  Lt(r.period, q)
    OBVIOUS
  <2>1. q \in Date /\ schedules[s].next.m <= q.m
    BY AloneInvoices
  <2>2. r.period.m < schedules[s].next.m
    BY DEF AloneInv, TablesAlone, InvoicesBehind
  <2>3. r.period \in Date /\ schedules[s].next \in Date
    BY DEF TypeInv, TypeOK, Run, Created, Row
  <2> QED
    BY <2>1, <2>2, <2>3 DEF Lt, Date
<1>2. Alone => [](Alone)
  OBVIOUS
<1> QED
  BY <1>1, <1>2, AloneInvariant, PTL DEF BilledInOrder, Spec

\* The end of a schedule is written by the step that settled what it owed.
LEMMA AloneEnds ==
  ASSUME Alone, TypeInv, AloneInv, [Next]_vars, NEW s \in Created,
         schedules[s].endedAt = None, schedules'[s].endedAt # None
  PROVE  \E p \in Procs : /\ op[p].at = "finish" /\ op[p].id = s
                          /\ schedules'[s].endedAt = op[p].day
                          /\ writtenOff' = writtenOff \cup {<<s, q>> : q \in op[p].off}
<1>1. schedules[s] \in Row
  BY DEF TypeInv, TypeOK, Created
<1>2. ASSUME NEW t \in Created, NEW new \in Row, schedules' = [schedules EXCEPT ![t] = new],
             new.endedAt = schedules[t].endedAt
      PROVE  FALSE
  BY <1>2, SetRow
<1>3. schedules' # schedules
  OBVIOUS
<1>4. ASSUME NEW t \in Created, NEW row \in Row, NEW q \in Date,
             AlreadySettled(t, row, q) \/ Generates(t, row, q)
      PROVE  FALSE
  <2>1. PICK d \in Date : schedules' = [schedules EXCEPT ![t].next = d]
    <3>1. AdvancePeriod(row.anchor, q) \in Date /\ schedules[t].next \in Date
      BY AdvanceType DEF Row, TypeInv, TypeOK, Created
    <3> QED
      BY <1>4, <3>1 DEF AlreadySettled, Generates
  <2>2. PICK new : new = [schedules[t] EXCEPT !.next = d]
    OBVIOUS
  <2>3. schedules[t] \in Row
    BY DEF TypeInv, TypeOK, Created
  <2>4. new \in Row /\ new.endedAt = schedules[t].endedAt
    BY <2>2, <2>3 DEF Row
  <2>5. schedules' = [schedules EXCEPT ![t] = new]
    BY <2>1, <2>2
  <2> QED
    BY <1>2, <2>4, <2>5
<1>5. ASSUME NEW p \in Procs, NEW t \in Ids, NEW anchor \in AnchorDays, NEW auto \in Autosends,
             NEW start \in Starts, AddSchedule(p, t, start, anchor, auto)
      PROVE  FALSE
  <2>1. s # t
    BY <1>5 DEF AddSchedule
  <2>2. schedules'[s] = schedules[s]
    BY <1>5, <2>1 DEF AddSchedule, TypeInv, TypeOK, Created
  <2> QED
    BY <2>2
<1>6. ASSUME NEW p \in Procs, NEW t \in Ids, NEW anchor \in AnchorDays, NEW auto \in Autosends,
             UpdateSchedule(p, t, anchor, auto)
      PROVE  FALSE
  <2>1. PICK new : new = [schedules[t] EXCEPT !.anchor = anchor, !.autosend = auto]
    OBVIOUS
  <2>2. t \in Created /\ schedules[t] \in Row /\ schedules' = [schedules EXCEPT ![t] = new]
    BY <1>6, <2>1 DEF UpdateSchedule, TypeInv, TypeOK, Created
  <2>3. new \in Row /\ new.endedAt = schedules[t].endedAt
    BY <2>1, <2>2, AutosendAssumption DEF Row
  <2> QED
    BY <1>2, <2>2, <2>3
<1>7. ASSUME NEW p \in Procs, NEW t \in Ids, PauseSchedule(p, t) PROVE FALSE
  <2>1. t \in Created /\ schedules[t] \in Row
    BY <1>7 DEF PauseSchedule, TypeInv, TypeOK, Created
  <2>2. PICK at \in Date \cup {None} : at = IF schedules[t].paused THEN schedules[t].pausedAt ELSE today
    BY <2>1 DEF Row, TypeInv, TypeOK
  <2>3. PICK new : new = [schedules[t] EXCEPT !.pausedAt = at, !.paused = TRUE]
    OBVIOUS
  <2>4. new \in Row /\ new.endedAt = schedules[t].endedAt
    BY <2>1, <2>3 DEF Row
  <2>5. schedules' = [schedules EXCEPT ![t] = new]
    BY <1>7, <2>2, <2>3 DEF PauseSchedule
  <2> QED
    BY <1>2, <2>1, <2>4, <2>5
<1>8. ASSUME NEW p \in Procs, CommitResume(p) PROVE FALSE
  <2>1. PICK t, new : t = op[p].id /\ new = [schedules[t] EXCEPT !.paused = FALSE, !.pausedAt = None]
    OBVIOUS
  <2>2. t \in Created /\ schedules[t] \in Row
    BY <1>8, <2>1, HeldTyped DEF CommitResume, TypeInv, TypeOK, Created
  <2>3. new \in Row /\ new.endedAt = schedules[t].endedAt
    BY <2>1, <2>2 DEF Row
  <2>4. schedules' = [schedules EXCEPT ![t] = new]
    BY <1>8, <2>1 DEF CommitResume
  <2> QED
    BY <1>2, <2>2, <2>3, <2>4
<1>9. ASSUME NEW p \in Procs, RunPeriod(p) PROVE FALSE
  <2>1. PICK t \in DOMAIN op[p].rows : LET row == op[p].rows[t]
                                       IN  AlreadySettled(t, row, row.next) \/ Generates(t, row, row.next)
    BY <1>9 DEF RunPeriod, IsCurrent
  <2>2. t \in Created /\ op[p].rows[t] \in Row /\ op[p].rows[t].next \in Date
    BY <1>9, <2>1, RunTyped DEF RunPeriod, Running, TypeInv, HeldCreated, HeldBy, Row
  <2> QED
    BY <1>4, <2>1, <2>2
<1>10. ASSUME NEW p \in Procs, EndBill(p) PROVE FALSE
  <2>1. PICK q \in op[p].owed : AlreadySettled(op[p].id, op[p].row, q) \/ Generates(op[p].id, op[p].row, q)
    BY <1>10 DEF EndBill
  <2>2. op[p].id \in Created /\ op[p].row \in Row /\ q \in Date
    BY <1>10, <2>1, HeldTyped DEF EndBill
  <2> QED
    BY <1>4, <2>1, <2>2
<1>11. PICK p \in Procs : FinishEnd(p)
  <2>1. ~NextDay /\ ~UNCHANGED vars
    BY <1>3 DEF NextDay, vars
  <2>2. ASSUME NEW p \in Procs, NEW t \in Ids PROVE ~Operator(p, t)
    <3>1. ~SetClientArchived(p, t) /\ ~StartResume(p, t) /\ \A how \in Dispositions : ~StartEnd(p, t, how)
      BY <1>3 DEF SetClientArchived, StartResume, StartEnd
    <3> QED
      BY <1>5, <1>6, <1>7, <3>1 DEF Operator
  <2>3. ASSUME NEW p \in Procs
        PROVE  ~StartRun(p) /\ ~Crash(p) /\ ~RunRefused(p) /\ ~RunSend(p) /\ ~DecideEnd(p) /\ ~EndBillRefused(p)
    BY <1>3 DEF StartRun, Crash, RunRefused, Refuses, RunSend, DecideEnd, EndBillRefused
  <2> QED
    BY <1>8, <1>9, <1>10, <2>1, <2>2, <2>3 DEF Next, Continue
<1>12. PICK t, new : t = op[p].id /\ new = [schedules[t] EXCEPT !.endedAt = op[p].day]
  OBVIOUS
<1>13. t \in Created /\ schedules[t] \in Row /\ op[p].day \in Date
  BY <1>11, <1>12, HeldTyped DEF FinishEnd, TypeInv, TypeOK, Created
<1>14. new \in Row /\ new.endedAt = op[p].day
  BY <1>12, <1>13 DEF Row
<1>15. schedules' = [schedules EXCEPT ![t] = new]
  BY <1>11, <1>12 DEF FinishEnd
<1>16. schedules'[t] = new /\ \A x \in Created \ {t} : schedules'[x] = schedules[x]
  BY <1>13, <1>14, <1>15, SetRow
<1>17. t = s
  BY <1>16
<1>18. op[p].at = "finish" /\ op[p].id = s /\ schedules'[s].endedAt = op[p].day
  BY <1>11, <1>12, <1>14, <1>16, <1>17 DEF FinishEnd
<1>19. writtenOff' = writtenOff \cup {<<s, q>> : q \in op[p].off}
  BY <1>11, <1>18 DEF FinishEnd
<1> QED
  BY <1>18, <1>19

\* Ending a schedule leaves no cycle up to its end date undecided.
THEOREM EndsSettled == Alone /\ Spec => EndSettlesEverything
<1>1. Alone /\ TypeInv /\ AloneInv /\ [Next]_vars =>
        [\A s \in Created :
           (schedules[s].endedAt = None /\ schedules'[s].endedAt # None) =>
              \A q \in Walk(schedules[s], schedules'[s].endedAt) :
                 HasRun(s, q) \/ PauseCovers(schedules[s], q) \/ <<s, q>> \in writtenOff']_vars
  <2> SUFFICES ASSUME Alone, TypeInv, AloneInv, [Next]_vars, NEW s \in Created,
                      schedules[s].endedAt = None, schedules'[s].endedAt # None,
                      NEW q \in Walk(schedules[s], schedules'[s].endedAt),
                      ~HasRun(s, q), ~PauseCovers(schedules[s], q)
               PROVE  <<s, q>> \in writtenOff'
    OBVIOUS
  <2>1. PICK p \in Procs : /\ op[p].at = "finish" /\ op[p].id = s
                           /\ schedules'[s].endedAt = op[p].day
                           /\ writtenOff' = writtenOff \cup {<<s, x>> : x \in op[p].off}
    BY AloneEnds
  <2>2. op[p].off = Unbilled(s, op[p].day)
    BY <2>1 DEF AloneInv, HeldAlone
  <2>3. q \in Unbilled(s, op[p].day)
    BY <2>1 DEF Unbilled
  <2> QED
    BY <2>1, <2>2, <2>3
<1>2. Alone => [](Alone)
  OBVIOUS
<1> QED
  BY <1>1, <1>2, AloneInvariant, PTL DEF EndSettlesEverything, Spec

-----------------------------------------------------------------------------
(* The ledger of cycles is kept by any number of processes, as long as the *)
(* operator edits no anchor: then a month of a schedule has one date, and  *)
(* the history row that guards a period guards its cycle.                  *)

OneAnchor == \A a, b \in AnchorDays : a = b

\* The one date a schedule has in a month: the day it started on, or the
\* anchor's.
Dated(s, d) ==
  /\ first[s].m <= d.m
  /\ d.m = first[s].m => d = first[s]
  /\ d.m > first[s].m => \A a \in AnchorDays : d.d = ClampDay(d.m, a)

OpDated(o) ==
  /\ o.at = "run" => \A s \in DOMAIN o.rows : Dated(s, o.rows[s].next)
  /\ o.at = "resume" => Dated(o.id, o.row.next)
  /\ o.at = "bill" => \A q \in o.owed : Dated(o.id, q)

DatesInv ==
  /\ today.m >= 1
  /\ \A s \in Created : Dated(s, schedules[s].next)
  /\ \A r \in runs : r.schedule \in Created /\ Dated(r.schedule, r.period)
  /\ \A p \in Procs : OpDated(op[p])

LEMMA DatedSame ==
  ASSUME NEW s, NEW d \in Date, NEW e \in Date, Dated(s, d), Dated(s, e), d.m = e.m,
         first[s] \in Date, NEW a \in AnchorDays
  PROVE  d = e
<1>1. d = [m |-> d.m, d |-> d.d] /\ e = [m |-> e.m, d |-> e.d]
  BY DEF Date
<1>2. first[s].m \in Nat /\ d.m \in Nat
  BY DEF Date
<1> QED
  BY <1>1, <1>2 DEF Dated

LEMMA DatedAdvance ==
  ASSUME OneAnchor, NEW s, first[s] \in Date, NEW a \in AnchorDays, NEW d \in Date, Dated(s, d)
  PROVE  Dated(s, AdvancePeriod(a, d))
<1>0. PICK next : next = AdvancePeriod(a, d)
  OBVIOUS
<1>1. next.m = d.m + CycleMonths /\ next.d = ClampDay(next.m, a)
  BY <1>0 DEF AdvancePeriod
<1>2. first[s].m \in Nat /\ d.m \in Nat /\ CycleMonths \in Nat \ {0}
  BY CycleAssumption DEF Date
<1>3. first[s].m < next.m
  BY <1>1, <1>2 DEF Dated
<1>4. \A b \in AnchorDays : next.d = ClampDay(next.m, b)
  BY <1>1 DEF OneAnchor
<1>5. Dated(s, next)
  BY <1>1, <1>2, <1>3, <1>4 DEF Dated
<1> QED
  BY <1>0, <1>5

LEMMA DatedWalk ==
  ASSUME OneAnchor, NEW s, first[s] \in Date, NEW row \in Row, NEW day \in Date,
         Dated(s, row.next), NEW q \in Walk(row, day)
  PROVE  Dated(s, q)
<1>1. q \in Date /\ row.anchor \in AnchorDays /\ row.next \in Date
  BY WalkType DEF Row
<1>2. CASE q = row.next
  BY <1>2
<1>3. CASE q.m > row.next.m /\ q.d = ClampDay(q.m, row.anchor)
  <2>1. \A b \in AnchorDays : q.d = ClampDay(q.m, b)
    BY <1>1, <1>3 DEF OneAnchor
  <2>2. first[s].m \in Nat /\ q.m \in Nat /\ row.next.m \in Nat /\ first[s].m < q.m
    BY <1>1, <1>3 DEF Dated, Date
  <2> QED
    BY <2>1, <2>2 DEF Dated
<1> QED
  BY <1>1, <1>2, <1>3, WalkShape

\* Where a schedule started does not change.
LEMMA OpDatedStays ==
  ASSUME NEW o, HeldBy(o) \subseteq Created, OpDated(o),
         \A s \in Created : first'[s] = first[s]
  PROVE  OpDated(o)'
<1>1. ASSUME NEW s \in Created, NEW d, Dated(s, d) PROVE Dated(s, d)'
  BY <1>1 DEF Dated
<1>2. o.at = "run" => DOMAIN o.rows \subseteq Created
  BY DEF HeldBy
<1>3. o.at \in {"resume", "bill"} => o.id \in Created
  BY DEF HeldBy
<1> QED
  BY <1>1, <1>2, <1>3 DEF OpDated

\* A step that leaves the starts alone, its process in order, and new cursors
\* and history rows on their dates.
LEMMA DatesBecome ==
  ASSUME TypeInv, DatesInv, NEW p \in Procs, NEW o, Become(p, o), OpDated(o)',
         first' = first, today' = today, Created' = Created,
         \A s \in Created : schedules'[s].next = schedules[s].next \/ Dated(s, schedules'[s].next),
         \A r \in runs' : r \in runs \/ (r.schedule \in Created /\ Dated(r.schedule, r.period))
  PROVE  DatesInv'
<1>1. \A s, d : Dated(s, d)' <=> Dated(s, d)
  BY DEF Dated
<1>2. ASSUME NEW q \in Procs PROVE OpDated(op[q])'
  <2>1. CASE q = p
    <3>1. op'[q] = o
      BY <2>1 DEF Become, TypeInv, TypeOK
    <3> QED
      BY <3>1 DEF OpDated
  <2>2. CASE q # p
    <3>1. op'[q] = op[q]
      BY <2>2 DEF Become, TypeInv, TypeOK
    <3>2. OpDated(op[q])
      BY DEF DatesInv
    <3> QED
      BY <1>1, <3>1, <3>2 DEF OpDated
  <2> QED
    BY <2>1, <2>2
<1>3. ASSUME NEW s \in Created' PROVE Dated(s, schedules[s].next)'
  <2>1. Dated(s, schedules'[s].next)
    BY DEF DatesInv
  <2> QED
    BY <2>1 DEF Dated
<1>4. \A r \in runs' : r.schedule \in Created' /\ Dated(r.schedule, r.period)'
  BY <1>1 DEF DatesInv
<1> QED
  BY <1>2, <1>3, <1>4 DEF DatesInv

\* A process that holds no date.
LEMMA NoDates ==
  ASSUME NEW o, o.at \notin {"run", "resume", "bill"}
  PROVE  OpDated(o)'
BY DEF OpDated

LEMMA IdleNoDates == OpDated(Idle)'
BY NoDates DEF Idle

LEMMA RunStateDated ==
  ASSUME NEW day, NEW rows, NEW made, NEW o, o = RunState(day, rows, made), first' = first,
         \A s \in DOMAIN rows : Dated(s, rows[s].next)
  PROVE  OpDated(o)'
<1> DEFINE due == StillDue(rows, day)
<1>1. DOMAIN due \subseteq DOMAIN rows /\ \A s \in DOMAIN due : due[s] = rows[s]
  BY DEF StillDue
<1>2. CASE o = Idle
  BY <1>2, IdleNoDates
<1>3. CASE o = [at |-> "run", day |-> day, rows |-> due, made |-> made]
  <2>1. o.at = "run" /\ o.rows = due
    BY <1>3
  <2> HIDE DEF due
  <2>2. \A s \in DOMAIN o.rows : Dated(s, o.rows[s].next)
    BY <1>1, <2>1
  <2> QED
    BY <2>1, <2>2 DEF OpDated, Dated
<1> QED
  BY <1>2, <1>3, Zenon DEF RunState

\* A period of generate_period is on its date, and so is the next.
LEMMA PeriodDated ==
  ASSUME OneAnchor, TypeInv, DatesInv, NEW s \in Created, first[s] \in Date,
         NEW row \in Row, NEW q \in Date, Dated(s, q),
         AlreadySettled(s, row, q) \/ Generates(s, row, q)
  PROVE  /\ Created' = Created
         /\ \A t \in Created : schedules'[t].next = schedules[t].next \/ Dated(t, schedules'[t].next)
         /\ \A r \in runs' : r \in runs \/ (r.schedule \in Created /\ Dated(r.schedule, r.period))
         /\ Dated(s, AdvancePeriod(row.anchor, q))
<1>1. Created' = Created
  BY PeriodCreated DEF TypeInv
<1>2. Dated(s, AdvancePeriod(row.anchor, q))
  BY DatedAdvance DEF Row
<1>3. \A t \in Created : schedules'[t].next = schedules[t].next \/ Dated(t, schedules'[t].next)
  BY <1>2, PeriodNext
<1>4. \A r \in runs' : r \in runs \/ (r.schedule \in Created /\ Dated(r.schedule, r.period))
  <2>1. InvoiceRun(s, q).schedule = s /\ InvoiceRun(s, q).period = q
    BY DEF InvoiceRun
  <2>2. \A r \in runs' : r \in runs \/ r = InvoiceRun(s, q)
    BY DEF AlreadySettled, Generates
  <2> QED
    BY <2>1, <2>2
<1> QED
  BY <1>1, <1>2, <1>3, <1>4

\* A step that moves no cursor, and no process.
LEMMA DatesQuiet ==
  ASSUME TypeInv, DatesInv, op' = op, runs' = runs, first' = first, Created' = Created,
         today'.m >= 1,
         \A s \in Created : schedules'[s].next = schedules[s].next
  PROVE  DatesInv'
<1>1. \A s, d : Dated(s, d)' <=> Dated(s, d)
  BY DEF Dated
<1>2. ASSUME NEW q \in Procs PROVE OpDated(op[q])'
  BY <1>1 DEF DatesInv, OpDated
<1>3. ASSUME NEW s \in Created' PROVE Dated(s, schedules[s].next)'
  <2>1. Dated(s, schedules'[s].next)
    BY DEF DatesInv
  <2> QED
    BY <2>1 DEF Dated
<1>4. \A r \in runs' : r.schedule \in Created' /\ Dated(r.schedule, r.period)'
  BY <1>1 DEF DatesInv
<1> QED
  BY <1>2, <1>3, <1>4 DEF DatesInv

LEMMA DatesInit == Init => DatesInv
<1> SUFFICES ASSUME Init PROVE DatesInv
  OBVIOUS
<1>1. TypeInv
  BY TypeInvInit
<1>2. ASSUME NEW s \in Created PROVE Dated(s, schedules[s].next)
  <2>1. schedules[s] \in Row /\ s \in Ids
    BY <1>1 DEF TypeInv, TypeOK, Created
  <2>2. first[s] = schedules[s].next /\ first[s] \in Date
    BY <2>1 DEF Init, Row, Created
  <2> QED
    BY <2>2 DEF Dated, Date
<1>3. ASSUME NEW p \in Procs PROVE OpDated(op[p])
  BY DEF Init, OpDated, Idle
<1>4. today.m >= 1 /\ runs = {}
  BY DEF Init
<1> QED
  BY <1>2, <1>3, <1>4 DEF DatesInv

LEMMA DatesOneShot ==
  ASSUME TypeInv, DatesInv, NEW p \in Procs, NEW s \in Ids,
         NEW anchor \in AnchorDays, NEW auto \in Autosends
  PROVE  (\E start \in Starts : AddSchedule(p, s, start, anchor, auto)) \/ UpdateSchedule(p, s, anchor, auto) => DatesInv'
<1>1. ASSUME NEW start \in Starts, AddSchedule(p, s, start, anchor, auto) PROVE DatesInv'
  <2>1. PICK new : /\ new = [anchor |-> anchor, next |-> start, autosend |-> auto,
                             paused |-> FALSE, pausedAt |-> None, endedAt |-> None]
                   /\ schedules' = [schedules EXCEPT ![s] = new]
    BY <1>1 DEF AddSchedule
  <2>2. /\ new.next = start /\ s \notin Created /\ runs' = runs /\ op' = op /\ today' = today
        /\ first' = [first EXCEPT ![s] = start]
    BY <1>1, <2>1 DEF AddSchedule
  <2>3. first'[s] = start /\ \A t \in Created : first'[t] = first[t] /\ t # s
    BY <2>2 DEF TypeInv, TypeOK, Created
  <2>4. \A t \in Created : t \in Created' /\ schedules'[t] = schedules[t]
    BY <2>1, <2>2 DEF TypeInv, TypeOK, Created
  <2>5. Created' \subseteq Created \cup {s} /\ schedules'[s] = new
    BY <2>1 DEF TypeInv, TypeOK, Created
  <2>6. ASSUME NEW t \in Created, NEW d, Dated(t, d) PROVE Dated(t, d)'
    BY <2>3, <2>6 DEF Dated
  <2>7. ASSUME NEW t \in Created' PROVE Dated(t, schedules[t].next)'
    <3>1. CASE t = s
      <4>1. schedules'[t].next = first'[t] /\ first'[t].m \in Nat
        BY <2>2, <2>3, <2>5, <3>1, StartsType DEF Date
      <4> QED
        BY <4>1 DEF Dated
    <3>2. CASE t \in Created
      BY <2>4, <2>6, <3>2 DEF DatesInv, Dated
    <3> QED
      BY <2>5, <3>1, <3>2
  <2>8. ASSUME NEW q \in Procs PROVE OpDated(op[q])'
    <3>1. HeldBy(op[q]) \subseteq Created /\ OpDated(op[q])
      BY DEF TypeInv, HeldCreated, DatesInv
    <3>2. \A x : (HeldBy(x) \subseteq Created /\ OpDated(x)) => OpDated(x)'
      BY <2>3, OpDatedStays
    <3> QED
      BY <2>2, <3>1, <3>2 DEF OpDated
  <2>9. \A r \in runs' : r.schedule \in Created' /\ Dated(r.schedule, r.period)'
    BY <2>2, <2>4, <2>6 DEF DatesInv
  <2> QED
    BY <2>2, <2>7, <2>8, <2>9 DEF DatesInv
<1>2. ASSUME UpdateSchedule(p, s, anchor, auto) PROVE DatesInv'
  <2>1. PICK new : new = [schedules[s] EXCEPT !.anchor = anchor, !.autosend = auto]
    OBVIOUS
  <2>2. /\ s \in Created /\ schedules[s] \in Row /\ schedules' = [schedules EXCEPT ![s] = new]
        /\ op' = op /\ runs' = runs /\ first' = first /\ today'.m >= 1
    BY <1>2, <2>1 DEF UpdateSchedule, TypeInv, TypeOK, Created, DatesInv
  <2>3. new \in Row /\ new.next = schedules[s].next
    BY <2>1, <2>2, AutosendAssumption DEF Row
  <2>4. Created' = Created /\ schedules'[s] = new /\ \A t \in Created \ {s} : schedules'[t] = schedules[t]
    BY <2>2, <2>3, SetRow
  <2> QED
    BY <2>2, <2>3, <2>4, DatesQuiet
<1> QED
  BY <1>1, <1>2

LEMMA DatesPause ==
  ASSUME TypeInv, DatesInv, NEW p \in Procs, NEW s \in Ids
  PROVE  PauseSchedule(p, s) \/ SetClientArchived(p, s) => DatesInv'
<1>1. ASSUME PauseSchedule(p, s) PROVE DatesInv'
  <2>1. s \in Created /\ schedules[s] \in Row
    BY <1>1 DEF PauseSchedule, TypeInv, TypeOK, Created
  <2>2. PICK at \in Date \cup {None} : at = IF schedules[s].paused THEN schedules[s].pausedAt ELSE today
    BY <2>1 DEF Row, TypeInv, TypeOK
  <2>3. PICK new : new = [schedules[s] EXCEPT !.pausedAt = at, !.paused = TRUE]
    OBVIOUS
  <2>4. new \in Row /\ new.next = schedules[s].next
    BY <2>1, <2>3 DEF Row
  <2>5. /\ schedules' = [schedules EXCEPT ![s] = new]
        /\ op' = op /\ runs' = runs /\ first' = first /\ today'.m >= 1
    BY <1>1, <2>2, <2>3 DEF PauseSchedule, DatesInv
  <2>6. Created' = Created /\ schedules'[s] = new /\ \A t \in Created \ {s} : schedules'[t] = schedules[t]
    BY <2>1, <2>4, <2>5, SetRow
  <2> QED
    BY <2>4, <2>5, <2>6, DatesQuiet
<1>2. ASSUME SetClientArchived(p, s) PROVE DatesInv'
  BY <1>2, DatesQuiet DEF SetClientArchived, Created, DatesInv
<1> QED
  BY <1>1, <1>2

LEMMA DatesRun ==
  ASSUME OneAnchor, TypeInv, CycleInv, DatesInv, NEW p \in Procs
  PROVE  StartRun(p) \/ RunPeriod(p) \/ RunRefused(p) \/ RunSend(p) => DatesInv'
<1>0. ASSUME Running(p)
      PROVE  /\ DOMAIN op[p].rows \subseteq Created
             /\ op[p].rows \in [DOMAIN op[p].rows -> Row]
             /\ \A s \in DOMAIN op[p].rows : Dated(s, op[p].rows[s].next)
  BY <1>0, RunTyped DEF Running, TypeInv, HeldCreated, HeldBy, DatesInv, OpDated
<1>1. ASSUME StartRun(p) PROVE DatesInv'
  <2>1. PICK rows, o : rows = [s \in Active |-> schedules[s]] /\ o = RunState(today, rows, <<>>)
    OBVIOUS
  <2>2. /\ Become(p, o) /\ runs' = runs /\ schedules' = schedules /\ first' = first /\ today' = today
        /\ Created' = Created
    BY <1>1, <2>1 DEF StartRun, Created
  <2>3. \A s \in DOMAIN rows : Dated(s, rows[s].next)
    BY <2>1 DEF Active, DatesInv
  <2>4. OpDated(o)'
    BY <2>1, <2>2, <2>3, RunStateDated
  <2> QED
    BY <2>2, <2>4, DatesBecome
<1>2. ASSUME RunPeriod(p) PROVE DatesInv'
  <2>1. PICK s \in Ids :
          LET row == op[p].rows[s]
              walked == [op[p].rows EXCEPT ![s].next = AdvancePeriod(row.anchor, row.next)]
          IN  /\ IsCurrent(s, op[p].rows)
              /\ AlreadySettled(s, row, row.next) \/ Generates(s, row, row.next)
              /\ \E made : Become(p, RunState(op[p].day, walked, made))
    BY <1>2 DEF RunPeriod
  <2>2. PICK rows, row, next, new, walked :
          /\ rows = op[p].rows /\ row = rows[s]
          /\ next = AdvancePeriod(row.anchor, row.next)
          /\ new = [row EXCEPT !.next = next]
          /\ walked = [rows EXCEPT ![s] = new]
    OBVIOUS
  <2>3. PICK made, o : o = RunState(op[p].day, walked, made) /\ Become(p, o)
    BY <2>1, <2>2
  <2>4. s \in DOMAIN rows /\ s \in Created /\ row \in Row /\ row.next \in Date /\ Dated(s, row.next)
    BY <1>0, <1>2, <2>1, <2>2 DEF IsCurrent, RunPeriod, Row
  <2>5. first[s] \in Date /\ first' = first /\ today' = today
    BY <1>2, <2>4 DEF CycleInv, RunPeriod
  <2>6. AlreadySettled(s, row, row.next) \/ Generates(s, row, row.next)
    BY <2>1, <2>2
  <2>7. /\ Created' = Created
        /\ \A t \in Created : schedules'[t].next = schedules[t].next \/ Dated(t, schedules'[t].next)
        /\ \A r \in runs' : r \in runs \/ (r.schedule \in Created /\ Dated(r.schedule, r.period))
        /\ Dated(s, next)
    BY <2>2, <2>4, <2>5, <2>6, PeriodDated
  <2>8. DOMAIN walked = DOMAIN rows /\ walked[s].next = next /\ \A t \in DOMAIN rows \ {s} : walked[t] = rows[t]
    <3>1. new.next = next
      BY <2>2, <2>4 DEF Row
    <3> QED
      BY <2>2, <2>4, <3>1
  <2>9. \A t \in DOMAIN walked : Dated(t, walked[t].next)
    BY <1>0, <1>2, <2>2, <2>7, <2>8 DEF RunPeriod
  <2>10. OpDated(o)'
    BY <2>3, <2>5, <2>9, RunStateDated
  <2> QED
    BY <2>3, <2>5, <2>7, <2>10, DatesBecome
<1>3. ASSUME RunRefused(p) PROVE DatesInv'
  <2>1. PICK s \in Ids :
          LET others == [t \in DOMAIN op[p].rows \ {s} |-> op[p].rows[t]]
          IN  Become(p, RunState(op[p].day, others, op[p].made)) /\ UNCHANGED <<runs, schedules>>
    BY <1>3 DEF RunRefused, Refuses
  <2>2. PICK others, o : /\ others = [t \in DOMAIN op[p].rows \ {s} |-> op[p].rows[t]]
                         /\ o = RunState(op[p].day, others, op[p].made)
                         /\ Become(p, o)
    BY <2>1
  <2>3. /\ runs' = runs /\ schedules' = schedules /\ first' = first /\ today' = today
        /\ Created' = Created
    BY <1>3, <2>1 DEF RunRefused, Created
  <2>4. \A t \in DOMAIN others : Dated(t, others[t].next)
    BY <1>0, <1>3, <2>2 DEF RunRefused
  <2>5. OpDated(o)'
    BY <2>2, <2>3, <2>4, RunStateDated
  <2> QED
    BY <2>2, <2>3, <2>5, DatesBecome
<1>4. ASSUME RunSend(p) PROVE DatesInv'
  <2>1. PICK o : o = RunState(op[p].day, op[p].rows, Tail(op[p].made)) /\ Become(p, o)
    BY <1>4 DEF RunSend
  <2>2. /\ runs' = runs /\ schedules' = schedules /\ first' = first /\ today' = today
        /\ Created' = Created /\ DOMAIN op[p].rows = {}
    BY <1>4 DEF RunSend, Created
  <2>3. OpDated(o)'
    BY <2>1, <2>2, RunStateDated
  <2> QED
    BY <2>1, <2>2, <2>3, DatesBecome
<1> QED
  BY <1>1, <1>2, <1>3, <1>4

LEMMA DatesResume ==
  ASSUME OneAnchor, TypeInv, CycleInv, DatesInv, NEW p \in Procs, NEW s \in Ids
  PROVE  StartResume(p, s) \/ CommitResume(p) => DatesInv'
<1>1. ASSUME StartResume(p, s) PROVE DatesInv'
  <2>1. PICK o : o = [at |-> "resume", id |-> s, day |-> today, row |-> schedules[s]] /\ Become(p, o)
    BY <1>1 DEF StartResume
  <2>2. /\ runs' = runs /\ schedules' = schedules /\ today' = today /\ first' = first
        /\ Created' = Created /\ s \in Created
    BY <1>1 DEF StartResume, Created
  <2>3. Dated(o.id, o.row.next)
    BY <2>1, <2>2 DEF DatesInv
  <2>4. OpDated(o)'
    BY <2>1, <2>2, <2>3 DEF OpDated, Dated
  <2> QED
    BY <2>1, <2>2, <2>4, DatesBecome
<1>2. ASSUME CommitResume(p) PROVE DatesInv'
  <2>1. PICK t, new : t = op[p].id /\ new = [schedules[t] EXCEPT !.paused = FALSE, !.pausedAt = None]
    OBVIOUS
  <2>2. /\ t \in Created /\ schedules[t] \in Row /\ first[t] \in Date
        /\ op[p].row \in Row /\ op[p].day \in Date
    BY <1>2, <2>1, HeldTyped DEF CommitResume, TypeInv, TypeOK, Created, CycleInv
  <2>3. new \in Row /\ new.next = schedules[t].next
    BY <2>1, <2>2 DEF Row
  <2>4. schedules' = [schedules EXCEPT ![t] = new] /\ first' = first /\ today' = today
    BY <1>2, <2>1 DEF CommitResume
  <2>5. Created' = Created /\ schedules'[t] = new /\ \A x \in Created \ {t} : schedules'[x] = schedules[x]
    BY <2>2, <2>3, <2>4, SetRow
  <2>6. Dated(t, op[p].row.next)
    BY <1>2, <2>1 DEF CommitResume, DatesInv, OpDated
  <2>7. ASSUME NEW r \in runs', r \notin runs PROVE r.schedule \in Created /\ Dated(r.schedule, r.period)
    <3>1. PICK q \in Forgiven(op[p].row, op[p].day) : r = SkipRun(t, q)
      BY <1>2, <2>1, <2>7 DEF CommitResume
    <3>2. q \in Walk(op[p].row, op[p].day)
      BY DEF Forgiven
    <3>3. Dated(t, q)
      BY <2>2, <2>6, <3>2, DatedWalk
    <3> QED
      BY <2>2, <3>1, <3>3 DEF SkipRun
  <2>8. Become(p, Idle)
    BY <1>2 DEF CommitResume
  <2> QED
    BY <2>3, <2>4, <2>5, <2>7, <2>8, IdleNoDates, DatesBecome
<1> QED
  BY <1>1, <1>2

LEMMA DatesEnd ==
  ASSUME OneAnchor, TypeInv, CycleInv, DatesInv, NEW p \in Procs, NEW s \in Ids, NEW how \in Dispositions
  PROVE  StartEnd(p, s, how) \/ DecideEnd(p) \/ FinishEnd(p) => DatesInv'
<1>1. ASSUME StartEnd(p, s, how) PROVE DatesInv'
  <2>1. PICK o : o.at = "end" /\ Become(p, o)
    BY <1>1 DEF StartEnd
  <2>2. runs' = runs /\ schedules' = schedules /\ first' = first /\ today' = today /\ Created' = Created
    BY <1>1 DEF StartEnd, Created
  <2>3. OpDated(o)'
    BY <2>1, NoDates
  <2> QED
    BY <2>1, <2>2, <2>3, DatesBecome
<1>2. ASSUME DecideEnd(p) PROVE DatesInv'
  <2>1. PICK t, owed : t = op[p].id /\ owed = Unbilled(t, op[p].day)
    OBVIOUS
  <2>2. t \in Created /\ op[p].day \in Date /\ first[t] \in Date /\ schedules[t] \in Row
    BY <1>2, <2>1, HeldTyped DEF DecideEnd, CycleInv, TypeInv, TypeOK, Created
  <2>3. runs' = runs /\ schedules' = schedules /\ first' = first /\ today' = today /\ Created' = Created
    BY <1>2 DEF DecideEnd, Created
  <2>4. PICK o : /\ Become(p, o)
                 /\ o.at \in {"idle", "finish"} \/ (o.at = "bill" /\ o.id = t /\ o.owed = owed)
    BY <1>2, <2>1 DEF DecideEnd, Idle, FinishState
  <2>5. OpDated(o)'
    <3>1. CASE o.at \in {"idle", "finish"}
      BY <3>1, NoDates
    <3>2. CASE o.at = "bill" /\ o.id = t /\ o.owed = owed
      <4>1. owed \subseteq Walk(schedules[t], op[p].day)
        BY <2>1 DEF Unbilled
      <4>2. Dated(t, schedules[t].next)
        BY <2>2 DEF DatesInv
      <4>3. \A q \in owed : Dated(t, q)
        BY <2>2, <4>1, <4>2, DatedWalk
      <4> QED
        BY <2>3, <3>2, <4>3 DEF OpDated, Dated
    <3> QED
      BY <2>4, <3>1, <3>2
  <2> QED
    BY <2>3, <2>4, <2>5, DatesBecome
<1>3. ASSUME FinishEnd(p) PROVE DatesInv'
  <2>1. PICK t, new : t = op[p].id /\ new = [schedules[t] EXCEPT !.endedAt = op[p].day]
    OBVIOUS
  <2>2. t \in Created /\ schedules[t] \in Row /\ op[p].day \in Date
    BY <1>3, <2>1, HeldTyped DEF FinishEnd, TypeInv, TypeOK, Created
  <2>3. new \in Row /\ new.next = schedules[t].next
    BY <2>1, <2>2 DEF Row
  <2>4. schedules' = [schedules EXCEPT ![t] = new] /\ first' = first /\ today' = today /\ runs' = runs /\ Become(p, Idle)
    BY <1>3, <2>1 DEF FinishEnd
  <2>5. Created' = Created /\ schedules'[t] = new /\ \A x \in Created \ {t} : schedules'[x] = schedules[x]
    BY <2>2, <2>3, <2>4, SetRow
  <2> QED
    BY <2>3, <2>4, <2>5, IdleNoDates, DatesBecome
<1> QED
  BY <1>1, <1>2, <1>3

LEMMA DatesBill ==
  ASSUME OneAnchor, TypeInv, CycleInv, DatesInv, NEW p \in Procs
  PROVE  EndBill(p) \/ EndBillRefused(p) => DatesInv'
<1>1. ASSUME EndBill(p) PROVE DatesInv'
  <2>1. PICK t, row, owed : t = op[p].id /\ row = op[p].row /\ owed = op[p].owed
    OBVIOUS
  <2>2. PICK q \in owed :
          /\ AlreadySettled(t, row, q) \/ Generates(t, row, q)
          /\ IF owed \ {q} = {}
             THEN Become(p, FinishState(t, op[p].day, {}))
             ELSE op' = [op EXCEPT ![p].owed = owed \ {q}]
    BY <1>1, <2>1 DEF EndBill
  <2>3. /\ t \in Created /\ row \in Row /\ owed \subseteq Date /\ q \in Date
        /\ first' = first /\ today' = today /\ first[t] \in Date
    BY <1>1, <2>1, HeldTyped DEF EndBill, CycleInv
  <2>4. \A x \in owed : Dated(t, x)
    BY <1>1, <2>1 DEF EndBill, DatesInv, OpDated
  <2>5. /\ Created' = Created
        /\ \A x \in Created : schedules'[x].next = schedules[x].next \/ Dated(x, schedules'[x].next)
        /\ \A r \in runs' : r \in runs \/ (r.schedule \in Created /\ Dated(r.schedule, r.period))
    BY <2>2, <2>3, <2>4, PeriodDated
  <2>6. CASE owed \ {q} = {}
    <3>1. PICK o : o.at = "finish" /\ Become(p, o)
      BY <2>2, <2>6 DEF FinishState
    <3>2. OpDated(o)'
      BY <3>1, NoDates
    <3> QED
      BY <2>3, <2>5, <3>1, <3>2, DatesBecome
  <2>7. CASE owed \ {q} # {}
    <3>1. PICK o : o = [op[p] EXCEPT !.owed = owed \ {q}]
      OBVIOUS
    <3>2. Become(p, o)
      BY <2>2, <2>7, <3>1 DEF Become
    <3>3. o.at = "bill" /\ o.id = t /\ o.owed = owed \ {q}
      <4>1. op[p] \in [at : {"bill"}, id : Ids, day : Date, row : Row, owed : SUBSET Date]
        <5>1. OpOK(op[p]) /\ op[p].at = "bill"
          BY <1>1 DEF EndBill, TypeInv, TypeOK
        <5> QED
          BY <5>1 DEF OpOK, Idle
      <4> QED
        BY <2>1, <3>1, <4>1
    <3>4. OpDated(o)'
      BY <2>3, <2>4, <3>3 DEF OpDated, Dated
    <3> QED
      BY <2>3, <2>5, <3>2, <3>4, DatesBecome
  <2> QED
    BY <2>6, <2>7
<1>2. ASSUME EndBillRefused(p) PROVE DatesInv'
  <2>1. /\ Become(p, Idle) /\ first' = first /\ today' = today
        /\ runs' = runs /\ schedules' = schedules /\ Created' = Created
    BY <1>2 DEF EndBillRefused, Refuses, Created
  <2> QED
    BY <2>1, IdleNoDates, DatesBecome
<1> QED
  BY <1>1, <1>2

LEMMA DatesStep ==
  ASSUME OneAnchor, TypeInv, CycleInv, DatesInv, [Next]_vars
  PROVE  DatesInv'
<1>1. CASE NextDay
  <2>1. /\ op' = op /\ runs' = runs /\ first' = first /\ schedules' = schedules
        /\ today'.m = today.m \/ today'.m = today.m + 1
    BY <1>1 DEF NextDay, TypeInv, TypeOK, Date
  <2>2. today'.m >= 1 /\ Created' = Created
    BY <2>1 DEF DatesInv, TypeInv, TypeOK, Date, Created
  <2> QED
    BY <2>1, <2>2, DatesQuiet
<1>2. ASSUME NEW p \in Procs, NEW s \in Ids, Operator(p, s) PROVE DatesInv'
  <2>1. ASSUME NEW anchor \in AnchorDays, NEW auto \in Autosends,
               (\E start \in Starts : AddSchedule(p, s, start, anchor, auto)) \/ UpdateSchedule(p, s, anchor, auto)
        PROVE  DatesInv'
    BY <2>1, DatesOneShot
  <2>2. ASSUME PauseSchedule(p, s) \/ SetClientArchived(p, s) PROVE DatesInv'
    BY <2>2, DatesPause
  <2>3. ASSUME StartResume(p, s) PROVE DatesInv'
    BY <2>3, DatesResume
  <2>4. ASSUME NEW how \in Dispositions, StartEnd(p, s, how) PROVE DatesInv'
    BY <2>4, DatesEnd
  <2> QED
    BY <1>2, <2>1, <2>2, <2>3, <2>4 DEF Operator
<1>3. ASSUME NEW p \in Procs, StartRun(p) PROVE DatesInv'
  BY <1>3, DatesRun
<1>4. ASSUME NEW p \in Procs, Continue(p) PROVE DatesInv'
  <2>1. CommitResume(p) => op[p].id \in Ids
    BY HeldTyped DEF CommitResume
  <2>2. DecideEnd(p) \/ FinishEnd(p) => op[p].id \in Ids
    BY HeldTyped DEF DecideEnd, FinishEnd
  <2>3. "bill" \in Dispositions
    BY DEF Dispositions
  <2> QED
    BY <1>4, <2>1, <2>2, <2>3, DatesRun, DatesBill, DatesResume, DatesEnd DEF Continue
<1>5. ASSUME NEW p \in Procs, Crash(p) PROVE DatesInv'
  BY <1>5, IdleNoDates, DatesBecome DEF Crash, Created
<1>6. CASE UNCHANGED vars
  BY <1>6, DatesQuiet DEF vars, Created, DatesInv
<1> QED
  BY <1>1, <1>2, <1>3, <1>4, <1>5, <1>6 DEF Next

-----------------------------------------------------------------------------
(* The queues of invoices the runs still mean to send.                     *)

Made(o) == IF o.at = "run" THEN o.made ELSE <<>>

\* An invoice is queued after it was made, in one place of one run's queue.
QueueInv ==
  /\ \A p \in Procs : \A i \in DOMAIN Made(op[p]) :
        InvoiceRun(Made(op[p])[i][1], Made(op[p])[i][2]) \in runs
  /\ \A p, q \in Procs : \A i \in DOMAIN Made(op[p]), j \in DOMAIN Made(op[q]) :
        Made(op[p])[i] = Made(op[q])[j] => p = q /\ i = j

LEMMA QueuedOnce ==
  ASSUME QueueInv, NEW p \in Procs, NEW q \in Procs,
         NEW i \in DOMAIN Made(op[p]), NEW j \in DOMAIN Made(op[q]),
         Made(op[p])[i] = Made(op[q])[j]
  PROVE  p = q /\ i = j
BY Zenon DEF QueueInv

LEMMA QueuedMade ==
  /\ \A x : x \in Queued <=> \E p \in Procs : \E i \in DOMAIN Made(op[p]) : x = Made(op[p])[i]
  /\ \A x : x \in Queued' <=> \E p \in Procs : \E i \in DOMAIN Made(op'[p]) : x = Made(op'[p])[i]
<1>1. ASSUME NEW o
      PROVE  /\ o.at = "run" => Made(o) = o.made
             /\ o.at # "run" => DOMAIN Made(o) = {}
  BY DEF Made
<1>2. ASSUME NEW x, x \in Queued PROVE \E p \in Procs : \E i \in DOMAIN Made(op[p]) : x = Made(op[p])[i]
  BY <1>2 DEF Queued, Running, Made
<1>3. ASSUME NEW x, NEW p \in Procs, NEW i \in DOMAIN Made(op[p]), x = Made(op[p])[i] PROVE x \in Queued
  <2>1. op[p].at = "run" /\ Made(op[p]) = op[p].made
    BY <1>1, <1>3
  <2>2. x \in {op[p].made[k] : k \in DOMAIN op[p].made}
    BY <1>3, <2>1
  <2> QED
    BY <2>1, <2>2 DEF Queued, Running
<1>4. ASSUME NEW x, x \in Queued' PROVE \E p \in Procs : \E i \in DOMAIN Made(op'[p]) : x = Made(op'[p])[i]
  BY <1>4 DEF Queued, Running, Made
<1>5. ASSUME NEW x, NEW p \in Procs, NEW i \in DOMAIN Made(op'[p]), x = Made(op'[p])[i] PROVE x \in Queued'
  <2>1. op'[p].at = "run" /\ Made(op'[p]) = op'[p].made
    BY <1>1, <1>5
  <2>2. x \in {op'[p].made[k] : k \in DOMAIN op'[p].made}
    BY <1>5, <2>1
  <2> QED
    BY <2>1, <2>2 DEF Queued, Running
<1> QED
  BY <1>2, <1>3, <1>4, <1>5

LEMMA MadeTyped == \A p \in Procs : TypeInv => Made(op[p]) \in Seq(Ids \X Date)
<1> SUFFICES ASSUME NEW p \in Procs, TypeInv PROVE Made(op[p]) \in Seq(Ids \X Date)
  OBVIOUS
<1>1. CASE op[p].at = "run"
  BY <1>1, RunTyped DEF Running, Made, TypeInv
<1>2. CASE op[p].at # "run"
  BY <1>2 DEF Made
<1> QED
  BY <1>1, <1>2

LEMMA MadeRunState ==
  ASSUME NEW day, NEW rows, NEW made
  PROVE  Made(RunState(day, rows, made)) = made
<1> DEFINE due == StillDue(rows, day)
<1>1. CASE RunState(day, rows, made) = Idle /\ made = <<>>
  BY <1>1 DEF Made, Idle
<1>2. CASE RunState(day, rows, made) = [at |-> "run", day |-> day, rows |-> due, made |-> made]
  <2> HIDE DEF due
  <2> QED
    BY <1>2 DEF Made
<1> QED
  BY <1>1, <1>2, Zenon DEF RunState

\* No queue moves.
LEMMA QueueSame ==
  ASSUME QueueInv, runs \subseteq runs', \A p \in Procs : Made(op'[p]) = Made(op[p])
  PROVE  QueueInv' /\ Queued' = Queued
<1>1. QueueInv'
  BY DEF QueueInv
<1>2. Queued' = Queued
  BY QueuedMade
<1> QED
  BY <1>1, <1>2

LEMMA QueueBecome ==
  ASSUME TypeInv, QueueInv, NEW p \in Procs, NEW o, Become(p, o), runs \subseteq runs',
         Made(o) = Made(op[p])
  PROVE  QueueInv' /\ Queued' = Queued
<1>1. \A q \in Procs : Made(op'[q]) = Made(op[q])
  BY DEF Become, TypeInv, TypeOK
<1> QED
  BY <1>1, QueueSame

\* What a killed run had queued is forgotten.
LEMMA QueueDrops ==
  ASSUME TypeInv, QueueInv, NEW p \in Procs, NEW o, Become(p, o), runs' = runs,
         Made(o) = <<>>
  PROVE  QueueInv' /\ Queued' \subseteq Queued
<1>1. \A q \in Procs : op'[q] = IF q = p THEN o ELSE op[q]
  BY DEF Become, TypeInv, TypeOK
<1>2. DOMAIN Made(o) = {}
  OBVIOUS
<1>3. \A q \in Procs : \A i \in DOMAIN Made(op'[q]) : q # p /\ op'[q] = op[q]
  BY <1>1, <1>2
<1>4. QueueInv'
  <2>1. ASSUME NEW q \in Procs, NEW i \in DOMAIN Made(op'[q])
        PROVE  InvoiceRun(Made(op'[q])[i][1], Made(op'[q])[i][2]) \in runs'
    BY <1>3 DEF QueueInv
  <2>2. ASSUME NEW q \in Procs, NEW x \in Procs, NEW i \in DOMAIN Made(op'[q]), NEW j \in DOMAIN Made(op'[x]),
               Made(op'[q])[i] = Made(op'[x])[j]
        PROVE  q = x /\ i = j
    <3>1. op'[q] = op[q] /\ op'[x] = op[x]
      BY <1>3
    <3>2. i \in DOMAIN Made(op[q]) /\ j \in DOMAIN Made(op[x]) /\ Made(op[q])[i] = Made(op[x])[j]
      BY <2>2, <3>1
    <3> QED
      BY <3>2, QueuedOnce, SMTT(40)
  <2> QED
    BY <2>1, <2>2 DEF QueueInv
<1>5. Queued' \subseteq Queued
  BY <1>3, QueuedMade
<1> QED
  BY <1>4, <1>5

\* The first invoice of a queue leaves it, and every queue.
LEMMA QueueTail ==
  ASSUME TypeInv, QueueInv, NEW p \in Procs, NEW o, Become(p, o), runs' = runs,
         Made(op[p]) # <<>>, Made(o) = Tail(Made(op[p]))
  PROVE  /\ QueueInv'
         /\ Head(Made(op[p])) \in Queued
         /\ Queued' = Queued \ {Head(Made(op[p]))}
<1>1. \A q \in Procs : op'[q] = IF q = p THEN o ELSE op[q]
  BY DEF Become, TypeInv, TypeOK
<1>2. Made(op[p]) \in Seq(Ids \X Date)
  BY MadeTyped
<1>3. PICK made : made = Made(op[p])
  OBVIOUS
<1>4. /\ \A i \in DOMAIN Made(o) : i + 1 \in DOMAIN made /\ Made(o)[i] = made[i + 1] /\ i + 1 # 1
      /\ \A i \in DOMAIN made : i # 1 => i - 1 \in DOMAIN Made(o) /\ Made(o)[i - 1] = made[i]
      /\ 1 \in DOMAIN made /\ Head(made) = made[1]
      /\ \A i, j \in DOMAIN Made(o) : i + 1 = j + 1 => i = j
  BY <1>2, <1>3
<1>5. ASSUME NEW q \in Procs, NEW i \in DOMAIN Made(op'[q])
      PROVE  \E k \in DOMAIN Made(op[q]) : /\ Made(op'[q])[i] = Made(op[q])[k]
                                          /\ k = IF q = p THEN i + 1 ELSE i
  BY <1>1, <1>3, <1>4
<1>6. QueueInv'
  <2>1. ASSUME NEW q \in Procs, NEW i \in DOMAIN Made(op'[q])
        PROVE  InvoiceRun(Made(op'[q])[i][1], Made(op'[q])[i][2]) \in runs'
    <3>1. PICK k \in DOMAIN Made(op[q]) : Made(op'[q])[i] = Made(op[q])[k]
      BY <1>5
    <3> QED
      BY <3>1 DEF QueueInv
  <2>2. ASSUME NEW q \in Procs, NEW x \in Procs, NEW i \in DOMAIN Made(op'[q]), NEW j \in DOMAIN Made(op'[x]),
               Made(op'[q])[i] = Made(op'[x])[j]
        PROVE  q = x /\ i = j
    <3>1. PICK k \in DOMAIN Made(op[q]) : Made(op'[q])[i] = Made(op[q])[k] /\ k = IF q = p THEN i + 1 ELSE i
      BY <1>5
    <3>2. PICK l \in DOMAIN Made(op[x]) : Made(op'[x])[j] = Made(op[x])[l] /\ l = IF x = p THEN j + 1 ELSE j
      BY <1>5
    <3>3. q = x /\ k = l
      <4>1. Made(op[q])[k] = Made(op[x])[l]
        BY <2>2, <3>1, <3>2
      <4> QED
        BY <4>1, QueuedOnce
    <3>4. CASE q = p
      BY <1>1, <1>4, <3>1, <3>2, <3>3, <3>4
    <3>5. CASE q # p
      BY <3>1, <3>2, <3>3, <3>5
    <3> QED
      BY <3>3, <3>4, <3>5
  <2> QED
    BY <2>1, <2>2 DEF QueueInv
<1>7. Head(made) \in Queued
  BY <1>3, <1>4, QueuedMade
<1>8. ASSUME NEW x PROVE x \in Queued' <=> x \in Queued /\ x # Head(made)
  <2>1. ASSUME x \in Queued' PROVE x \in Queued /\ x # Head(made)
    <3>1. PICK q, i : q \in Procs /\ i \in DOMAIN Made(op'[q]) /\ x = Made(op'[q])[i]
      BY <2>1, QueuedMade
    <3>2. PICK k \in DOMAIN Made(op[q]) : x = Made(op[q])[k] /\ k = IF q = p THEN i + 1 ELSE i
      BY <1>5, <3>1
    <3>3. ASSUME x = made[1] PROVE q = p /\ k = 1
      <4>1. Made(op[q])[k] = Made(op[p])[1] /\ 1 \in DOMAIN Made(op[p]) /\ q \in Procs
        BY <1>3, <1>4, <3>1, <3>2, <3>3
      <4> QED
        BY <3>2, <4>1, QueuedOnce
    <3>4. q = p => k # 1
      BY <1>1, <1>4, <3>1, <3>2
    <3>5. x # Head(made)
      BY <1>4, <3>3, <3>4
    <3> QED
      BY <3>1, <3>2, <3>5, QueuedMade
  <2>2. ASSUME x \in Queued, x # Head(made) PROVE x \in Queued'
    <3>1. PICK q, i : q \in Procs /\ i \in DOMAIN Made(op[q]) /\ x = Made(op[q])[i]
      BY <2>2, QueuedMade
    <3>2. CASE q = p
      <4>1. i \in DOMAIN made /\ i # 1
        BY <1>3, <1>4, <2>2, <3>1, <3>2
      <4>2. i - 1 \in DOMAIN Made(op'[p]) /\ x = Made(op'[p])[i - 1]
        BY <1>1, <1>3, <1>4, <3>1, <3>2, <4>1
      <4> QED
        BY <4>2, QueuedMade
    <3>3. CASE q # p
      BY <1>1, <3>1, <3>3, QueuedMade
    <3> QED
      BY <3>2, <3>3
  <2> QED
    BY <2>1, <2>2
<1> QED
  BY <1>3, <1>6, <1>7, <1>8

\* An invoice made now is in no queue yet.
LEMMA QueueAppend ==
  ASSUME TypeInv, QueueInv, NEW p \in Procs, NEW o, Become(p, o), NEW s \in Ids, NEW q \in Date,
         InvoiceRun(s, q) \notin runs, runs' = runs \cup {InvoiceRun(s, q)},
         Made(o) = Append(Made(op[p]), <<s, q>>)
  PROVE  QueueInv' /\ Queued' = Queued \cup {<<s, q>>}
<1>1. \A x \in Procs : op'[x] = IF x = p THEN o ELSE op[x]
  BY DEF Become, TypeInv, TypeOK
<1>2. PICK made, n, c : made = Made(op[p]) /\ n = Len(made) + 1 /\ c = <<s, q>>
  OBVIOUS
<1>3. made \in Seq(Ids \X Date) /\ c \in Ids \X Date
  BY <1>2, MadeTyped
<1>4. Made(o) = Append(made, c)
  BY <1>2
<1>5. /\ DOMAIN Made(o) = DOMAIN made \cup {n} /\ Made(o)[n] = c /\ n \notin DOMAIN made
      /\ \A i \in DOMAIN made : Made(o)[i] = made[i]
  BY <1>2, <1>3, <1>4
<1>6. \A x \in Procs : \A i \in DOMAIN Made(op[x]) : Made(op[x])[i] # c
  BY <1>2 DEF QueueInv
<1>7. ASSUME NEW x \in Procs, NEW i \in DOMAIN Made(op'[x])
      PROVE  \/ i \in DOMAIN Made(op[x]) /\ Made(op'[x])[i] = Made(op[x])[i]
             \/ x = p /\ i = n /\ Made(op'[x])[i] = c
  BY <1>1, <1>2, <1>5
<1>8. QueueInv'
  <2>1. ASSUME NEW x \in Procs, NEW i \in DOMAIN Made(op'[x])
        PROVE  InvoiceRun(Made(op'[x])[i][1], Made(op'[x])[i][2]) \in runs'
    <3>1. CASE i \in DOMAIN Made(op[x]) /\ Made(op'[x])[i] = Made(op[x])[i]
      BY <3>1 DEF QueueInv
    <3>2. CASE Made(op'[x])[i] = c
      BY <1>2, <3>2
    <3> QED
      BY <1>7, <3>1, <3>2
  <2>2. ASSUME NEW x \in Procs, NEW y \in Procs, NEW i \in DOMAIN Made(op'[x]), NEW j \in DOMAIN Made(op'[y]),
               Made(op'[x])[i] = Made(op'[y])[j]
        PROVE  x = y /\ i = j
    <3>1. \/ i \in DOMAIN Made(op[x]) /\ Made(op'[x])[i] = Made(op[x])[i]
          \/ x = p /\ i = n /\ Made(op'[x])[i] = c
      BY <1>7
    <3>2. \/ j \in DOMAIN Made(op[y]) /\ Made(op'[y])[j] = Made(op[y])[j]
          \/ y = p /\ j = n /\ Made(op'[y])[j] = c
      BY <1>7
    <3>3. CASE i \in DOMAIN Made(op[x]) /\ Made(op'[x])[i] = Made(op[x])[i]
      <4>1. j \in DOMAIN Made(op[y]) /\ Made(op'[y])[j] = Made(op[y])[j]
        BY <1>6, <2>2, <3>2, <3>3
      <4>2. i \in DOMAIN Made(op[x]) /\ j \in DOMAIN Made(op[y]) /\ Made(op[x])[i] = Made(op[y])[j]
        BY <2>2, <3>3, <4>1
      <4> QED
        BY <4>2, QueuedOnce
    <3>4. CASE x = p /\ i = n /\ Made(op'[x])[i] = c
      BY <1>6, <2>2, <3>2, <3>4
    <3> QED
      BY <3>1, <3>3, <3>4
  <2> QED
    BY <2>1, <2>2 DEF QueueInv
<1>9. ASSUME NEW x PROVE x \in Queued' <=> x \in Queued \/ x = c
  <2>1. ASSUME x \in Queued' PROVE x \in Queued \/ x = c
    <3>1. PICK y, i : y \in Procs /\ i \in DOMAIN Made(op'[y]) /\ x = Made(op'[y])[i]
      BY <2>1, QueuedMade
    <3> QED
      BY <1>7, <3>1, QueuedMade
  <2>2. ASSUME x \in Queued PROVE x \in Queued'
    <3>1. PICK y, i : y \in Procs /\ i \in DOMAIN Made(op[y]) /\ x = Made(op[y])[i]
      BY <2>2, QueuedMade
    <3>2. i \in DOMAIN Made(op'[y]) /\ x = Made(op'[y])[i]
      BY <1>1, <1>2, <1>5, <3>1
    <3> QED
      BY <3>1, <3>2, QueuedMade
  <2>3. c \in Queued'
    BY <1>1, <1>5, QueuedMade
  <2> QED
    BY <2>1, <2>2, <2>3
<1> QED
  BY <1>2, <1>8, <1>9

-----------------------------------------------------------------------------
(* Every step of the program is a step of the ledger, or none.             *)

LEMMA CyclesBooked ==
  /\ \A s, k : k \in Settled(s) <=> <<s, k>> \in BilledCycles \cup SkippedCycles
  /\ \A s, k : k \in Settled(s)' <=> <<s, k>> \in BilledCycles' \cup SkippedCycles'
<1>1. ASSUME NEW s, NEW k, NEW R
      PROVE  k \in {r.period.m : r \in {x \in R : x.schedule = s}}
               <=> <<s, k>> \in {<<r.schedule, r.period.m>> : r \in {x \in R : x.invoice}}
                              \cup {<<r.schedule, r.period.m>> : r \in {x \in R : ~x.invoice}}
  OBVIOUS
<1> QED
  BY <1>1, Zenon DEF Settled, BilledCycles, SkippedCycles

\* A period not yet in the history is of a cycle not yet settled.
LEMMA NotYetSettled ==
  ASSUME TypeInv, CycleInv, DatesInv, NEW s \in Created, NEW q \in Date, Dated(s, q), ~HasRun(s, q)
  PROVE  q.m \notin Settled(s)
<1> SUFFICES ASSUME NEW r \in runs, r.schedule = s, r.period.m = q.m PROVE FALSE
  BY DEF Settled
<1>1. schedules[s] \in Row /\ schedules[s].anchor \in AnchorDays /\ first[s] \in Date
  BY DEF TypeInv, TypeOK, Created, Row, CycleInv
<1>2. r.period \in Date /\ Dated(s, r.period)
  BY DEF TypeInv, TypeOK, Run, DatesInv
<1>3. r.period = q
  BY <1>1, <1>2, DatedSame
<1> QED
  BY <1>3 DEF HasRun

\* So the cursor has not passed it.
LEMMA CursorBefore ==
  ASSUME TypeInv, CycleInv, DatesInv, NEW s \in Created, NEW q \in Date, Dated(s, q), ~HasRun(s, q),
         Complete(s, q.m)
  PROVE  schedules[s].next.m <= q.m
<1>1. q.m \notin Settled(s)
  BY NotYetSettled
<1>2. q.m \in Nat /\ schedules[s].next.m \in Nat
  BY DEF TypeInv, TypeOK, Created, Row, Date
<1>3. InCycle(first[s].m, q.m) /\ Complete(s, schedules[s].next.m)
  BY DEF Complete, AllBehind, CycleInv
<1> QED
  BY <1>1, <1>2, <1>3 DEF Complete, AllBehind

LEMMA CursorIs ==
  ASSUME TypeInv, TypeInv'
  PROVE  /\ \A t \in Created : Cursors[t] = schedules[t].next.m /\ Cursors[t] \in Nat
         /\ \A t \in Created' : Cursors'[t] = schedules'[t].next.m /\ Cursors'[t] \in Nat
         /\ \A t \in Ids \ Created : Cursors[t] = 0
         /\ \A t \in Ids \ Created' : Cursors'[t] = 0
BY DEF Cursors, TypeInv, TypeOK, Created, Row, Date

LEMMA CursorsSame ==
  ASSUME Created' = Created, \A t \in Created : schedules'[t].next = schedules[t].next
  PROVE  Cursors' = Cursors
BY DEF Cursors

\* The cursor of one schedule moves on with everything settled behind it.
LEMMA PassesSettled ==
  ASSUME TypeInv, TypeInv', CycleInv, NEW s \in Created, Created' = Created,
         \A t \in Created \ {s} : schedules'[t].next = schedules[t].next,
         schedules[s].next.m <= schedules'[s].next.m,
         AllBehind(first[s].m, Settled(s)', schedules'[s].next.m)
  PROVE  Ledger!Passes(s)
<1>1. s \in Ids /\ first[s].m \in Nat
  BY DEF Created, CycleInv, Date
<1>2. \A t \in Ids \ {s} : Cursors'[t] = Cursors[t]
  BY CursorIs DEF Created
<1>3. /\ Cursors[s] = schedules[s].next.m /\ Cursors'[s] = schedules'[s].next.m
      /\ Cursors[s] \in Nat /\ Cursors'[s] \in Nat
  BY CursorIs
<1>4. ASSUME NEW month \in Cursors[s] .. Cursors'[s] - 1, (month - Cursors[s]) % CycleMonths = 0
      PROVE  <<s, month>> \in BilledCycles' \cup SkippedCycles'
  <2>1. month \in Nat /\ Cursors[s] <= month /\ month < Cursors'[s]
    BY <1>3
  <2>2. InCycle(first[s].m, Cursors[s])
    BY <1>3 DEF CycleInv, Complete, AllBehind
  <2>3. InCycle(first[s].m, month)
    <3>1. CASE month = Cursors[s]
      BY <2>2, <3>1
    <3>2. CASE Cursors[s] < month
      BY <1>1, <1>3, <1>4, <2>1, <2>2, <3>2, CycleMultiple
    <3> QED
      BY <1>3, <2>1, <3>1, <3>2
  <2>4. month \in Settled(s)'
    BY <1>3, <2>1, <2>3 DEF AllBehind
  <2> QED
    BY <2>4, CyclesBooked
<1> QED
  BY <1>2, <1>3, <1>4 DEF Ledger!Passes

\* Finding a period settled, the cursor passes it and no other step is made.
LEMMA LedgerPass ==
  ASSUME TypeInv, TypeInv', CycleInv, NEW s \in Created, NEW row \in Row, NEW q \in Date,
         Complete(s, q.m), first' = first, AlreadySettled(s, row, q),
         Queued' = Queued, mailed' = mailed, unsent' = unsent
  PROVE  Ledger!Next
<1>1. runs' = runs /\ Created' = Created
  BY PeriodCreated DEF AlreadySettled, TypeInv
<1>2. /\ \A t \in Created \ {s} : schedules'[t] = schedules[t]
      /\ AllBehind(first[s].m, Settled(s)', schedules'[s].next.m)
  BY PeriodNext, PeriodComplete
<1>3. schedules[s].next.m <= schedules'[s].next.m
  <2>1. PICK d, next : /\ next = AdvancePeriod(row.anchor, q)
                       /\ d = IF Leq(schedules[s].next, next) THEN next ELSE schedules[s].next
    OBVIOUS
  <2>2. next \in Date /\ schedules[s] \in Row /\ schedules[s].next \in Date
    BY <2>1, AdvanceType DEF Row, TypeInv, TypeOK, Created
  <2>3. PICK new : new = [schedules[s] EXCEPT !.next = d]
    OBVIOUS
  <2>4. new \in Row /\ new.next = d
    BY <2>1, <2>2, <2>3 DEF Row
  <2>5. schedules' = [schedules EXCEPT ![s] = new]
    BY <2>1, <2>3 DEF AlreadySettled
  <2>6. schedules'[s].next = d
    BY <2>4, <2>5, SetRow
  <2> QED
    BY <2>1, <2>2, <2>6 DEF Leq, Date
<1>4. Ledger!Passes(s)
  BY <1>1, <1>2, <1>3, PassesSettled
<1>5. BilledCycles' = BilledCycles /\ SkippedCycles' = SkippedCycles /\ Waiting' = Waiting /\ Told' = Told
  BY <1>1 DEF BilledCycles, SkippedCycles, Waiting, Told
<1>6. Ledger!Pass
  BY <1>4, <1>5 DEF Ledger!Pass, Created
<1> QED
  BY <1>6 DEF Ledger!Next

\* Making an invoice bills one cycle that was open.
LEMMA LedgerBill ==
  ASSUME TypeInv, TypeInv', CycleInv, DatesInv, NEW s \in Created, NEW row \in Row, NEW q \in Date,
         Complete(s, q.m), Dated(s, q), first' = first, Generates(s, row, q),
         Queued' \in {Queued, Queued \cup {<<s, q>>}}, mailed' = mailed, unsent' = unsent
  PROVE  Ledger!Next
<1>1. /\ Created' = Created
      /\ \A t \in Created \ {s} : schedules'[t] = schedules[t]
      /\ AllBehind(first[s].m, Settled(s)', schedules'[s].next.m)
  BY PeriodCreated, PeriodNext, PeriodComplete DEF TypeInv
<1>2. schedules'[s].next.m = q.m + CycleMonths
  <2>1. PICK next : next = AdvancePeriod(row.anchor, q)
    OBVIOUS
  <2>2. next \in Date /\ next.m = q.m + CycleMonths /\ schedules[s] \in Row
    BY <2>1, AdvanceType DEF Row, TypeInv, TypeOK, Created
  <2>3. PICK new : new = [schedules[s] EXCEPT !.next = next]
    OBVIOUS
  <2>4. new \in Row /\ new.next = next
    BY <2>2, <2>3 DEF Row
  <2>5. schedules' = [schedules EXCEPT ![s] = new]
    BY <2>1, <2>3 DEF Generates
  <2> QED
    BY <2>2, <2>4, <2>5, SetRow
<1>3. ~HasRun(s, q) /\ runs' = runs \cup {InvoiceRun(s, q)}
  BY DEF Generates
<1>4. q.m \notin Settled(s) /\ schedules[s].next.m <= q.m
  BY <1>3, NotYetSettled, CursorBefore
<1>5. q.m \in Nat /\ schedules[s].next.m \in Nat /\ CycleMonths \in Nat \ {0}
  BY CycleAssumption DEF TypeInv, TypeOK, Created, Row, Date
<1>6. Ledger!Passes(s)
  BY <1>1, <1>2, <1>4, <1>5, PassesSettled
<1>7. PICK c : c = <<s, q.m>>
  OBVIOUS
<1>8. c \notin BilledCycles \cup SkippedCycles
  BY <1>4, <1>7, CyclesBooked
<1>9. /\ InvoiceRun(s, q).schedule = s /\ InvoiceRun(s, q).period = q /\ InvoiceRun(s, q).invoice
  BY DEF InvoiceRun
<1>10. BilledCycles' = BilledCycles \cup {c} /\ SkippedCycles' = SkippedCycles
  BY <1>3, <1>7, <1>9 DEF BilledCycles, SkippedCycles
<1>11. c[1] = s /\ c[2] = q.m /\ q.m < Cursors'[s]
  BY <1>1, <1>2, <1>5, <1>7, CursorIs
<1>12. Waiting' \in {Waiting, Waiting \cup {c}}
  BY <1>7 DEF Waiting, CyclesOf
<1>13. Told' = Told
  BY DEF Told
<1>14. Ledger!Bill
  BY <1>6, <1>8, <1>10, <1>11, <1>12, <1>13 DEF Ledger!Bill, Created
<1> QED
  BY <1>14 DEF Ledger!Next

\* Two queued invoices of one cycle are the same invoice.
LEMMA QueuedCycle ==
  ASSUME TypeInv, CycleInv, DatesInv, QueueInv, NEW x \in Queued, NEW y \in Queued,
         x[1] = y[1], x[2].m = y[2].m
  PROVE  x = y
<1>1. ASSUME NEW z \in Queued
      PROVE  /\ z \in Ids \X Date /\ z = <<z[1], z[2]>> /\ z[2] \in Date
             /\ z[1] \in Created /\ Dated(z[1], z[2])
  <2>1. PICK p, i : p \in Procs /\ i \in DOMAIN Made(op[p]) /\ z = Made(op[p])[i]
    BY QueuedMade
  <2>2. Made(op[p]) \in Seq(Ids \X Date)
    BY <2>1, MadeTyped
  <2>3. z \in Ids \X Date
    BY <2>1, <2>2
  <2>4. InvoiceRun(z[1], z[2]) \in runs
    BY <2>1 DEF QueueInv
  <2>5. InvoiceRun(z[1], z[2]).schedule = z[1] /\ InvoiceRun(z[1], z[2]).period = z[2]
    BY DEF InvoiceRun
  <2> QED
    BY <2>3, <2>4, <2>5 DEF DatesInv
<1>2. first[x[1]] \in Date /\ schedules[x[1]].anchor \in AnchorDays
  BY <1>1 DEF CycleInv, TypeInv, TypeOK, Created, Row
<1>3. x[2] = y[2]
  BY <1>1, <1>2, DatedSame
<1> QED
  BY <1>1, <1>3

\* Sending an invoice, or leaving it to the operator, takes it off its queue.
LEMMA LedgerTell ==
  ASSUME TypeInv, CycleInv, DatesInv, QueueInv, NEW p \in Procs, RunSend(p)
  PROVE  QueueInv' /\ Ledger!Next
<1>1. PICK o, invoice : /\ o = RunState(op[p].day, op[p].rows, Tail(op[p].made)) /\ Become(p, o)
                        /\ invoice = Head(op[p].made) /\ op[p].made # <<>>
  BY DEF RunSend
<1>2. /\ mailed' \cup unsent' \in {mailed \cup unsent, mailed \cup unsent \cup {invoice}}
      /\ runs' = runs /\ schedules' = schedules
  BY <1>1 DEF RunSend
<1>3. Made(op[p]) = op[p].made
  BY DEF RunSend, Running, Made
<1>4. Made(o) = Tail(op[p].made)
  BY <1>1, MadeRunState
<1>5. QueueInv' /\ invoice \in Queued /\ Queued' = Queued \ {invoice}
  BY <1>1, <1>2, <1>3, <1>4, QueueTail
<1>6. PICK c : c = <<invoice[1], invoice[2].m>>
  OBVIOUS
<1>7. c \in Waiting
  BY <1>5, <1>6 DEF Waiting, CyclesOf
<1>8. ASSUME NEW x \in Queued, x # invoice PROVE <<x[1], x[2].m>> # c
  BY <1>5, <1>6, <1>8, QueuedCycle
<1>9. Waiting' = Waiting \ {c}
  BY <1>5, <1>6, <1>8 DEF Waiting, CyclesOf
<1>10. Told' \in {Told, Told \cup {c}}
  BY <1>2, <1>6 DEF Told, CyclesOf
<1>11. BilledCycles' = BilledCycles /\ SkippedCycles' = SkippedCycles /\ Cursors' = Cursors
  BY <1>2 DEF BilledCycles, SkippedCycles, Cursors, Created
<1>12. Ledger!Tell
  BY <1>7, <1>9, <1>10, <1>11 DEF Ledger!Tell
<1> QED
  BY <1>5, <1>12 DEF Ledger!Next

\* Lifting a pause forgives cycles of one schedule that nothing had settled.
LEMMA LedgerForgive ==
  ASSUME OneAnchor, TypeInv, TypeInv', CycleInv, DatesInv, QueueInv, NEW p \in Procs, CommitResume(p)
  PROVE  QueueInv' /\ Ledger!Next
<1>1. PICK t, new, skipped :
        /\ t = op[p].id
        /\ new = [schedules[t] EXCEPT !.paused = FALSE, !.pausedAt = None]
        /\ skipped = {q \in Forgiven(op[p].row, op[p].day) : ~HasRun(t, q)}
  OBVIOUS
<1>2. /\ t \in Created /\ schedules[t] \in Row /\ first[t] \in Date
      /\ op[p].row \in Row /\ op[p].day \in Date
  BY <1>1, HeldTyped DEF CommitResume, TypeInv, TypeOK, Created, CycleInv
<1>3. new \in Row /\ new.next = schedules[t].next
  BY <1>1, <1>2 DEF Row
<1>4. /\ schedules' = [schedules EXCEPT ![t] = new] /\ mailed' = mailed /\ unsent' = unsent
      /\ runs' = runs \cup {SkipRun(t, q) : q \in skipped} /\ Become(p, Idle)
  BY <1>1 DEF CommitResume
<1>5. Created' = Created /\ schedules'[t] = new /\ \A x \in Created \ {t} : schedules'[x] = schedules[x]
  BY <1>2, <1>3, <1>4, SetRow
<1>6. Cursors' = Cursors
  BY <1>3, <1>5, CursorsSame
<1>7. Made(Idle) = Made(op[p])
  BY DEF Made, Idle, CommitResume
<1>8. QueueInv' /\ Queued' = Queued
  BY <1>4, <1>7, QueueBecome
<1>9. ASSUME NEW q \in skipped PROVE q.m \notin Settled(t)
  <2>1. q \in Walk(op[p].row, op[p].day) /\ ~HasRun(t, q)
    BY <1>1 DEF Forgiven
  <2>2. Dated(t, op[p].row.next)
    BY <1>1 DEF CommitResume, DatesInv, OpDated
  <2>3. q \in Date /\ Dated(t, q)
    BY <1>2, <2>1, <2>2, WalkType, DatedWalk
  <2> QED
    BY <1>2, <2>1, <2>3, NotYetSettled
<1>10. ASSUME NEW q
       PROVE  /\ SkipRun(t, q).schedule = t /\ SkipRun(t, q).period = q /\ ~SkipRun(t, q).invoice
  BY DEF SkipRun
<1>11. BilledCycles' = BilledCycles
  BY <1>4, <1>10 DEF BilledCycles
<1>12. SkippedCycles \subseteq SkippedCycles'
  BY <1>4 DEF SkippedCycles
<1>13. ASSUME NEW c \in SkippedCycles' \ SkippedCycles PROVE c[1] = t /\ c \notin BilledCycles
  <2>1. PICK r \in runs' : ~r.invoice /\ c = <<r.schedule, r.period.m>>
    BY DEF SkippedCycles
  <2>2. r \notin runs
    BY <1>13, <2>1 DEF SkippedCycles
  <2>3. PICK q \in skipped : r = SkipRun(t, q)
    BY <1>4, <2>1, <2>2
  <2>4. c = <<t, q.m>>
    BY <1>10, <2>1, <2>3
  <2>5. <<t, q.m>> \notin BilledCycles \cup SkippedCycles
    BY <1>9, CyclesBooked
  <2> QED
    BY <2>4, <2>5
<1>14. Waiting' = Waiting /\ Told' = Told
  BY <1>4, <1>8 DEF Waiting, Told
<1>15. t \in Ids
  BY <1>2 DEF Created
<1>16. Ledger!Forgive
  BY <1>6, <1>11, <1>12, <1>13, <1>14, <1>15 DEF Ledger!Forgive
<1> QED
  BY <1>8, <1>16 DEF Ledger!Next

\* A step that writes no history, moves no cursor and sends nothing.
LEMMA LedgerQuiet ==
  ASSUME runs' = runs, Created' = Created, \A t \in Created : schedules'[t].next = schedules[t].next,
         Queued' = Queued, mailed' = mailed, unsent' = unsent
  PROVE  UNCHANGED Ledger!ledger
<1>1. Cursors' = Cursors
  BY CursorsSame
<1>2. BilledCycles' = BilledCycles /\ SkippedCycles' = SkippedCycles /\ Waiting' = Waiting /\ Told' = Told
  BY DEF BilledCycles, SkippedCycles, Waiting, Told
<1> QED
  BY <1>1, <1>2 DEF Ledger!ledger

LEMMA LedgerOpen ==
  ASSUME TypeInv, TypeInv', DatesInv, QueueInv, NEW p \in Procs, NEW s \in Ids,
         NEW anchor \in AnchorDays, NEW auto \in Autosends,
         NEW start \in Starts, AddSchedule(p, s, start, anchor, auto)
  PROVE  QueueInv' /\ Ledger!Next
<1>1. PICK new : /\ new = [anchor |-> anchor, next |-> start, autosend |-> auto,
                           paused |-> FALSE, pausedAt |-> None, endedAt |-> None]
                 /\ schedules' = [schedules EXCEPT ![s] = new]
  BY DEF AddSchedule
<1>2. /\ new.next = start /\ s \notin Created /\ runs' = runs /\ op' = op
      /\ mailed' = mailed /\ unsent' = unsent
  BY <1>1 DEF AddSchedule
<1>3. /\ \A t \in Ids \ {s} : schedules'[t] = schedules[t]
      /\ schedules'[s] = new
  BY <1>1 DEF TypeInv, TypeOK
<1>4. new \in Row
  BY <1>1, AutosendAssumption, StartsType DEF Row
<1>5. Created' = Created \cup {s}
  BY <1>3, <1>4, NoneAssumption DEF Created
<1>6. Cursors[s] = 0 /\ Cursors'[s] = start.m /\ start.m > 0
  BY <1>2, <1>3, <1>5, CursorIs, StartsType DEF Date
<1>7. \A t \in Ids \ {s} : Cursors'[t] = Cursors[t]
  BY <1>3, <1>5 DEF Cursors
<1>8. QueueInv' /\ Queued' = Queued
  BY <1>2, QueueSame
<1>9. BilledCycles' = BilledCycles /\ SkippedCycles' = SkippedCycles /\ Waiting' = Waiting /\ Told' = Told
  BY <1>2, <1>8 DEF BilledCycles, SkippedCycles, Waiting, Told
<1>10. Ledger!Open
  BY <1>6, <1>7, <1>9 DEF Ledger!Open
<1> QED
  BY <1>8, <1>10 DEF Ledger!Next

LEMMA LedgerSame ==
  ASSUME TypeInv, QueueInv, op' = op, runs' = runs, mailed' = mailed, unsent' = unsent,
         Created' = Created, \A t \in Created : schedules'[t].next = schedules[t].next
  PROVE  QueueInv' /\ UNCHANGED Ledger!ledger
BY QueueSame, LedgerQuiet

LEMMA LedgerEdits ==
  ASSUME TypeInv, QueueInv, NEW p \in Procs, NEW s \in Ids,
         NEW anchor \in AnchorDays, NEW auto \in Autosends, UpdateSchedule(p, s, anchor, auto)
  PROVE  QueueInv' /\ UNCHANGED Ledger!ledger
<1>1. PICK new : new = [schedules[s] EXCEPT !.anchor = anchor, !.autosend = auto]
  OBVIOUS
<1>2. /\ s \in Created /\ schedules[s] \in Row /\ schedules' = [schedules EXCEPT ![s] = new]
      /\ op' = op /\ runs' = runs /\ mailed' = mailed /\ unsent' = unsent
  BY <1>1 DEF UpdateSchedule, TypeInv, TypeOK, Created
<1>3. new \in Row /\ new.next = schedules[s].next
  BY <1>1, <1>2, AutosendAssumption DEF Row
<1>4. Created' = Created /\ schedules'[s] = new /\ \A t \in Created \ {s} : schedules'[t] = schedules[t]
  BY <1>2, <1>3, SetRow
<1> QED
  BY <1>2, <1>3, <1>4, LedgerSame

LEMMA LedgerPauses ==
  ASSUME TypeInv, QueueInv, NEW p \in Procs, NEW s \in Ids
  PROVE  PauseSchedule(p, s) \/ SetClientArchived(p, s)
           => QueueInv' /\ UNCHANGED Ledger!ledger
<1>1. ASSUME PauseSchedule(p, s) PROVE QueueInv' /\ UNCHANGED Ledger!ledger
  <2>1. s \in Created /\ schedules[s] \in Row
    BY <1>1 DEF PauseSchedule, TypeInv, TypeOK, Created
  <2>2. PICK at \in Date \cup {None} : at = IF schedules[s].paused THEN schedules[s].pausedAt ELSE today
    BY <2>1 DEF Row, TypeInv, TypeOK
  <2>3. PICK new : new = [schedules[s] EXCEPT !.pausedAt = at, !.paused = TRUE]
    OBVIOUS
  <2>4. new \in Row /\ new.next = schedules[s].next
    BY <2>1, <2>3 DEF Row
  <2>5. /\ schedules' = [schedules EXCEPT ![s] = new]
        /\ op' = op /\ runs' = runs /\ mailed' = mailed /\ unsent' = unsent
    BY <1>1, <2>2, <2>3 DEF PauseSchedule
  <2>6. Created' = Created /\ schedules'[s] = new /\ \A t \in Created \ {s} : schedules'[t] = schedules[t]
    BY <2>1, <2>4, <2>5, SetRow
  <2> QED
    BY <2>4, <2>5, <2>6, LedgerSame
<1>2. ASSUME SetClientArchived(p, s) PROVE QueueInv' /\ UNCHANGED Ledger!ledger
  BY <1>2, LedgerSame DEF SetClientArchived, Created
<1> QED
  BY <1>1, <1>2

\* A command that starts, or goes from one of its steps to the next, and
\* queues nothing.
LEMMA LedgerMoves ==
  ASSUME TypeInv, QueueInv, NEW p \in Procs, NEW o, Become(p, o), Made(o) = Made(op[p]),
         runs' = runs, mailed' = mailed, unsent' = unsent, Created' = Created,
         \A t \in Created : schedules'[t].next = schedules[t].next
  PROVE  QueueInv' /\ UNCHANGED Ledger!ledger
BY QueueBecome, LedgerQuiet

LEMMA LedgerStarts ==
  ASSUME TypeInv, QueueInv, NEW p \in Procs, NEW s \in Ids, NEW how \in Dispositions
  PROVE  StartResume(p, s) \/ StartEnd(p, s, how)
           => QueueInv' /\ UNCHANGED Ledger!ledger
<1>1. Made(Idle) = <<>>
  BY DEF Made, Idle
<1>2. ASSUME StartResume(p, s) PROVE QueueInv' /\ UNCHANGED Ledger!ledger
  <2>1. PICK o : o.at = "resume" /\ Become(p, o) /\ op[p] = Idle
    BY <1>2 DEF StartResume
  <2>2. Made(o) = Made(op[p])
    BY <1>1, <2>1 DEF Made
  <2> QED
    BY <1>2, <2>1, <2>2, LedgerMoves DEF StartResume, Created
<1>3. ASSUME StartEnd(p, s, how) PROVE QueueInv' /\ UNCHANGED Ledger!ledger
  <2>1. PICK o : o.at = "end" /\ Become(p, o) /\ op[p] = Idle
    BY <1>3 DEF StartEnd
  <2>2. Made(o) = Made(op[p])
    BY <1>1, <2>1 DEF Made
  <2> QED
    BY <1>3, <2>1, <2>2, LedgerMoves DEF StartEnd, Created
<1> QED
  BY <1>2, <1>3

LEMMA LedgerRunStarts ==
  ASSUME TypeInv, QueueInv, NEW p \in Procs, StartRun(p)
  PROVE  QueueInv' /\ UNCHANGED Ledger!ledger
<1>0. Made(Idle) = <<>>
  BY DEF Made, Idle
<1>1. PICK o : o = RunState(today, [s_1 \in Active |-> schedules[s_1]], <<>>) /\ Become(p, o) /\ op[p] = Idle
  BY DEF StartRun
<1>2. Made(o) = Made(op[p])
  BY <1>0, <1>1, MadeRunState
<1> QED
  BY <1>1, <1>2, LedgerMoves DEF StartRun, Created

LEMMA LedgerRun ==
  ASSUME OneAnchor, TypeInv, TypeInv', CycleInv, DatesInv, QueueInv, NEW p \in Procs
  PROVE  /\ RunPeriod(p) => QueueInv' /\ Ledger!Next
         /\ RunRefused(p) => QueueInv' /\ UNCHANGED Ledger!ledger
<1>1. ASSUME RunPeriod(p) PROVE QueueInv' /\ Ledger!Next
  <2>1. PICK s \in Ids :
          LET row == op[p].rows[s]
              walked == [op[p].rows EXCEPT ![s].next = AdvancePeriod(row.anchor, row.next)]
          IN  /\ IsCurrent(s, op[p].rows)
              /\ \/ /\ AlreadySettled(s, row, row.next)
                    /\ Become(p, RunState(op[p].day, walked, op[p].made))
                 \/ /\ Generates(s, row, row.next)
                    /\ Become(p, RunState(op[p].day, walked, Append(op[p].made, <<s, row.next>>)))
    BY <1>1 DEF RunPeriod
  <2>2. PICK row, q, walked :
          /\ row = op[p].rows[s] /\ q = row.next
          /\ walked = [op[p].rows EXCEPT ![s].next = AdvancePeriod(row.anchor, row.next)]
    OBVIOUS
  <2>3. s \in DOMAIN op[p].rows /\ Running(p)
    BY <1>1, <2>1 DEF IsCurrent, RunPeriod
  <2>4. /\ s \in Created /\ row \in Row /\ q \in Date /\ Complete(s, q.m) /\ Dated(s, q)
    BY <2>2, <2>3, RunTyped DEF Running, TypeInv, HeldCreated, HeldBy, CycleInv, OpComplete, DatesInv, OpDated, Row
  <2>5. first' = first /\ mailed' = mailed /\ unsent' = unsent
    BY <1>1 DEF RunPeriod
  <2>6. Made(op[p]) = op[p].made
    BY <2>3 DEF Running, Made
  <2>7. CASE AlreadySettled(s, row, q) /\ Become(p, RunState(op[p].day, walked, op[p].made))
    <3>1. PICK o : o = RunState(op[p].day, walked, op[p].made) /\ Become(p, o)
      BY <2>7
    <3>2. Made(o) = Made(op[p])
      BY <2>6, <3>1, MadeRunState
    <3>3. runs \subseteq runs'
      BY <2>7 DEF AlreadySettled
    <3>4. QueueInv' /\ Queued' = Queued
      BY <3>1, <3>2, <3>3, QueueBecome
    <3> QED
      BY <2>4, <2>5, <2>7, <3>4, LedgerPass
  <2>8. CASE Generates(s, row, q) /\ Become(p, RunState(op[p].day, walked, Append(op[p].made, <<s, q>>)))
    <3>1. PICK o : o = RunState(op[p].day, walked, Append(op[p].made, <<s, q>>)) /\ Become(p, o)
      BY <2>8
    <3>2. Made(o) = Append(Made(op[p]), <<s, q>>)
      BY <2>6, <3>1, MadeRunState
    <3>3. runs' = runs \cup {InvoiceRun(s, q)} /\ InvoiceRun(s, q) \notin runs
      <4>1. InvoiceRun(s, q).schedule = s /\ InvoiceRun(s, q).period = q
        BY DEF InvoiceRun
      <4> QED
        BY <2>8, <4>1 DEF Generates, HasRun
    <3>4. QueueInv' /\ Queued' = Queued \cup {<<s, q>>}
      BY <2>4, <3>1, <3>2, <3>3, QueueAppend
    <3> QED
      BY <2>4, <2>5, <2>8, <3>4, LedgerBill
  <2> QED
    BY <2>1, <2>2, <2>7, <2>8
<1>2. ASSUME RunRefused(p) PROVE QueueInv' /\ UNCHANGED Ledger!ledger
  <2>1. PICK rows, o : o = RunState(op[p].day, rows, op[p].made) /\ Become(p, o)
    BY <1>2 DEF RunRefused
  <2>2. Made(o) = Made(op[p])
    BY <1>2, <2>1, MadeRunState DEF RunRefused, Running, Made
  <2> QED
    BY <1>2, <2>1, <2>2, LedgerMoves DEF RunRefused, Refuses, Created
<1> QED
  BY <1>1, <1>2

LEMMA LedgerEnd ==
  ASSUME TypeInv, TypeInv', QueueInv, NEW p \in Procs
  PROVE  DecideEnd(p) \/ FinishEnd(p) \/ EndBillRefused(p) => QueueInv' /\ UNCHANGED Ledger!ledger
<1>0. \A o : o.at # "run" => Made(o) = <<>>
  BY DEF Made
<1>1. ASSUME DecideEnd(p) PROVE QueueInv' /\ UNCHANGED Ledger!ledger
  <2>1. PICK o : Become(p, o) /\ o.at # "run"
    BY <1>1 DEF DecideEnd, Idle, FinishState
  <2>2. Made(o) = Made(op[p])
    BY <1>0, <1>1, <2>1 DEF DecideEnd
  <2> QED
    BY <1>1, <2>1, <2>2, LedgerMoves DEF DecideEnd, Created
<1>2. ASSUME FinishEnd(p) PROVE QueueInv' /\ UNCHANGED Ledger!ledger
  <2>1. PICK t, new : t = op[p].id /\ new = [schedules[t] EXCEPT !.endedAt = op[p].day]
    OBVIOUS
  <2>2. t \in Created /\ schedules[t] \in Row /\ op[p].day \in Date
    BY <1>2, <2>1, HeldTyped DEF FinishEnd, TypeInv, TypeOK, Created
  <2>3. new \in Row /\ new.next = schedules[t].next
    BY <2>1, <2>2 DEF Row
  <2>4. /\ schedules' = [schedules EXCEPT ![t] = new] /\ runs' = runs /\ Become(p, Idle)
        /\ mailed' = mailed /\ unsent' = unsent
    BY <1>2, <2>1 DEF FinishEnd
  <2>5. Created' = Created /\ schedules'[t] = new /\ \A x \in Created \ {t} : schedules'[x] = schedules[x]
    BY <2>2, <2>3, <2>4, SetRow
  <2>6. Made(Idle) = Made(op[p])
    BY <1>0, <1>2 DEF FinishEnd, Idle
  <2> QED
    BY <2>3, <2>4, <2>5, <2>6, LedgerMoves
<1>3. ASSUME EndBillRefused(p) PROVE QueueInv' /\ UNCHANGED Ledger!ledger
  <2>1. Made(Idle) = Made(op[p])
    BY <1>0, <1>3 DEF EndBillRefused, Idle
  <2> QED
    BY <1>3, <2>1, LedgerMoves DEF EndBillRefused, Refuses, Created
<1> QED
  BY <1>1, <1>2, <1>3

LEMMA LedgerEndBill ==
  ASSUME TypeInv, TypeInv', CycleInv, DatesInv, QueueInv, NEW p \in Procs, EndBill(p)
  PROVE  QueueInv' /\ Ledger!Next
<1>1. PICK t, row, owed : t = op[p].id /\ row = op[p].row /\ owed = op[p].owed
  OBVIOUS
<1>2. PICK q \in owed :
        /\ IsEarliest(q, owed)
        /\ AlreadySettled(t, row, q) \/ Generates(t, row, q)
        /\ IF owed \ {q} = {}
           THEN Become(p, FinishState(t, op[p].day, {}))
           ELSE op' = [op EXCEPT ![p].owed = owed \ {q}]
  BY <1>1 DEF EndBill
<1>3. /\ t \in Created /\ row \in Row /\ owed \subseteq Date /\ q \in Date
      /\ first' = first /\ mailed' = mailed /\ unsent' = unsent
  BY <1>1, HeldTyped DEF EndBill
<1>4. \A x \in owed : CompleteBut(t, x.m, owed) /\ Dated(t, x)
  BY <1>1 DEF EndBill, CycleInv, OpComplete, DatesInv, OpDated
<1>5. Complete(t, q.m)
  <2>1. InCycle(first[t].m, q.m)
    BY <1>4 DEF CompleteBut, AllBehind
  <2>2. ASSUME NEW j \in Nat, j < q.m, InCycle(first[t].m, j) PROVE j \in Settled(t)
    <3>1. j \in Settled(t) \cup {x.m : x \in owed}
      BY <1>4, <2>2 DEF CompleteBut, AllBehind
    <3>2. \A x \in owed : x.m # j
      BY <1>2, <1>3, <2>2 DEF IsEarliest, Leq, Date
    <3> QED
      BY <3>1, <3>2
  <2> QED
    BY <2>1, <2>2 DEF Complete, AllBehind
<1>6. PICK o : Become(p, o) /\ o.at # "run"
  <2>1. CASE owed \ {q} = {}
    BY <1>2, <2>1 DEF FinishState
  <2>2. CASE owed \ {q} # {}
    <3>1. PICK o : o = [op[p] EXCEPT !.owed = owed \ {q}]
      OBVIOUS
    <3>2. Become(p, o)
      BY <1>2, <2>2, <3>1 DEF Become
    <3>3. o.at = "bill"
      <4>1. OpOK(op[p]) /\ op[p].at = "bill"
        BY DEF EndBill, TypeInv, TypeOK
      <4>2. op[p] \in [at : {"bill"}, id : Ids, day : Date, row : Row, owed : SUBSET Date]
        BY <4>1 DEF OpOK, Idle
      <4> QED
        BY <3>1, <4>2
    <3> QED
      BY <3>2, <3>3
  <2> QED
    BY <2>1, <2>2
<1>7. Made(o) = Made(op[p])
  BY <1>6 DEF EndBill, Made
<1>8. runs \subseteq runs'
  BY <1>2 DEF AlreadySettled, Generates
<1>9. QueueInv' /\ Queued' = Queued
  BY <1>6, <1>7, <1>8, QueueBecome
<1>10. Ledger!Next
  BY <1>2, <1>3, <1>4, <1>5, <1>9, LedgerPass, LedgerBill
<1> QED
  BY <1>9, <1>10

LEMMA LedgerCrash ==
  ASSUME TypeInv, QueueInv, NEW p \in Procs, Crash(p)
  PROVE  QueueInv' /\ Ledger!Next
<1>1. /\ Become(p, Idle) /\ runs' = runs /\ schedules' = schedules /\ Created' = Created
      /\ mailed' = mailed /\ unsent' = unsent
  BY DEF Crash, Created
<1>2. Made(Idle) = <<>>
  BY DEF Made, Idle
<1>3. QueueInv' /\ Queued' \subseteq Queued
  BY <1>1, <1>2, QueueDrops
<1>4. Waiting' \subseteq Waiting
  BY <1>3 DEF Waiting, CyclesOf
<1>5. BilledCycles' = BilledCycles /\ SkippedCycles' = SkippedCycles /\ Cursors' = Cursors /\ Told' = Told
  BY <1>1, CursorsSame DEF BilledCycles, SkippedCycles, Told
<1> QED
  BY <1>3, <1>4, <1>5 DEF Ledger!Forget, Ledger!Next

LEMMA LedgerInit == Init => QueueInv /\ Ledger!Init
<1> SUFFICES ASSUME Init PROVE QueueInv /\ Ledger!Init
  OBVIOUS
<1>1. runs = {} /\ mailed = {} /\ unsent = {} /\ \A p \in Procs : op[p] = Idle
  BY DEF Init
<1>2. \A p \in Procs : DOMAIN Made(op[p]) = {}
  BY <1>1 DEF Made, Idle
<1>3. QueueInv
  BY <1>2 DEF QueueInv
<1>4. Queued = {}
  BY <1>2, QueuedMade
<1>5. BilledCycles = {} /\ SkippedCycles = {} /\ Waiting = {} /\ Told = {}
  BY <1>1, <1>4 DEF BilledCycles, SkippedCycles, Waiting, Told, CyclesOf
<1>6. Cursors \in [Ids -> Nat]
  BY TypeInvInit DEF Cursors, TypeInv, TypeOK, Created, Row, Date
<1> QED
  BY <1>3, <1>5, <1>6 DEF Ledger!Init

LEMMA LedgerStep ==
  ASSUME OneAnchor, TypeInv, TypeInv', CycleInv, DatesInv, QueueInv, [Next]_vars
  PROVE  QueueInv' /\ [Ledger!Next]_(Ledger!ledger)
<1>1. CASE NextDay \/ UNCHANGED vars
  BY <1>1, QueueSame, LedgerQuiet DEF NextDay, vars, Created
<1>2. ASSUME NEW p \in Procs, NEW s \in Ids, Operator(p, s) PROVE QueueInv' /\ [Ledger!Next]_(Ledger!ledger)
  <2>1. ASSUME NEW anchor \in AnchorDays, NEW auto \in Autosends,
               NEW start \in Starts, AddSchedule(p, s, start, anchor, auto)
        PROVE  QueueInv' /\ Ledger!Next
    BY <2>1, LedgerOpen
  <2>2. ASSUME NEW anchor \in AnchorDays, NEW auto \in Autosends, UpdateSchedule(p, s, anchor, auto)
        PROVE  QueueInv' /\ UNCHANGED Ledger!ledger
    BY <2>2, LedgerEdits
  <2>3. ASSUME PauseSchedule(p, s) \/ SetClientArchived(p, s) PROVE QueueInv' /\ UNCHANGED Ledger!ledger
    BY <2>3, LedgerPauses
  <2>4. ASSUME StartResume(p, s) PROVE QueueInv' /\ UNCHANGED Ledger!ledger
    BY <2>4, LedgerStarts DEF Dispositions
  <2>5. ASSUME NEW how \in Dispositions, StartEnd(p, s, how) PROVE QueueInv' /\ UNCHANGED Ledger!ledger
    BY <2>5, LedgerStarts
  <2> QED
    BY <1>2, <2>1, <2>2, <2>3, <2>4, <2>5 DEF Operator
<1>3. ASSUME NEW p \in Procs, StartRun(p) PROVE QueueInv' /\ [Ledger!Next]_(Ledger!ledger)
  BY <1>3, LedgerRunStarts
<1>4. ASSUME NEW p \in Procs, Continue(p) PROVE QueueInv' /\ [Ledger!Next]_(Ledger!ledger)
  BY <1>4, LedgerForgive, LedgerRun, LedgerTell, LedgerEnd, LedgerEndBill DEF Continue
<1>5. ASSUME NEW p \in Procs, Crash(p) PROVE QueueInv' /\ [Ledger!Next]_(Ledger!ledger)
  BY <1>5, LedgerCrash
<1> QED
  BY <1>1, <1>2, <1>3, <1>4, <1>5 DEF Next

\* The schedules keep the ledger of cycles: however runs, resumes, ends and
\* crashes of any number of processes cross, a cycle is billed or forgiven
\* once, the cursor never goes back nor passes what is open, and an invoice is
\* queued for sending once, by the run that made it.
THEOREM KeepsTheLedger == OneAnchor /\ Spec => LedgerSpec
<1>1. OneAnchor => [](OneAnchor)
  OBVIOUS
<1>2. Init => TypeInv /\ CycleInv /\ DatesInv /\ QueueInv /\ Ledger!Init
  BY TypeInvInit, CycleInvInit, DatesInit, LedgerInit
<1>3. TypeInv /\ [Next]_vars => TypeInv'
  BY TypeInvStep
<1>4. TypeInv /\ CycleInv /\ [Next]_vars => CycleInv'
  BY CycleInvStep
<1>5. OneAnchor /\ TypeInv /\ CycleInv /\ DatesInv /\ [Next]_vars => DatesInv'
  BY DatesStep
<1>6. OneAnchor /\ TypeInv /\ TypeInv' /\ CycleInv /\ DatesInv /\ QueueInv /\ [Next]_vars
        => QueueInv' /\ [Ledger!Next]_(Ledger!ledger)
  BY LedgerStep
<1> QED
  BY <1>1, <1>2, <1>3, <1>4, <1>5, <1>6, PTL DEF LedgerSpec, Ledger!Spec, Spec

=============================================================================
