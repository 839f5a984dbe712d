-------------------------- MODULE InvoicingProofs --------------------------
(***************************************************************************)
(* Proofs about Invoicing, for any number of processes, links, sessions,   *)
(* days, faults and crashes.                                               *)
(***************************************************************************)
EXTENDS Invoicing, FiniteSetTheorems, WellFoundedInduction, TLAPS

-----------------------------------------------------------------------------
(* The inductive invariant *)

\* What is outside the row and the commands.
World ==
  /\ paid \in Nat /\ recorded \subseteq Sessions
  /\ price \in [Links -> Totals \cup {None}] /\ active \subseteq Links
  /\ sessions \in [Sessions -> Links \cup {None}]
  /\ page \in Page \cup {None}
  /\ today \in Days
  /\ mailed \in BOOLEAN /\ known \subseteq Links /\ byHand \in Nat
  /\ leftover \in BOOLEAN /\ faults \in 0..MaxFaults /\ crashes \in 0..MaxCrashes

\* Money moves only through links that have a price.
Priced ==
  /\ \A l \in active : price[l] # None
  /\ \A s \in Sessions : sessions[s] # None => price[sessions[s]] # None

\* What a command knows at each of its steps, of the page pg, the mail m and
\* the completed sessions ss: it writes a status it derived, puts up a page it
\* rendered, emails after a page is up, marks after the email, and records
\* sessions that were completed.
Knows(c, pg, m, ss) ==
  c # Idle =>
    /\ c.at = "write" => c.status \in Statuses
    /\ c.at \in {"publish", "upload"} => c.bill \in Page
    /\ c.at \in {"email", "mark"} => pg # None
    /\ c.at = "mark" => m
    /\ \A s \in c.left : ss[s] # None

Sound == \A p \in Procs : Knows(op[p], page, mailed, sessions)

InvoicingInv == TypeOK /\ Priced /\ Sound /\ SentReachedTheClient

\* What only grows: a page stays up, mail stays delivered, sessions complete.
Lasting ==
  /\ page # None => page' # None
  /\ mailed => mailed'
  /\ \A s \in Sessions : sessions[s] # None => sessions'[s] # None

-----------------------------------------------------------------------------
(* Lemmas about the records a command carries *)

LEMMA TypeParts ==
  TypeOK <=> invoice \in Row \cup {None} /\ World /\ op \in [Procs -> Commands \cup {Idle}]
BY DEF TypeOK, World

\* A command at a step is not idle.
LEMMA Busy ==
  ASSUME TypeOK, NEW p \in Procs, op[p].at \in Steps
  PROVE  op[p] \in Commands /\ op[p] # Idle
BY DEF TypeOK, Idle, Steps

\* A record without a page is not one.
LEMMA PagesAreThere == (\A pg \in Page : pg # None) /\ \A n \in Nat : n # None
BY NoneAssumption

LEMMA NothingUp == VoidNotice \in Page
BY DEF VoidNotice, Page

\* Changing one field keeps the others.
LEMMA AtChanges ==
  ASSUME NEW c \in Commands, NEW at \in Steps
  PROVE  /\ [c EXCEPT !.at = at] \in Commands
         /\ [c EXCEPT !.at = at].at = at
         /\ [c EXCEPT !.at = at].status = c.status
         /\ [c EXCEPT !.at = at].bill = c.bill
         /\ [c EXCEPT !.at = at].left = c.left
BY DEF Commands

LEMMA Derives ==
  ASSUME NEW c \in Commands, NEW st \in Statuses
  PROVE  LET d == [c EXCEPT !.at = "write", !.status = st]
         IN  d \in Commands /\ d.at = "write" /\ d.status = st /\ d.left = c.left
BY DEF Commands, Steps

LEMMA Renders ==
  ASSUME NEW c \in Commands, NEW at \in {"publish", "upload"}, NEW b \in Page
  PROVE  LET d == [c EXCEPT !.at = at, !.bill = b]
         IN  d \in Commands /\ d.at = at /\ d.bill = b /\ d.left = c.left
BY DEF Commands, Steps

LEMMA Linked ==
  ASSUME NEW c \in Commands, NEW l \in Links, NEW row \in Row
  PROVE  LET d == [c EXCEPT !.at = "setlink", !.link = l]
             e == [c EXCEPT !.at = "render", !.row = row]
         IN  /\ d \in Commands /\ d.at = "setlink" /\ d.left = c.left
             /\ e \in Commands /\ e.at = "render" /\ e.left = c.left
BY DEF Commands, Steps

LEMMA Fetches ==
  ASSUME NEW c \in Commands, NEW S \in SUBSET Sessions
  PROVE  LET d == [c EXCEPT !.at = "record", !.left = S]
         IN  d \in Commands /\ d.at = "record" /\ d.left = S
BY DEF Commands, Steps

LEMMA Skips ==
  ASSUME NEW c \in Commands, NEW S \in SUBSET Sessions
  PROVE  LET d == [c EXCEPT !.left = S]
         IN  d \in Commands /\ d.at = c.at /\ d.left = S
BY DEF Commands, Steps

LEMMA Records ==
  ASSUME NEW c \in Commands, NEW S \in SUBSET Sessions
  PROVE  LET d == [c EXCEPT !.at = "refresh", !.then = "record", !.left = S, !.new = TRUE]
         IN  d \in Commands /\ d.at = "refresh" /\ d.left = S
BY DEF Commands, Steps

LEMMA Enters ==
  ASSUME NEW c \in Commands
  PROVE  LET d == [c EXCEPT !.at = "refresh", !.then = "reload"]
         IN  d \in Commands /\ d.at = "refresh" /\ d.left = c.left
BY DEF Commands, Steps

\* A command starts with the row as it is.
LEMMA Starts ==
  ASSUME TypeOK, invoice # None, NEW at \in Steps
  PROVE  /\ Command(at) \in Commands /\ Command(at).at = at /\ Command(at).left = {}
         /\ \A n \in Nat : [Command(at) EXCEPT !.amount = n] \in Commands
         /\ \A n : [Command(at) EXCEPT !.amount = n].at = at /\ [Command(at) EXCEPT !.amount = n].left = {}
<1>1. invoice \in Row /\ today \in Days
  BY DEF TypeOK
<1> QED
  BY <1>1 DEF Command, Commands

\* A page rendered from a row shows figures and a link of their kind.
LEMMA Rendered ==
  ASSUME TypeOK, NEW row \in Row
  PROVE  Bill(row) \in Page
BY MoneyAssumption DEF TypeOK, Bill, Page, Row

LEMMA Clickable ==
  ASSUME NEW pg \in Page \cup {None}, NEW m
  PROVE  Buttons(pg, m) \subseteq Links
BY DEF Buttons, Page

\* The derived status is a status.
LEMMA DerivedIsOne == \A row, day : Derived(row, day) \in Statuses
BY DEF Derived, Statuses

-----------------------------------------------------------------------------
(* A step moves one command, and what the others know lasts *)

LEMMA OneMoves ==
  ASSUME InvoicingInv, NEW p \in Procs, NEW c \in Commands \cup {Idle},
         op' = [op EXCEPT ![p] = c], Lasting, Knows(c, page', mailed', sessions')
  PROVE  op' \in [Procs -> Commands \cup {Idle}] /\ Sound'
<1>1. op' \in [Procs -> Commands \cup {Idle}]
  BY DEF InvoicingInv, TypeOK
<1>2. ASSUME NEW q \in Procs PROVE Knows(op'[q], page', mailed', sessions')
  <2>1. CASE q = p
    BY <2>1 DEF InvoicingInv, TypeOK
  <2>2. CASE q # p
    <3>1. op'[q] = op[q] /\ Knows(op[q], page, mailed, sessions)
      BY <2>2 DEF InvoicingInv, TypeOK, Sound
    <3>2. op[q] # Idle => op[q].left \subseteq Sessions
      BY DEF InvoicingInv, TypeOK, Commands
    <3> QED
      BY <3>1, <3>2 DEF Knows, Lasting
  <2> QED
    BY <2>1, <2>2
<1> QED
  BY <1>1, <1>2 DEF Sound

LEMMA NoneMoves ==
  ASSUME InvoicingInv, op' = op, Lasting
  PROVE  op' \in [Procs -> Commands \cup {Idle}] /\ Sound'
<1>1. ASSUME NEW q \in Procs PROVE Knows(op[q], page', mailed', sessions')
  <2>1. Knows(op[q], page, mailed, sessions)
    BY DEF InvoicingInv, Sound
  <2>2. op[q] # Idle => op[q].left \subseteq Sessions
    BY DEF InvoicingInv, TypeOK, Commands
  <2> QED
    BY <2>1, <2>2 DEF Knows, Lasting
<1> QED
  BY <1>1 DEF InvoicingInv, TypeOK, Sound

\* A finished command knows nothing.
LEMMA Ended ==
  ASSUME InvoicingInv, NEW p \in Procs, Finish(p), Lasting
  PROVE  op' \in [Procs -> Commands \cup {Idle}] /\ Sound'
<1>1. Knows(Idle, page', mailed', sessions')
  BY DEF Knows
<1> QED
  BY <1>1, OneMoves DEF Finish

\* Steps that need nothing but what the command knows already.
Plain == Steps \ {"write", "publish", "upload", "email", "mark"}

LEMMA MovesOn ==
  ASSUME InvoicingInv, NEW p \in Procs, op[p].at \in Steps, NEW at \in Plain, Move(p, at), Lasting
  PROVE  op' \in [Procs -> Commands \cup {Idle}] /\ Sound'
<1> DEFINE c == [op[p] EXCEPT !.at = at]
<1>1. op[p] \in Commands /\ op[p] # Idle
  BY Busy DEF InvoicingInv
<1>2. c \in Commands /\ c.at = at /\ c.left = op[p].left /\ at \in Steps
  BY <1>1, AtChanges DEF Plain
<1>3. \A s \in op[p].left : s \in Sessions /\ sessions[s] # None
  BY <1>1 DEF InvoicingInv, Sound, Knows, Commands
<1>4. op' = [op EXCEPT ![p] = c]
  BY DEF Move
<1> HIDE DEF c
<1>5. Knows(c, page', mailed', sessions')
  BY <1>2, <1>3 DEF Knows, Lasting, Plain
<1> QED
  BY <1>2, <1>4, <1>5, OneMoves

LEMMA Begun ==
  ASSUME InvoicingInv, invoice # None, NEW p \in Procs, NEW at \in Plain, Start(p, at), Lasting
  PROVE  op' \in [Procs -> Commands \cup {Idle}] /\ Sound'
<1> DEFINE c == Command(at)
<1>1. c \in Commands /\ c.at = at /\ c.left = {}
  BY Starts DEF InvoicingInv, Plain
<1>2. op' = [op EXCEPT ![p] = c]
  BY DEF Start
<1> HIDE DEF c
<1>3. Knows(c, page', mailed', sessions')
  BY <1>1 DEF Knows, Plain
<1> QED
  BY <1>1, <1>2, <1>3, OneMoves

-----------------------------------------------------------------------------
(* What a step leaves alone *)

\* Only commands and the row move.
Around == UNCHANGED <<paid, recorded, stripe, page, today, seen, byHand, troubles>>

LEMMA AroundLasts == Around => Lasting
BY DEF Around, Lasting, stripe, seen

LEMMA RowMoves ==
  ASSUME InvoicingInv, Around, op' \in [Procs -> Commands \cup {Idle}] /\ Sound',
         invoice' \in Row \cup {None},
         (invoice' # None /\ invoice'.published) => mailed /\ page # None
  PROVE  InvoicingInv'
BY DEF InvoicingInv, TypeOK, Priced, SentReachedTheClient, Around, stripe, seen, troubles

LEMMA OnlyCommands ==
  ASSUME InvoicingInv, Around, invoice' = invoice, op' \in [Procs -> Commands \cup {Idle}] /\ Sound'
  PROVE  InvoicingInv'
BY RowMoves DEF InvoicingInv, TypeOK, SentReachedTheClient

\* A fault is counted.
LEMMA FaultCounts ==
  ASSUME World, Fault, leftover' \in BOOLEAN
  PROVE  leftover' \in BOOLEAN /\ faults' \in 0..MaxFaults /\ crashes' \in 0..MaxCrashes
BY BoundsAssumption DEF World, Fault

\* The command that is at a step.
LEMMA AtStep ==
  ASSUME InvoicingInv, NEW p \in Procs, op[p].at \in Steps
  PROVE  /\ op[p] \in Commands /\ Knows(op[p], page, mailed, sessions) /\ op[p] # Idle
         /\ op[p].row \in Row /\ op[p].amount \in Nat /\ op[p].link \in Links \cup {None}
         /\ op[p].left \subseteq Sessions /\ op[p].bill \in Page \cup {None}
         /\ op[p].then \in {"done", "record", "reload"} /\ op[p].status \in Statuses \cup {None}
<1>1. op[p] \in Commands /\ op[p] # Idle
  BY Busy DEF InvoicingInv
<1> QED
  BY <1>1 DEF InvoicingInv, Sound, Commands

\* A command given a new field value knows what its new step needs.
LEMMA Refreshes ==
  ASSUME InvoicingInv, NEW p \in Procs, op[p].at \in Steps, NEW c \in Commands,
         op' = [op EXCEPT ![p] = c], Lasting, c.at \in Plain, c.left \subseteq op[p].left
  PROVE  op' \in [Procs -> Commands \cup {Idle}] /\ Sound'
<1>1. \A s \in op[p].left : s \in Sessions /\ sessions[s] # None
  BY AtStep DEF Knows
<1>2. Knows(c, page', mailed', sessions')
  BY <1>1 DEF Knows, Lasting, Plain
<1> QED
  BY <1>2, OneMoves

-----------------------------------------------------------------------------
(* The steps of every command *)

LEMMA RefreshReadKeeps == ASSUME InvoicingInv, NEW p \in Procs, RefreshRead(p) PROVE InvoicingInv'
<1>1. Around /\ invoice' = invoice /\ Lasting
  BY AroundLasts DEF RefreshRead, Around, books
<1>2. CASE Finish(p)
  BY <1>1, <1>2, Ended, OnlyCommands
<1>3. CASE op' = [op EXCEPT ![p].at = "write", ![p].status = Derived(invoice, op[p].day)]
  <2> DEFINE st == Derived(invoice, op[p].day)
  <2> DEFINE c == [op[p] EXCEPT !.at = "write", !.status = st]
  <2>1. op[p].at \in Steps
    BY DEF RefreshRead, Steps
  <2>2. st \in Statuses
    BY DerivedIsOne
  <2> HIDE DEF st
  <2>3. op[p] \in Commands /\ Knows(op[p], page, mailed, sessions) /\ op[p] # Idle
    BY <2>1, AtStep
  <2>4. c \in Commands /\ c.at = "write" /\ c.status = st /\ c.left = op[p].left
    BY <2>2, <2>3, Derives
  <2>5. op' = [op EXCEPT ![p] = c]
    BY <1>3 DEF st
  <2> HIDE DEF c
  <2>6. Knows(c, page', mailed', sessions')
    BY <2>2, <2>3, <2>4, <1>1 DEF Knows, Around, stripe
  <2> QED
    BY <1>1, <2>4, <2>5, <2>6, OneMoves, OnlyCommands
<1> QED
  BY <1>2, <1>3 DEF RefreshRead

LEMMA RefreshWriteKeeps == ASSUME InvoicingInv, NEW p \in Procs, RefreshWrite(p) PROVE InvoicingInv'
<1>1. Around /\ Lasting /\ op[p].at \in Steps
  BY AroundLasts DEF RefreshWrite, Around, Steps
<1>2. op[p].status \in Statuses /\ op[p].then \in {"done", "record", "reload"}
  BY <1>1, AtStep DEF Knows, RefreshWrite
<1>3. op' \in [Procs -> Commands \cup {Idle}] /\ Sound'
  <2>1. CASE Finish(p)
    BY <1>1, <2>1, Ended
  <2>2. CASE op[p].then # "done" /\ Move(p, op[p].then)
    <3>1. op[p].then \in Plain
      BY <1>2, <2>2 DEF Plain, Steps
    <3> QED
      BY <1>1, <2>2, <3>1, MovesOn
  <2> QED
    BY <2>1, <2>2 DEF RefreshWrite
<1>4. CASE invoice = None
  BY <1>1, <1>3, <1>4, OnlyCommands DEF RefreshWrite
<1>5. CASE invoice # None
  <2>1. invoice \in Row /\ invoice' = [invoice EXCEPT !.status = op[p].status]
    BY <1>5 DEF InvoicingInv, TypeOK, RefreshWrite
  <2>2. invoice' \in Row /\ invoice'.published = invoice.published
    BY <2>1, <1>2 DEF Row
  <2> QED
    BY <1>1, <1>3, <1>5, <2>2, RowMoves DEF InvoicingInv, SentReachedTheClient
<1> QED
  BY <1>4, <1>5

LEMMA GoneKeeps == ASSUME InvoicingInv, NEW p \in Procs, Gone(p) PROVE InvoicingInv'
<1>1. Around /\ invoice' = invoice /\ Lasting /\ Finish(p)
  BY AroundLasts DEF Gone, Around, books
<1> QED
  BY <1>1, Ended, OnlyCommands

LEMMA UpdateKeeps == ASSUME InvoicingInv, NEW p \in Procs, UpdateInvoice(p) PROVE InvoicingInv'
<1>1. Around /\ Lasting /\ op[p].at \in Steps /\ Move(p, "refresh") /\ "refresh" \in Plain
  BY AroundLasts DEF UpdateInvoice, Around, Steps, Plain
<1>2. op' \in [Procs -> Commands \cup {Idle}] /\ Sound'
  BY <1>1, MovesOn
<1>3. invoice \in Row
  BY DEF UpdateInvoice, InvoicingInv, TypeOK
<1>4. PICK total \in Totals, due \in DueDates, link \in Links \cup {None} :
        invoice' = [invoice EXCEPT !.due = due, !.total = total, !.link = link]
  <2>1. PICK items \in Totals \cup {None}, d \in DueDates :
          LET moved == items # None /\ items # op[p].row.total /\ op[p].row.link # None
          IN  invoice' = [invoice EXCEPT !.due = d,
                                         !.total = IF items = None THEN @ ELSE items,
                                         !.link = IF moved THEN None ELSE @]
    BY DEF UpdateInvoice
  <2> DEFINE total == IF items = None THEN invoice.total ELSE items
  <2> DEFINE moved == items # None /\ items # op[p].row.total /\ op[p].row.link # None
  <2> DEFINE link == IF moved THEN None ELSE invoice.link
  <2>2. invoice' = [invoice EXCEPT !.due = d, !.total = total, !.link = link]
    BY <2>1
  <2>3. total \in Totals
    BY <1>3 DEF Row
  <2> HIDE DEF moved
  <2>4. link \in Links \cup {None}
    BY <1>3 DEF Row
  <2> HIDE DEF total, link
  <2> QED
    BY <2>2, <2>3, <2>4
<1>5. invoice' \in Row /\ invoice'.published = invoice.published
  BY <1>4, <1>3 DEF Row
<1> QED
  BY <1>1, <1>2, <1>5, RowMoves DEF InvoicingInv, SentReachedTheClient, UpdateInvoice

LEMMA StartsKeep ==
  ASSUME InvoicingInv, NEW p \in Procs, StartEdit(p) \/ StartSend(p) \/ StartSync(p) \/ StartVoid(p)
  PROVE  InvoicingInv'
<1>1. Around /\ invoice' = invoice /\ Lasting /\ invoice # None
  BY AroundLasts DEF StartEdit, StartSend, StartSync, StartVoid, Around, books, Fresh
<1>2. PICK at \in {"edit", "render", "link", "fetch", "void"} : Start(p, at)
  BY DEF StartEdit, StartSend, StartSync, StartVoid
<1>3. at \in Plain
  BY <1>2 DEF Plain, Steps
<1> QED
  BY <1>1, <1>2, <1>3, Begun, OnlyCommands

LEMMA StartPayKeeps == ASSUME InvoicingInv, NEW p \in Procs, StartPay(p) PROVE InvoicingInv'
<1>1. Around /\ invoice' = invoice /\ Lasting /\ invoice # None
  BY AroundLasts DEF StartPay, Around, books, Fresh
<1>2. PICK amount \in Nat : op' = [op EXCEPT ![p] = [Command("pay") EXCEPT !.amount = amount]]
  <2>1. invoice \in Row /\ paid \in Nat
    BY <1>1 DEF InvoicingInv, TypeOK
  <2>2. invoice.total \in Nat
    BY <2>1, MoneyAssumption DEF Row
  <2>3. ~IsSettled(invoice) => invoice.total - paid \in Nat
    BY <2>1, <2>2 DEF IsSettled
  <2> QED
    BY <2>3, MoneyAssumption DEF StartPay
<1> DEFINE c == [Command("pay") EXCEPT !.amount = amount]
<1>3. c \in Commands /\ c.at = "pay" /\ c.left = {}
  BY <1>1, Starts DEF InvoicingInv, Steps
<1>4. op' = [op EXCEPT ![p] = c]
  BY <1>2
<1> HIDE DEF c
<1>5. Knows(c, page', mailed', sessions')
  BY <1>3 DEF Knows
<1> QED
  BY <1>1, <1>3, <1>4, <1>5, OneMoves, OnlyCommands

-----------------------------------------------------------------------------
(* The steps of a send *)

LEMMA Assembled ==
  ASSUME InvoicingInv, op' \in [Procs -> Commands \cup {Idle}] /\ Sound', World', Priced',
         invoice' = invoice, Lasting
  PROVE  InvoicingInv'
BY DEF InvoicingInv, TypeOK, World, SentReachedTheClient, Lasting

LEMMA CreateKeeps == ASSUME InvoicingInv, NEW p \in Procs, CreatePaymentLink(p) PROVE InvoicingInv'
<1>1. /\ op[p].at \in Steps /\ invoice' = invoice /\ Lasting
      /\ UNCHANGED <<paid, recorded, sessions, page, today, seen, byHand, leftover>>
  BY DEF CreatePaymentLink, Steps, books, seen, Lasting, troubles, Fault
<1>2. op[p].row \in Row /\ op[p] \in Commands
  BY <1>1, AtStep
<1>3. op[p].row.total \in Totals
  BY <1>2 DEF Row
<1>4. PICK l \in Links :
        /\ IsNext(l, Unmade)
        /\ \/ price' = [price EXCEPT ![l] = op[p].row.total] /\ active' = active \cup {l}
           \/ UNCHANGED <<price, active>>
        /\ \/ op' = [op EXCEPT ![p].at = "setlink", ![p].link = l] /\ UNCHANGED troubles
           \/ Finish(p) /\ Fault /\ UNCHANGED leftover
  BY DEF CreatePaymentLink
<1>5. op' \in [Procs -> Commands \cup {Idle}] /\ Sound'
  <2>1. CASE Finish(p)
    BY <1>1, <2>1, Ended
  <2>2. CASE op' = [op EXCEPT ![p].at = "setlink", ![p].link = l]
    <3> DEFINE c == [op[p] EXCEPT !.at = "setlink", !.link = l]
    <3>1. c \in Commands /\ c.at = "setlink" /\ c.left = op[p].left
      BY <1>2, Linked
    <3>2. op' = [op EXCEPT ![p] = c]
      BY <2>2
    <3> HIDE DEF c
    <3> QED
      BY <1>1, <3>1, <3>2, Refreshes DEF Plain, Steps
  <2> QED
    BY <1>4, <2>1, <2>2
<1>6. leftover' \in BOOLEAN /\ faults' \in 0..MaxFaults /\ crashes' \in 0..MaxCrashes
  BY <1>1, <1>4, FaultCounts, TypeParts DEF InvoicingInv, World, troubles
<1>7. price[l] = None
  BY <1>4 DEF IsNext, Unmade
<1>8. price' \in [Links -> Totals \cup {None}] /\ active' \subseteq Links
  BY <1>3, <1>4 DEF InvoicingInv, TypeOK
<1>9. World'
  BY <1>1, <1>6, <1>8 DEF World, InvoicingInv, TypeOK, seen
<1>10. op[p].row.total # None
  BY <1>3, MoneyAssumption, PagesAreThere
<1>11. Priced'
  BY <1>1, <1>4, <1>7, <1>10 DEF Priced, InvoicingInv, TypeOK
<1> QED
  BY <1>1, <1>5, <1>9, <1>11, Assembled

LEMMA SetLinkKeeps == ASSUME InvoicingInv, NEW p \in Procs, SetPaymentLink(p) PROVE InvoicingInv'
<1>1. Around /\ Lasting /\ op[p].at \in Steps
  BY AroundLasts DEF SetPaymentLink, Around, Steps
<1>2. invoice \in Row /\ op[p].link \in Links \cup {None} /\ op[p] \in Commands
  BY <1>1, AtStep DEF SetPaymentLink, InvoicingInv, TypeOK
<1>3. invoice' = [invoice EXCEPT !.link = op[p].link]
  BY DEF SetPaymentLink
<1>4. invoice' \in Row /\ invoice'.published = invoice.published
  BY <1>2, <1>3 DEF Row
<1> DEFINE row == invoice'
<1> DEFINE c == [op[p] EXCEPT !.at = "render", !.row = row]
<1>5. op' = [op EXCEPT ![p] = c]
  BY DEF SetPaymentLink
<1>6. row \in Row
  BY <1>4
<1> HIDE DEF row
<1>7. c \in Commands /\ c.at = "render" /\ c.left = op[p].left
  BY <1>2, <1>6 DEF Commands, Steps
<1> HIDE DEF c
<1>8. op' \in [Procs -> Commands \cup {Idle}] /\ Sound'
  BY <1>1, <1>5, <1>7, Refreshes DEF Plain, Steps
<1> QED
  BY <1>1, <1>4, <1>8, RowMoves DEF InvoicingInv, SentReachedTheClient, SetPaymentLink

LEMMA RenderKeeps == ASSUME InvoicingInv, NEW p \in Procs, Render(p) PROVE InvoicingInv'
<1>1. Around /\ invoice' = invoice /\ Lasting /\ op[p].at \in Steps
  BY AroundLasts DEF Render, Around, books, Steps
<1>2. op[p] \in Commands /\ Knows(op[p], page, mailed, sessions) /\ op[p] # Idle /\ op[p].row \in Row
  BY <1>1, AtStep
<1> DEFINE b == Bill(op[p].row)
<1> DEFINE c == [op[p] EXCEPT !.at = "publish", !.bill = b]
<1>3. b \in Page
  BY <1>2, Rendered DEF InvoicingInv
<1>4. op' = [op EXCEPT ![p] = c]
  BY DEF Render
<1> HIDE DEF b
<1>5. c \in Commands /\ c.at = "publish" /\ c.bill = b /\ c.left = op[p].left
  BY <1>2, <1>3, Renders
<1> HIDE DEF c
<1>6. Knows(c, page', mailed', sessions')
  BY <1>1, <1>2, <1>3, <1>5 DEF Knows, Around, stripe
<1> QED
  BY <1>1, <1>4, <1>5, <1>6, OneMoves, OnlyCommands

\* What a command puts up is a page, and its button leads to a link.
LEMMA Showing ==
  ASSUME InvoicingInv, NEW p \in Procs, op[p].at \in {"publish", "upload"},
         Shown(p) \/ UNCHANGED <<page, known>>
  PROVE  /\ page' \in Page \cup {None} /\ known' \subseteq Links
         /\ Shown(p) => page' # None
         /\ page # None => page' # None
<1>1. op[p].bill \in Page
  BY AtStep DEF Knows, Steps
<1>2. Buttons(op[p].bill, mailed) \subseteq Links
  BY <1>1, Clickable
<1> QED
  BY <1>1, <1>2, PagesAreThere DEF Shown, InvoicingInv, TypeOK

LEMMA PublishKeeps == ASSUME InvoicingInv, NEW p \in Procs, PublishPage(p) PROVE InvoicingInv'
<1>1. /\ op[p].at = "publish" /\ op[p].at \in Steps /\ invoice' = invoice
      /\ Shown(p) \/ UNCHANGED <<page, known>>
      /\ UNCHANGED <<paid, recorded, price, active, sessions, today, mailed, byHand, leftover>>
  BY DEF PublishPage, Steps, books, stripe, troubles
<1>2. page' \in Page \cup {None} /\ known' \subseteq Links
      /\ (Shown(p) => page' # None) /\ (page # None => page' # None)
  BY <1>1, Showing
<1>3. Lasting
  BY <1>1, <1>2 DEF Lasting
<1>4. op' \in [Procs -> Commands \cup {Idle}] /\ Sound'
  <2>1. CASE Finish(p)
    BY <1>3, <2>1, Ended
  <2>2. CASE Shown(p) /\ Move(p, "email")
    <3> DEFINE c == [op[p] EXCEPT !.at = "email"]
    <3>1. op[p] \in Commands /\ Knows(op[p], page, mailed, sessions) /\ op[p] # Idle
      BY <1>1, AtStep
    <3>2. c \in Commands /\ c.at = "email" /\ c.left = op[p].left
      BY <3>1, AtChanges DEF Steps
    <3>3. op' = [op EXCEPT ![p] = c]
      BY <2>2 DEF Move
    <3> HIDE DEF c
    <3>4. Knows(c, page', mailed', sessions')
      BY <1>1, <1>2, <2>2, <3>1, <3>2 DEF Knows
    <3> QED
      BY <1>3, <3>2, <3>3, <3>4, OneMoves
  <2> QED
    BY <2>1, <2>2 DEF PublishPage
<1>5. leftover' \in BOOLEAN /\ faults' \in 0..MaxFaults /\ crashes' \in 0..MaxCrashes
  BY <1>1, FaultCounts, TypeParts DEF InvoicingInv, World, troubles, PublishPage
<1>6. World' /\ Priced'
  BY <1>1, <1>2, <1>5 DEF World, InvoicingInv, TypeOK, Priced
<1> QED
  BY <1>1, <1>3, <1>4, <1>6, Assembled

\* The address is in the email, and the page is up.
LEMMA EmailKeeps == ASSUME InvoicingInv, NEW p \in Procs, EmailInvoice(p) PROVE InvoicingInv'
<1>1. /\ op[p].at = "email" /\ op[p].at \in Steps /\ invoice' = invoice
      /\ Delivered \/ UNCHANGED seen
      /\ UNCHANGED <<paid, recorded, price, active, sessions, today, page, byHand, leftover>>
  BY DEF EmailInvoice, Steps, books, stripe, troubles
<1>2. Lasting
  <2>1. mailed => mailed'
    BY <1>1, Zenon DEF Delivered, seen
  <2> QED
    BY <1>1, <2>1 DEF Lasting
<1>3. op[p] \in Commands /\ Knows(op[p], page, mailed, sessions) /\ op[p] # Idle
  BY <1>1, AtStep
<1>4. op' \in [Procs -> Commands \cup {Idle}] /\ Sound'
  <2>1. CASE Finish(p)
    BY <1>2, <2>1, Ended
  <2>2. CASE Delivered /\ Move(p, "mark")
    <3> DEFINE c == [op[p] EXCEPT !.at = "mark"]
    <3>1. c \in Commands /\ c.at = "mark" /\ c.left = op[p].left
      BY <1>3, AtChanges DEF Steps
    <3>2. op' = [op EXCEPT ![p] = c]
      BY <2>2 DEF Move
    <3> HIDE DEF c
    <3>3. Knows(c, page', mailed', sessions')
      BY <1>1, <1>3, <2>2, <3>1 DEF Knows, Delivered
    <3> QED
      BY <1>2, <3>1, <3>2, <3>3, OneMoves
  <2> QED
    BY <2>1, <2>2 DEF EmailInvoice
<1>5. leftover' \in BOOLEAN /\ faults' \in 0..MaxFaults /\ crashes' \in 0..MaxCrashes
  BY <1>1, FaultCounts, TypeParts DEF InvoicingInv, World, troubles, EmailInvoice
<1>6. mailed' \in BOOLEAN /\ known' \subseteq Links
  BY <1>1, Clickable DEF Delivered, seen, InvoicingInv, TypeOK
<1>7. World' /\ Priced'
  BY <1>1, <1>5, <1>6 DEF World, InvoicingInv, TypeOK, Priced
<1> QED
  BY <1>1, <1>2, <1>4, <1>7, Assembled

LEMMA MarkKeeps == ASSUME InvoicingInv, NEW p \in Procs, MarkPublished(p) PROVE InvoicingInv'
<1>1. /\ Around /\ Lasting /\ op[p].at \in Steps /\ op[p].at = "mark"
      /\ Move(p, "refresh") /\ "refresh" \in Plain
  BY AroundLasts DEF MarkPublished, Around, Steps, Plain
<1>2. op' \in [Procs -> Commands \cup {Idle}] /\ Sound'
  BY <1>1, MovesOn
<1>3. mailed /\ page # None
  BY <1>1, AtStep DEF Knows
<1>4. invoice \in Row /\ invoice' = [invoice EXCEPT !.published = TRUE]
  BY DEF MarkPublished, InvoicingInv, TypeOK
<1>5. invoice' \in Row
  BY <1>4 DEF Row
<1> QED
  BY <1>1, <1>2, <1>3, <1>5, RowMoves

-----------------------------------------------------------------------------
(* The steps of payments *)

LEMMA ByHandKeeps == ASSUME InvoicingInv, NEW p \in Procs, RecordByHand(p) PROVE InvoicingInv'
<1>1. /\ op[p].at \in Steps /\ invoice' = invoice /\ Lasting
      /\ paid' = paid + op[p].amount /\ byHand' = byHand + op[p].amount
      /\ UNCHANGED <<recorded, stripe, page, today, seen, troubles>>
  BY DEF RecordByHand, Steps, Lasting, stripe, seen
<1>2. op[p] \in Commands /\ op[p].amount \in Nat
  BY <1>1, AtStep
<1> DEFINE c == [op[p] EXCEPT !.at = "refresh", !.then = "reload"]
<1>3. c \in Commands /\ c.at = "refresh" /\ c.left = op[p].left
  BY <1>2, Enters
<1>4. op' = [op EXCEPT ![p] = c]
  BY DEF RecordByHand
<1> HIDE DEF c
<1>5. op' \in [Procs -> Commands \cup {Idle}] /\ Sound'
  BY <1>1, <1>3, <1>4, Refreshes DEF Plain, Steps
<1>6. World' /\ Priced'
  BY <1>1, <1>2 DEF World, InvoicingInv, TypeOK, Priced, stripe, seen, troubles
<1> QED
  BY <1>1, <1>5, <1>6, Assembled

\* The sessions fetched through a link were completed.
LEMMA FetchKeeps == ASSUME InvoicingInv, NEW p \in Procs, PaidSessions(p) PROVE InvoicingInv'
<1>1. /\ op[p].at \in Steps /\ invoice' = invoice /\ Lasting
      /\ UNCHANGED <<books, stripe, page, today, seen, byHand, leftover>>
  BY DEF PaidSessions, Steps, Lasting, books, stripe, seen, troubles
<1>2. op' \in [Procs -> Commands \cup {Idle}] /\ Sound'
  <2>1. CASE Finish(p)
    BY <1>1, <2>1, Ended
  <2>2. CASE /\ invoice.link # None
             /\ op' = [op EXCEPT ![p].at = "record", ![p].left = PaidVia(invoice.link)]
    <3> DEFINE S == PaidVia(invoice.link)
    <3>1. S \subseteq Sessions /\ \A s \in S : sessions[s] # None
      BY <2>2 DEF PaidVia
    <3>2. op' = [op EXCEPT ![p].at = "record", ![p].left = S]
      BY <2>2
    <3> HIDE DEF S
    <3> DEFINE c == [op[p] EXCEPT !.at = "record", !.left = S]
    <3>3. op[p] \in Commands
      BY <1>1, AtStep
    <3>4. c \in Commands /\ c.at = "record" /\ c.left = S
      BY <3>1, <3>3, Fetches
    <3>5. op' = [op EXCEPT ![p] = c]
      BY <3>2
    <3> HIDE DEF c
    <3>6. Knows(c, page', mailed', sessions')
      BY <1>1, <3>1, <3>4 DEF Knows, stripe
    <3> QED
      BY <1>1, <3>4, <3>5, <3>6, OneMoves
  <2> QED
    BY <2>1, <2>2 DEF PaidSessions
<1>3. leftover' \in BOOLEAN /\ faults' \in 0..MaxFaults /\ crashes' \in 0..MaxCrashes
  BY <1>1, FaultCounts, TypeParts DEF InvoicingInv, World, troubles, PaidSessions
<1>4. World' /\ Priced'
  BY <1>1, <1>3 DEF World, InvoicingInv, TypeOK, Priced, books, stripe, seen
<1> QED
  BY <1>1, <1>2, <1>4, Assembled

LEMMA RecordKeeps == ASSUME InvoicingInv, NEW p \in Procs, RecordPayment(p) PROVE InvoicingInv'
<1>1. Around /\ invoice' = invoice /\ Lasting /\ op[p].at = "record" /\ op[p].at \in Steps
  BY AroundLasts DEF RecordPayment, Around, books, Steps
<1>2. CASE Finish(p)
  BY <1>1, <1>2, Ended, OnlyCommands
<1>3. ASSUME NEW at \in {"reload", "insert"}, Move(p, at) PROVE InvoicingInv'
  BY <1>1, <1>3, MovesOn, OnlyCommands DEF Plain, Steps
<1>4. ASSUME NEW s, op' = [op EXCEPT ![p].left = @ \ {s}] PROVE InvoicingInv'
  <2> DEFINE S == op[p].left \ {s}
  <2> DEFINE c == [op[p] EXCEPT !.left = S]
  <2>1. op[p] \in Commands /\ op[p].left \subseteq Sessions
    BY <1>1, AtStep
  <2>2. op' = [op EXCEPT ![p] = c]
    BY <1>4
  <2>3. S \in SUBSET Sessions /\ S \subseteq op[p].left
    BY <2>1
  <2> HIDE DEF S
  <2>4. c \in Commands /\ c.at = op[p].at /\ c.left = S
    BY <2>1, <2>3, Skips
  <2> HIDE DEF c
  <2> QED
    BY <1>1, <2>2, <2>3, <2>4, Refreshes, OnlyCommands DEF Plain, Steps
<1> QED
  BY <1>2, <1>3, <1>4 DEF RecordPayment

\* What a session paid has a price.
LEMMA InsertKeeps == ASSUME InvoicingInv, NEW p \in Procs, InsertPayment(p) PROVE InvoicingInv'
<1>1. /\ op[p].at = "insert" /\ op[p].at \in Steps /\ invoice' = invoice /\ Lasting
      /\ UNCHANGED <<stripe, page, today, seen, byHand, troubles>>
  BY DEF InsertPayment, Steps, Lasting, stripe, seen
<1>2. op[p] \in Commands /\ op[p].left \subseteq Sessions /\ Knows(op[p], page, mailed, sessions) /\ op[p] # Idle
  BY <1>1, AtStep
<1>3. CASE Finish(p) /\ UNCHANGED <<recorded, paid>>
  BY <1>1, <1>3, Ended, OnlyCommands DEF Around
<1>4. ASSUME NEW s \in op[p].left,
             recorded' = recorded \cup {s}, paid' = paid + price[sessions[s]],
             op' = [op EXCEPT ![p].at = "refresh", ![p].then = "record", ![p].left = @ \ {s}, ![p].new = TRUE]
      PROVE  InvoicingInv'
  <2> DEFINE S == op[p].left \ {s}
  <2> DEFINE c == [op[p] EXCEPT !.at = "refresh", !.then = "record", !.left = S, !.new = TRUE]
  <2>1. op' = [op EXCEPT ![p] = c]
    BY <1>4
  <2>2. S \in SUBSET Sessions /\ S \subseteq op[p].left
    BY <1>2
  <2> HIDE DEF S
  <2>3. c \in Commands /\ c.at = "refresh" /\ c.left = S
    BY <1>2, <2>2, Records
  <2> HIDE DEF c
  <2>4. op' \in [Procs -> Commands \cup {Idle}] /\ Sound'
    BY <1>1, <2>1, <2>2, <2>3, Refreshes DEF Plain, Steps
  <2>5. s \in Sessions /\ sessions[s] # None
    BY <1>2 DEF Knows
  <2>6. sessions[s] \in Links /\ price[sessions[s]] # None
    BY <2>5 DEF InvoicingInv, TypeOK, Priced
  <2>7. price[sessions[s]] \in Nat
    BY <2>6, MoneyAssumption DEF InvoicingInv, TypeOK
  <2>8. World' /\ Priced'
    BY <1>1, <1>4, <2>5, <2>7 DEF World, InvoicingInv, TypeOK, Priced, stripe, seen, troubles
  <2> QED
    BY <1>1, <2>4, <2>8, Assembled
<1> QED
  BY <1>3, <1>4 DEF InsertPayment

LEMMA RepublishKeeps == ASSUME InvoicingInv, NEW p \in Procs, Republish(p) PROVE InvoicingInv'
<1>1. Around /\ invoice' = invoice /\ Lasting /\ op[p].at \in Steps /\ invoice \in Row
  BY AroundLasts DEF Republish, Around, books, Steps, InvoicingInv, TypeOK
<1>2. op[p] \in Commands /\ Knows(op[p], page, mailed, sessions) /\ op[p] # Idle
  BY <1>1, AtStep
<1>3. CASE Finish(p)
  BY <1>1, <1>3, Ended, OnlyCommands
<1>4. CASE op' = [op EXCEPT ![p].at = "upload", ![p].bill = Bill(invoice)]
  <2> DEFINE b == Bill(invoice)
  <2> DEFINE c == [op[p] EXCEPT !.at = "upload", !.bill = b]
  <2>1. b \in Page
    BY <1>1, Rendered DEF InvoicingInv
  <2>2. op' = [op EXCEPT ![p] = c]
    BY <1>4
  <2> HIDE DEF b
  <2>3. c \in Commands /\ c.at = "upload" /\ c.bill = b /\ c.left = op[p].left
    BY <1>2, <2>1, Renders
  <2> HIDE DEF c
  <2>4. Knows(c, page', mailed', sessions')
    BY <1>1, <1>2, <2>1, <2>3 DEF Knows, Around, stripe
  <2> QED
    BY <1>1, <2>2, <2>3, <2>4, OneMoves, OnlyCommands
<1> QED
  BY <1>3, <1>4 DEF Republish

LEMMA UploadKeeps == ASSUME InvoicingInv, NEW p \in Procs, UploadPage(p) PROVE InvoicingInv'
<1>1. /\ op[p].at = "upload" /\ invoice' = invoice /\ Finish(p)
      /\ Shown(p) \/ UNCHANGED <<page, known>>
      /\ UNCHANGED <<paid, recorded, price, active, sessions, today, mailed, byHand>>
      /\ UNCHANGED troubles \/ Warned
  BY DEF UploadPage, books, stripe
<1>2. page' \in Page \cup {None} /\ known' \subseteq Links /\ (page # None => page' # None)
  BY <1>1, Showing
<1>3. Lasting
  BY <1>1, <1>2 DEF Lasting
<1>4. leftover' \in BOOLEAN /\ faults' \in 0..MaxFaults /\ crashes' \in 0..MaxCrashes
  BY <1>1, FaultCounts, TypeParts DEF InvoicingInv, World, troubles, Warned
<1>5. World' /\ Priced'
  BY <1>1, <1>2, <1>4 DEF World, InvoicingInv, TypeOK, Priced
<1> QED
  BY <1>1, <1>3, <1>5, Ended, Assembled

-----------------------------------------------------------------------------
(* Voiding, deleting, and what processes do not do *)

LEMMA VoidKeeps == ASSUME InvoicingInv, NEW p \in Procs, VoidInvoice(p) PROVE InvoicingInv'
<1>1. Around /\ Lasting /\ op[p].at \in Steps /\ Move(p, "unlink") /\ "unlink" \in Plain
  BY AroundLasts DEF VoidInvoice, Around, Steps, Plain
<1>2. op' \in [Procs -> Commands \cup {Idle}] /\ Sound'
  BY <1>1, MovesOn
<1>3. invoice \in Row /\ invoice' = [invoice EXCEPT !.voided = TRUE, !.status = "void"]
  BY DEF VoidInvoice, InvoicingInv, TypeOK
<1>4. invoice' \in Row /\ invoice'.published = invoice.published
  BY <1>3 DEF Row, Statuses
<1> QED
  BY <1>1, <1>2, <1>4, RowMoves DEF InvoicingInv, SentReachedTheClient, VoidInvoice

LEMMA UnlinkKeeps == ASSUME InvoicingInv, NEW p \in Procs, DeactivateLink(p) PROVE InvoicingInv'
<1>1. /\ op[p].at \in Steps /\ invoice' = invoice /\ Lasting /\ active' \subseteq active
      /\ Move(p, "unpage") /\ "unpage" \in Plain
      /\ UNCHANGED <<paid, recorded, price, sessions, page, today, seen, byHand>>
      /\ UNCHANGED troubles \/ Warned
  BY DEF DeactivateLink, Steps, Plain, Lasting, books, seen
<1>2. op' \in [Procs -> Commands \cup {Idle}] /\ Sound'
  BY <1>1, MovesOn
<1>3. leftover' \in BOOLEAN /\ faults' \in 0..MaxFaults /\ crashes' \in 0..MaxCrashes
  BY <1>1, FaultCounts, TypeParts DEF InvoicingInv, World, troubles, Warned
<1>4. World' /\ Priced'
  BY <1>1, <1>3 DEF World, InvoicingInv, TypeOK, Priced, seen
<1> QED
  BY <1>1, <1>2, <1>4, Assembled

\* The notice takes the page's place: there still is a page.
LEMMA UnpageKeeps == ASSUME InvoicingInv, NEW p \in Procs, ReplacePage(p) PROVE InvoicingInv'
<1>1. /\ invoice' = invoice /\ Finish(p) /\ page' \in {page, VoidNotice}
      /\ UNCHANGED <<paid, recorded, stripe, today, seen, byHand>>
      /\ UNCHANGED troubles \/ Warned
  BY DEF ReplacePage, books
<1>2. page' \in Page \cup {None} /\ (page # None => page' # None)
  BY <1>1, NothingUp, PagesAreThere DEF InvoicingInv, TypeOK
<1>3. Lasting
  BY <1>1, <1>2 DEF Lasting, stripe, seen
<1>4. leftover' \in BOOLEAN /\ faults' \in 0..MaxFaults /\ crashes' \in 0..MaxCrashes
  BY <1>1, FaultCounts, TypeParts DEF InvoicingInv, World, troubles, Warned
<1>5. World' /\ Priced'
  BY <1>1, <1>2, <1>4 DEF World, InvoicingInv, TypeOK, Priced, stripe, seen
<1> QED
  BY <1>1, <1>3, <1>5, Ended, Assembled

LEMMA DeleteKeeps == ASSUME InvoicingInv, NEW p \in Procs, DeleteInvoice(p) PROVE InvoicingInv'
<1>1. Around /\ op' = op /\ invoice' = None
  BY DEF DeleteInvoice, Around
<1> QED
  BY <1>1, AroundLasts, NoneMoves, RowMoves

\* A client pays only through links that take money, which have a price.
LEMMA PayingKeeps == ASSUME InvoicingInv, ClientPays PROVE InvoicingInv'
<1>1. PICK l \in known \cap active, s \in Sessions :
        /\ IsNext(s, {x \in Sessions : sessions[x] = None})
        /\ sessions' = [sessions EXCEPT ![s] = l]
        /\ UNCHANGED <<books, price, active, page, today, op, seen, byHand, troubles>>
  BY DEF ClientPays
<1>2. l \in Links /\ l # None /\ price[l] # None
  BY PagesAreThere DEF InvoicingInv, TypeOK, Priced, Links
<1>3. Lasting
  BY <1>1, <1>2 DEF Lasting, seen, InvoicingInv, TypeOK
<1>4. World'
  BY <1>1, <1>2 DEF World, InvoicingInv, TypeOK, books, seen, troubles
<1>5. Priced'
  BY <1>1, <1>2 DEF InvoicingInv, TypeOK, Priced
<1> QED
  BY <1>1, <1>3, <1>4, <1>5, NoneMoves, Assembled DEF books

LEMMA TickKeeps == ASSUME InvoicingInv, Tick PROVE InvoicingInv'
<1>1. Lasting /\ op' = op /\ invoice' = invoice
  BY DEF Tick, Lasting, books, stripe, seen
<1>2. today' \in Days
  BY BoundsAssumption DEF Tick, InvoicingInv, TypeOK, Days
<1>3. World' /\ Priced'
  BY <1>2 DEF Tick, World, InvoicingInv, TypeOK, Priced, books, stripe, seen, troubles
<1> QED
  BY <1>1, <1>3, NoneMoves, Assembled

LEMMA CrashKeeps == ASSUME InvoicingInv, NEW p \in Procs, Crash(p) PROVE InvoicingInv'
<1>1. Lasting /\ Finish(p) /\ invoice' = invoice
  BY DEF Crash, Lasting, books, stripe, seen
<1>2. crashes' \in 0..MaxCrashes /\ leftover' \in BOOLEAN
  BY BoundsAssumption DEF Crash, InvoicingInv, TypeOK
<1>3. World' /\ Priced'
  BY <1>2 DEF Crash, World, InvoicingInv, TypeOK, Priced, books, stripe, seen
<1> QED
  BY <1>1, <1>3, Ended, Assembled

LEMMA StutterKeeps == ASSUME InvoicingInv, UNCHANGED vars PROVE InvoicingInv'
<1>1. Around /\ invoice' = invoice /\ op' = op
  BY DEF vars, books, Around
<1> QED
  BY <1>1, AroundLasts, NoneMoves, OnlyCommands

-----------------------------------------------------------------------------
(* The theorems *)

LEMMA InitHolds == Init => InvoicingInv
<1> SUFFICES ASSUME Init PROVE InvoicingInv
  OBVIOUS
<1>1. invoice \in Row
  BY DEF Init, Row, Statuses
<1>2. invoice.published = FALSE
  BY DEF Init
<1>3. World
  <2>1. today \in Days /\ faults \in 0..MaxFaults /\ crashes \in 0..MaxCrashes /\ paid \in Nat /\ byHand \in Nat
    BY BoundsAssumption DEF Init, Days
  <2>2. price \in [Links -> Totals \cup {None}] /\ sessions \in [Sessions -> Links \cup {None}]
    BY DEF Init
  <2>3. recorded \subseteq Sessions /\ active \subseteq Links /\ known \subseteq Links /\ page \in Page \cup {None}
    BY DEF Init
  <2>4. mailed \in BOOLEAN /\ leftover \in BOOLEAN
    BY DEF Init
  <2> QED
    BY <2>1, <2>2, <2>3, <2>4 DEF World
<1>4. op \in [Procs -> Commands \cup {Idle}]
  BY DEF Init
<1>5. TypeOK
  BY <1>1, <1>3, <1>4, TypeParts
<1>6. Priced
  BY DEF Init, Priced
<1>7. Sound
  BY DEF Init, Sound, Knows
<1> QED
  BY <1>2, <1>5, <1>6, <1>7 DEF InvoicingInv, SentReachedTheClient

LEMMA ContinueKeeps == ASSUME InvoicingInv, NEW p \in Procs, Continue(p) PROVE InvoicingInv'
BY RefreshReadKeeps, RefreshWriteKeeps, GoneKeeps, UpdateKeeps, CreateKeeps, SetLinkKeeps,
   RenderKeeps, PublishKeeps, EmailKeeps, MarkKeeps, ByHandKeeps, FetchKeeps, RecordKeeps,
   InsertKeeps, RepublishKeeps, UploadKeeps, VoidKeeps, UnlinkKeeps, UnpageKeeps DEF Continue

LEMMA NextKeeps == InvoicingInv /\ [Next]_vars => InvoicingInv'
<1> SUFFICES ASSUME InvoicingInv, [Next]_vars PROVE InvoicingInv'
  OBVIOUS
<1>1. CASE UNCHANGED vars
  BY <1>1, StutterKeeps
<1>2. ASSUME NEW p \in Procs,
             \/ StartEdit(p) \/ StartSend(p) \/ StartPay(p) \/ StartSync(p)
             \/ StartVoid(p) \/ DeleteInvoice(p)
             \/ Continue(p)
             \/ Crash(p)
      PROVE  InvoicingInv'
  BY <1>2, StartsKeep, StartPayKeeps, DeleteKeeps, ContinueKeeps, CrashKeeps
<1>3. CASE ClientPays
  BY <1>3, PayingKeeps
<1>4. CASE Tick
  BY <1>4, TickKeeps
<1> QED
  BY <1>1, <1>2, <1>3, <1>4 DEF Next

\* The invariant holds in every reachable state.
THEOREM InvoicingInvariant == Spec => []InvoicingInv
<1> QED
  BY InitHolds, NextKeeps, PTL DEF Spec

\* The row, the world and the copies commands carry keep their types.
THEOREM TypeCorrect == Spec => []TypeOK
<1>1. InvoicingInv => TypeOK
  BY DEF InvoicingInv
<1> QED
  BY <1>1, InvoicingInvariant, PTL

\* However many commands cross, fail and are killed, an invoice marked
\* published was mailed and has a page (invoicing/send.rs:338).
THEOREM NothingHalfSent == Spec => []SentReachedTheClient
<1>1. InvoicingInv => SentReachedTheClient
  BY DEF InvoicingInv
<1> QED
  BY <1>1, InvoicingInvariant, PTL

-----------------------------------------------------------------------------
(* Sums over finite sets.  What holds of all of them is shown by the       *)
(* smallest one it could fail for.                                         *)

\* Of a set of numbers, one is least.
LEMMA Least ==
  ASSUME NEW T \in SUBSET Nat, T # {}
  PROVE  \E n \in T : \A k \in T : n <= k
<1> DEFINE R == {ss \in Nat \X Nat : ss[1] < ss[2]}
<1>1. IsWellFoundedOn(R, Nat)
  BY NatLessThanWellFounded DEF OpToRel
<1>2. \A k, n \in Nat : k < n => <<k, n>> \in R
  OBVIOUS
<1> HIDE DEF R
<1>3. \E n \in T : \A k \in T : ~(<<k, n>> \in R)
  BY <1>1, WFMin, Zenon
<1>4. PICK n \in T : \A k \in T : ~(<<k, n>> \in R)
  BY <1>3
<1>5. \A k \in T : k \in Nat /\ n \in Nat /\ ~(k < n)
  BY <1>2, <1>4
<1>6. \A k \in T : n <= k
  BY <1>5
<1> QED
  BY <1>6

\* f adds up w over the subsets of R, one element after another.
Adds(f, R, w) ==
  f = [S \in SUBSET R |->
         IF S = {} THEN 0
         ELSE LET s == CHOOSE x \in S : TRUE IN w[s] + f[S \ {s}]]

\* What is so for a set once it is so for all smaller ones is so for all: of the
\* sets for which it is not, none is smallest.
LEMMA Smallest ==
  ASSUME NEW R, IsFiniteSet(R), NEW Bad, Bad \subseteq SUBSET R, Bad # {}
  PROVE  \E S \in Bad : \A Q \in SUBSET R : Cardinality(Q) < Cardinality(S) => Q \notin Bad
<1> DEFINE sizes == {Cardinality(S) : S \in Bad}
<1>1. \A S \in SUBSET R : Cardinality(S) \in Nat
  BY FS_Subset, FS_CardinalityType
<1>2. sizes \in SUBSET Nat /\ sizes # {}
  BY <1>1
<1>3. PICK n \in sizes : \A k \in sizes : n <= k
  <2> HIDE DEF sizes
  <2> QED
    BY <1>2, Least
<1>4. PICK S \in Bad : Cardinality(S) = n
  OBVIOUS
<1>5. ASSUME NEW Q \in SUBSET R, Cardinality(Q) < Cardinality(S), Q \in Bad PROVE FALSE
  <2>1. n <= Cardinality(Q) /\ n \in Nat /\ Cardinality(Q) \in Nat
    BY <1>1, <1>2, <1>3, <1>5
  <2> QED
    BY <2>1, <1>4, <1>5
<1> QED
  BY <1>4, <1>5

LEMMA Rest ==
  ASSUME NEW R, IsFiniteSet(R), NEW S \in SUBSET R, NEW x \in S
  PROVE  /\ S \ {x} \in SUBSET R
         /\ Cardinality(S \ {x}) < Cardinality(S)
<1>1. IsFiniteSet(S) /\ Cardinality(S) \in Nat
  BY FS_Subset, FS_CardinalityType
<1>2. Cardinality(S \ {x}) = Cardinality(S) - 1
  BY <1>1, FS_RemoveElement
<1> QED
  BY <1>1, <1>2

\* There is such an f: it is built up from the smaller subsets.
LEMMA AddsExists ==
  ASSUME NEW R, IsFiniteSet(R), NEW w
  PROVE  \E f : Adds(f, R, w)
<1> DEFINE Small(n) == {S \in SUBSET R : Cardinality(S) <= n}
           Add(f, S) == IF S = {} THEN 0
                         ELSE LET s == CHOOSE x \in S : TRUE IN w[s] + f[S \ {s}]
           Has(n) == \E f : f = [S \in Small(n) |-> Add(f, S)]
           Bad == {n \in Nat : ~Has(n)}
<1>1. \A S \in SUBSET R : Cardinality(S) \in Nat /\ IsFiniteSet(S)
  BY FS_Subset, FS_CardinalityType
<1>2. ASSUME NEW n \in Nat, \A k \in Nat : k < n => Has(k) PROVE Has(n)
  <2>1. CASE n = 0
    <3>1. Small(n) = {{}}
      BY <2>1, <1>1, FS_EmptySet
    <3> DEFINE f == [S \in {{}} |-> 0]
    <3>2. f = [S \in Small(n) |-> Add(f, S)]
      BY <3>1
    <3> QED
      BY <3>2
  <2>2. CASE n # 0
    <3>1. n - 1 \in Nat /\ n - 1 < n
      BY <2>2
    <3>2. PICK g : g = [S \in Small(n - 1) |-> Add(g, S)]
      BY <3>1, <1>2
    <3> DEFINE f == [S \in Small(n) |-> Add(g, S)]
    <3>3. \A S \in Small(n - 1) : S \in Small(n) /\ f[S] = g[S]
      <4>1. \A S \in Small(n - 1) : S \in Small(n)
        BY <3>1, <1>1
      <4> HIDE DEF Next, Small
      <4>2. \A S \in Small(n - 1) : g[S] = Add(g, S)
        BY <3>2
      <4> QED
        BY <4>1, <4>2
    <3>4. ASSUME NEW S \in Small(n) PROVE Add(g, S) = Add(f, S)
      <4>1. CASE S = {}
        BY <4>1
      <4>2. CASE S # {}
        <5> DEFINE s == CHOOSE x \in S : TRUE
        <5>1. s \in S
          BY <4>2
        <5>2. S \ {s} \in Small(n - 1)
          <6>1. Cardinality(S \ {s}) < Cardinality(S) /\ S \ {s} \in SUBSET R
            BY <5>1, Rest
          <6> QED
            BY <6>1, <1>1, <3>1
        <5>3. f[S \ {s}] = g[S \ {s}]
          BY <5>2, <3>3
        <5> QED
          BY <4>2, <5>3
      <4> QED
        BY <4>1, <4>2
    <3>5. f = [S \in Small(n) |-> Add(f, S)]
      <4>1. \A S \in Small(n) : f[S] = Add(f, S)
        BY <3>4
      <4> HIDE DEF Next, Small
      <4>2. f = [S \in Small(n) |-> f[S]]
        OBVIOUS
      <4> HIDE DEF f
      <4> QED
        BY <4>1, <4>2
    <3> QED
      BY <3>5
  <2> QED
    BY <2>1, <2>2
<1>3. \A n \in Nat : Has(n)
  <2> SUFFICES ASSUME Bad # {} PROVE FALSE
    BY DEF Bad
  <2> HIDE DEF Has
  <2>1. PICK n \in Bad : \A k \in Bad : n <= k
    BY Least
  <2>2. \A k \in Nat : k < n => Has(k)
    BY <2>1
  <2> QED
    BY <2>1, <2>2, <1>2
<1>4. Small(Cardinality(R)) = SUBSET R
  BY <1>1, FS_Subset
<1>5. Has(Cardinality(R))
  <2>1. Cardinality(R) \in Nat
    BY FS_CardinalityType
  <2> HIDE DEF Has
  <2> QED
    BY <2>1, <1>3
<1>6. \E f : f = [S \in SUBSET R |-> Add(f, S)]
  <2> HIDE DEF Next
  <2> QED
    BY <1>4, <1>5
<1> QED
  BY <1>6 DEF Adds

\* The order does not matter: any element may be taken out first.
LEMMA AnyOrder ==
  ASSUME NEW R, IsFiniteSet(R), NEW w \in [R -> Int], NEW f, Adds(f, R, w)
  PROVE  \A S \in SUBSET R : f[S] \in Int /\ \A x \in S : f[S] = w[x] + f[S \ {x}]
<1> DEFINE Good(S) == f[S] \in Int /\ \A x \in S : f[S] = w[x] + f[S \ {x}]
           Bad == {S \in SUBSET R : ~Good(S)}
<1> SUFFICES ASSUME Bad # {} PROVE FALSE
  OBVIOUS
<1>1. PICK S \in Bad : \A Q \in SUBSET R : Cardinality(Q) < Cardinality(S) => Q \notin Bad
  <2> HIDE DEF Bad
  <2>1. Bad \subseteq SUBSET R
    BY DEF Bad
  <2> QED
    BY <2>1, Smallest
<1>2. \A Q \in SUBSET R : Cardinality(Q) < Cardinality(S) => Good(Q)
  BY <1>1
<1>3. S # {}
  <2>1. f[{}] = 0
    BY DEF Adds
  <2> QED
    BY <2>1
<1> DEFINE c == CHOOSE x \in S : TRUE
<1>4. c \in S
  BY <1>3
<1>5. f[S] = w[c] + f[S \ {c}]
  BY <1>3 DEF Adds
<1>6. \A x \in S : S \ {x} \in SUBSET R /\ Good(S \ {x})
  BY <1>2, Rest
<1> HIDE DEF c
<1>7. \A x \in S : w[x] \in Int /\ f[S \ {x}] \in Int
  BY <1>6
<1>8. ASSUME NEW x \in S PROVE f[S] = w[x] + f[S \ {x}]
  <2>1. CASE x = c
    BY <2>1, <1>5
  <2>2. CASE x # c
    <3>1. f[S \ {c}] = w[x] + f[(S \ {c}) \ {x}]
      BY <2>2, <1>4, <1>6
    <3>2. f[S \ {x}] = w[c] + f[(S \ {x}) \ {c}]
      BY <2>2, <1>4, <1>6
    <3>3. (S \ {c}) \ {x} = (S \ {x}) \ {c}
      OBVIOUS
    <3>4. (S \ {c}) \ {x} \in SUBSET R /\ f[(S \ {c}) \ {x}] \in Int
      <4>1. S \ {c} \in SUBSET R /\ x \in S \ {c}
        BY <2>2, <1>4, <1>6
      <4>2. (S \ {c}) \ {x} \in SUBSET R /\ Cardinality((S \ {c}) \ {x}) < Cardinality(S \ {c})
        BY <4>1, Rest
      <4>3. Cardinality(S \ {c}) < Cardinality(S)
        BY <1>4, Rest
      <4>4. Cardinality((S \ {c}) \ {x}) \in Nat /\ Cardinality(S \ {c}) \in Nat /\ Cardinality(S) \in Nat
        BY <4>1, <4>2, FS_Subset, FS_CardinalityType
      <4> QED
        BY <4>2, <4>3, <4>4, <1>2
    <3> HIDE DEF Good, Bad
    <3> DEFINE rest == f[(S \ {c}) \ {x}]
    <3>5. w[c] \in Int /\ w[x] \in Int /\ rest \in Int
      BY <3>4, <1>4, <1>7
    <3>6. f[S] = w[c] + (w[x] + rest) /\ f[S \ {x}] = w[c] + rest
      BY <3>1, <3>2, <3>3, <1>5
    <3> HIDE DEF rest
    <3>7. w[c] + (w[x] + rest) = w[x] + (w[c] + rest)
      BY <3>5
    <3> QED
      BY <3>6, <3>7
  <2> QED
    BY <2>1, <2>2
<1>9. f[S] \in Int
  <2> HIDE DEF Good, Bad
  <2>1. w[c] \in Int /\ f[S \ {c}] \in Int
    BY <1>4, <1>7
  <2>2. w[c] + f[S \ {c}] \in Int
    BY <2>1
  <2> QED
    BY <2>2, <1>5
<1> QED
  BY <1>1, <1>8, <1>9

\* Two that add up the same weights agree where both are defined.
LEMMA SameSum ==
  ASSUME NEW R, IsFiniteSet(R), NEW w, NEW f, Adds(f, R, w),
         NEW Q, NEW v, NEW g, Adds(g, Q, v), R \subseteq Q, \A x \in R : v[x] = w[x]
  PROVE  \A S \in SUBSET R : f[S] = g[S]
<1> DEFINE Bad == {S \in SUBSET R : f[S] # g[S]}
<1> SUFFICES ASSUME Bad # {} PROVE FALSE
  OBVIOUS
<1>1. PICK S \in Bad : \A P \in SUBSET R : Cardinality(P) < Cardinality(S) => P \notin Bad
  <2> HIDE DEF Bad
  <2>1. Bad \subseteq SUBSET R
    BY DEF Bad
  <2> QED
    BY <2>1, Smallest
<1>2. \A P \in SUBSET R : Cardinality(P) < Cardinality(S) => f[P] = g[P]
  BY <1>1
<1>3. CASE S = {}
  <2>1. f[{}] = 0 /\ g[{}] = 0
    BY DEF Adds
  <2> QED
    BY <2>1, <1>1, <1>3
<1>4. CASE S # {}
  <2> DEFINE c == CHOOSE x \in S : TRUE
  <2>1. c \in S
    BY <1>4
  <2>2. f[S] = w[c] + f[S \ {c}]
    BY <1>1, <1>4 DEF Adds
  <2>3. g[S] = v[c] + g[S \ {c}]
    <3>1. S \in SUBSET Q
      BY <1>1
    <3> QED
      BY <3>1, <1>4 DEF Adds
  <2>4. f[S \ {c}] = g[S \ {c}]
    <3>1. S \in SUBSET R
      BY <1>1
    <3>2. S \ {c} \in SUBSET R /\ Cardinality(S \ {c}) < Cardinality(S)
      BY <2>1, <3>1, Rest
    <3> QED
      BY <3>2, <1>2
  <2>5. v[c] = w[c]
    BY <2>1, <1>1
  <2> QED
    BY <2>2, <2>3, <2>4, <2>5, <1>1
<1> QED
  BY <1>3, <1>4

-----------------------------------------------------------------------------
(* The books and Stripe's charges *)

\* What the sessions R charged, by the prices pr of the links ss they went through.
Charged(R, pr, ss) ==
  LET sum[S \in SUBSET R] ==
        IF S = {} THEN 0
        ELSE LET s == CHOOSE x \in S : TRUE IN pr[ss[s]] + sum[S \ {s}]
  IN  sum[R]

Charges(R, pr, ss) == [s \in R |-> pr[ss[s]]]

LEMMA ChargedAdds ==
  ASSUME NEW R, IsFiniteSet(R), NEW pr, NEW ss
  PROVE  \E f : Adds(f, R, Charges(R, pr, ss)) /\ Charged(R, pr, ss) = f[R]
<1> DEFINE w == Charges(R, pr, ss)
           Step(f, S) == IF S = {} THEN 0
                         ELSE LET s == CHOOSE x \in S : TRUE IN pr[ss[s]] + f[S \ {s}]
           g == CHOOSE f : f = [S \in SUBSET R |-> Step(f, S)]
<1>1. \A f : Adds(f, R, w) <=> f = [S \in SUBSET R |-> Step(f, S)]
  <2> SUFFICES ASSUME NEW f
               PROVE  Adds(f, R, w) <=> f = [S \in SUBSET R |-> Step(f, S)]
    OBVIOUS
  <2> DEFINE Weighed(S) == IF S = {} THEN 0
                           ELSE LET s == CHOOSE x \in S : TRUE IN w[s] + f[S \ {s}]
             Summed(S) == Step(f, S)
  <2>1. \A S \in SUBSET R : S # {} => (CHOOSE x \in S : TRUE) \in R
    OBVIOUS
  <2>2. \A s \in R : w[s] = pr[ss[s]]
    BY DEF Charges
  <2> HIDE DEF w
  <2>3. \A S \in SUBSET R : Weighed(S) = Summed(S)
    BY <2>1, <2>2
  <2>4. Adds(f, R, w) <=> f = [S \in SUBSET R |-> Weighed(S)]
    BY DEF Adds
  <2> HIDE DEF Weighed, Summed
  <2>5. [S \in SUBSET R |-> Weighed(S)] = [S \in SUBSET R |-> Summed(S)]
    BY <2>3
  <2>6. Adds(f, R, w) <=> f = [S \in SUBSET R |-> Summed(S)]
    BY <2>4, <2>5
  <2> QED
    BY <2>6 DEF Summed
<1>2. \E f : f = [S \in SUBSET R |-> Step(f, S)]
  <2>1. \E f : Adds(f, R, w)
    BY AddsExists
  <2> HIDE DEF Step, w
  <2> QED
    BY <1>1, <2>1
<1>3. g = [S \in SUBSET R |-> Step(g, S)]
  <2> HIDE DEF Step
  <2> QED
    BY <1>2
<1>4. Charged(R, pr, ss) = g[R]
  BY DEF Charged
<1> QED
  BY <1>1, <1>3, <1>4

\* It depends on what the links of the sessions in R charge, and on nothing else.
LEMMA ChargedStays ==
  ASSUME NEW R, IsFiniteSet(R), NEW pr, NEW ss, NEW qr, NEW qs,
         \A s \in R : qr[qs[s]] = pr[ss[s]]
  PROVE  Charged(R, qr, qs) = Charged(R, pr, ss)
<1>1. PICK f : Adds(f, R, Charges(R, pr, ss)) /\ Charged(R, pr, ss) = f[R]
  BY ChargedAdds
<1>2. PICK g : Adds(g, R, Charges(R, qr, qs)) /\ Charged(R, qr, qs) = g[R]
  BY ChargedAdds
<1>3. Charges(R, pr, ss) = Charges(R, qr, qs)
  BY DEF Charges
<1>4. f[R] = g[R]
  BY <1>1, <1>2, <1>3, SameSum
<1> QED
  BY <1>1, <1>2, <1>4

LEMMA ChargedType ==
  ASSUME NEW R, IsFiniteSet(R), NEW pr, NEW ss, \A s \in R : pr[ss[s]] \in Int
  PROVE  Charged(R, pr, ss) \in Int
<1>1. PICK f : Adds(f, R, Charges(R, pr, ss)) /\ Charged(R, pr, ss) = f[R]
  BY ChargedAdds
<1>2. Charges(R, pr, ss) \in [R -> Int]
  BY DEF Charges
<1> QED
  BY <1>1, <1>2, AnyOrder

\* One session more adds its charge.
OneMore(Q, x, pr, ss) == Charged(Q, pr, ss) = Charged(Q \ {x}, pr, ss) + pr[ss[x]]

LEMMA ChargedMore ==
  ASSUME NEW Q, IsFiniteSet(Q), NEW pr, NEW ss, NEW x \in Q, \A s \in Q : pr[ss[s]] \in Int
  PROVE  OneMore(Q, x, pr, ss)
<1> DEFINE R == Q \ {x}
<1>1. IsFiniteSet(R) /\ R \subseteq Q
  BY FS_RemoveElement
<1> HIDE DEF R
<1>2. PICK f : Adds(f, R, Charges(R, pr, ss)) /\ Charged(R, pr, ss) = f[R]
  BY <1>1, ChargedAdds
<1>3. PICK g : Adds(g, Q, Charges(Q, pr, ss)) /\ Charged(Q, pr, ss) = g[Q]
  BY ChargedAdds
<1>4. Charges(Q, pr, ss) \in [Q -> Int] /\ Charges(Q, pr, ss)[x] = pr[ss[x]]
  BY DEF Charges
<1>5. \A s \in R : Charges(Q, pr, ss)[s] = Charges(R, pr, ss)[s]
  BY <1>1 DEF Charges
<1>6. f[R] = g[R]
  <2>1. R \in SUBSET R
    OBVIOUS
  <2> QED
    BY <1>1, <1>2, <1>3, <1>5, <2>1, SameSum
<1>7. g[Q] = Charges(Q, pr, ss)[x] + g[Q \ {x}] /\ g[R] \in Int
  <2>1. Q \in SUBSET Q /\ R \in SUBSET Q /\ x \in Q
    BY <1>1
  <2> QED
    BY <1>1, <1>3, <1>4, <2>1, AnyOrder
<1>8. Q \ {x} = R
  BY DEF R
<1>9. Charged(Q, pr, ss) = pr[ss[x]] + Charged(R, pr, ss) /\ Charged(R, pr, ss) \in Int
  BY <1>2, <1>3, <1>4, <1>6, <1>7, <1>8
<1>10. Charged(Q, pr, ss) = Charged(R, pr, ss) + pr[ss[x]]
  <2>1. pr[ss[x]] \in Int
    OBVIOUS
  <2> QED
    BY <1>9, <2>1
<1> QED
  BY <1>10 DEF OneMore, R

\* The invariant: what is recorded was completed, and the books add up.
Booked == (\A s \in recorded : sessions[s] # None) /\ EachPaymentOnce

LEMMA ByStripeCharged ==
  /\ ByStripe = Charged(recorded, price, sessions)
  /\ ByStripe' = Charged(recorded', price', sessions')
BY DEF ByStripe, Charged

LEMMA SessionsFinite == ASSUME InvoicingInv PROVE IsFiniteSet(recorded)
<1>1. IsFiniteSet(Sessions)
  BY FS_Interval, BoundsAssumption DEF Sessions
<1> QED
  BY <1>1, FS_Subset DEF InvoicingInv, TypeOK

\* What a completed session charged is known and stays.
ChargesStand ==
  /\ \A s \in Sessions : sessions[s] # None => sessions'[s] = sessions[s]
  /\ \A l \in Links : price[l] # None => price'[l] = price[l]

LEMMA StandingCharges ==
  ASSUME InvoicingInv, Booked, NEW s \in recorded
  PROVE  /\ s \in Sessions /\ sessions[s] \in Links
         /\ price[sessions[s]] # None /\ price[sessions[s]] \in Nat
<1>1. s \in Sessions /\ sessions[s] # None
  BY DEF InvoicingInv, TypeOK, Booked
<1>2. sessions[s] \in Links /\ price[sessions[s]] # None
  BY <1>1 DEF InvoicingInv, TypeOK, Priced
<1> QED
  BY <1>1, <1>2, MoneyAssumption DEF InvoicingInv, TypeOK

LEMMA BookedStays ==
  ASSUME InvoicingInv, Booked, UNCHANGED <<paid, recorded, byHand>>, ChargesStand
  PROVE  Booked'
<1>1. ASSUME NEW s \in recorded PROVE price'[sessions'[s]] = price[sessions[s]]
  <2>1. /\ s \in Sessions /\ sessions[s] \in Links
        /\ price[sessions[s]] # None /\ sessions[s] # None
    BY StandingCharges DEF Booked
  <2> QED
    BY <2>1 DEF ChargesStand
<1>2. Charged(recorded, price', sessions') = Charged(recorded, price, sessions)
  BY <1>1, SessionsFinite, ChargedStays
<1>3. EachPaymentOnce'
  BY <1>2, ByStripeCharged DEF Booked, EachPaymentOnce
<1>4. \A s \in recorded' : sessions'[s] # None
  BY StandingCharges DEF ChargesStand, Booked
<1> QED
  BY <1>3, <1>4 DEF Booked

\* Most steps touch neither the payments nor what sessions charged.
LEMMA BookedElse ==
  ASSUME InvoicingInv, Booked, UNCHANGED <<paid, recorded, byHand, price, sessions>>
  PROVE  Booked'
BY BookedStays DEF ChargesStand

\* Only a link that has no price yet is given one.
LEMMA BookedCreate == ASSUME InvoicingInv, Booked, NEW p \in Procs, CreatePaymentLink(p) PROVE Booked'
<1>1. UNCHANGED <<paid, recorded, byHand, sessions>>
  BY DEF CreatePaymentLink, books
<1>2. \A l \in Links : price[l] # None => price'[l] = price[l]
  <2>1. PICK k \in Links :
          /\ IsNext(k, Unmade)
          /\ price' = [price EXCEPT ![k] = op[p].row.total] \/ price' = price
    BY DEF CreatePaymentLink
  <2>2. price[k] = None
    BY <2>1 DEF IsNext, Unmade
  <2> QED
    BY <2>1, <2>2 DEF InvoicingInv, TypeOK
<1> QED
  BY <1>1, <1>2, BookedStays DEF ChargesStand

\* Only a session that is not completed yet is.
LEMMA BookedPays == ASSUME InvoicingInv, Booked, ClientPays PROVE Booked'
<1>1. PICK l \in known \cap active, k \in Sessions :
        /\ IsNext(k, {x \in Sessions : sessions[x] = None})
        /\ sessions' = [sessions EXCEPT ![k] = l]
        /\ UNCHANGED <<books, price, byHand>>
  BY DEF ClientPays
<1>2. sessions[k] = None
  BY <1>1 DEF IsNext
<1>3. \A s \in Sessions : sessions[s] # None => sessions'[s] = sessions[s]
  BY <1>1, <1>2 DEF InvoicingInv, TypeOK
<1> QED
  BY <1>1, <1>3, BookedStays DEF ChargesStand, books

LEMMA BookedByHand == ASSUME InvoicingInv, Booked, NEW p \in Procs, RecordByHand(p) PROVE Booked'
<1>1. /\ paid' = paid + op[p].amount /\ byHand' = byHand + op[p].amount
      /\ UNCHANGED <<recorded, price, sessions>>
  BY DEF RecordByHand, stripe
<1>2. op[p] \in Commands /\ op[p].amount \in Nat
  BY AtStep DEF RecordByHand, Steps
<1>3. ByStripe' = ByStripe /\ ByStripe \in Int
  <2>1. \A s \in recorded : price[sessions[s]] \in Int
    BY StandingCharges
  <2>2. Charged(recorded, price, sessions) \in Int
    BY <2>1, SessionsFinite, ChargedType, Zenon
  <2> QED
    BY <1>1, <2>2, ByStripeCharged
<1>4. paid \in Nat /\ byHand \in Nat /\ paid = byHand + ByStripe
  BY DEF InvoicingInv, TypeOK, Booked, EachPaymentOnce
<1>5. paid' = byHand' + ByStripe'
  BY <1>1, <1>2, <1>3, <1>4
<1> QED
  BY <1>1, <1>5 DEF Booked, EachPaymentOnce

\* A session goes into the books once: the column is UNIQUE.
LEMMA BookedInsert == ASSUME InvoicingInv, Booked, NEW p \in Procs, InsertPayment(p) PROVE Booked'
<1>1. UNCHANGED <<price, sessions, byHand>>
  BY DEF InsertPayment, stripe
<1>2. CASE UNCHANGED <<recorded, paid>>
  BY <1>1, <1>2, BookedElse
<1>3. ASSUME NEW x \in op[p].left, x \notin recorded,
             recorded' = recorded \cup {x}, paid' = paid + price[sessions[x]]
      PROVE  Booked'
  <2>1. op[p] \in Commands /\ op[p].left \subseteq Sessions /\ Knows(op[p], page, mailed, sessions) /\ op[p] # Idle
    BY AtStep DEF InsertPayment, Steps
  <2>2. x \in Sessions /\ sessions[x] # None
    BY <2>1 DEF Knows
  <2>3. sessions[x] \in Links /\ price[sessions[x]] # None
    BY <2>2 DEF InvoicingInv, TypeOK, Priced
  <2>4. price[sessions[x]] \in Nat
    BY <2>3, MoneyAssumption DEF InvoicingInv, TypeOK
  <2>5. \A s \in recorded' : price[sessions[s]] \in Int
    BY <1>3, <2>4, StandingCharges
  <2>6. /\ Charged(recorded, price, sessions) \in Int
        /\ Charged(recorded', price, sessions) = Charged(recorded, price, sessions) + price[sessions[x]]
    <3>1. x \notin recorded
      BY <1>3
    <3>2. IsFiniteSet(recorded)
      BY SessionsFinite
    <3>3. Charged(recorded, price, sessions) \in Int
      <4>1. \A s \in recorded : price[sessions[s]] \in Int
        BY <1>3, <2>5
      <4> QED
        BY <3>2, <4>1, ChargedType, Zenon
    <3>4. x \in recorded' /\ recorded' \ {x} = recorded /\ IsFiniteSet(recorded')
      BY <1>3, <3>1, <3>2, FS_AddElement
    <3>5. OneMore(recorded', x, price, sessions)
      BY <2>5, <3>4, ChargedMore, Zenon
    <3>6. Charged(recorded', price, sessions) = Charged(recorded, price, sessions) + price[sessions[x]]
      BY <3>4, <3>5 DEF OneMore
    <3> QED
      BY <3>3, <3>6
  <2>7. ByStripe \in Int /\ ByStripe' = ByStripe + price[sessions[x]]
    BY <1>1, <1>3, <2>6, ByStripeCharged
  <2>8. paid \in Nat /\ byHand \in Nat /\ paid = byHand + ByStripe
    BY DEF InvoicingInv, TypeOK, Booked, EachPaymentOnce
  <2>9. paid' = byHand' + ByStripe'
    BY <1>1, <1>3, <2>4, <2>7, <2>8
  <2> QED
    BY <1>1, <1>3, <2>2, <2>9 DEF Booked, EachPaymentOnce
<1> QED
  BY <1>2, <1>3 DEF InsertPayment

LEMMA BookedNext == InvoicingInv /\ Booked /\ [Next]_vars => Booked'
<1> SUFFICES ASSUME InvoicingInv, Booked, [Next]_vars PROVE Booked'
  OBVIOUS
<1> USE DEF books, stripe
<1>1. CASE UNCHANGED vars
  BY <1>1, BookedElse DEF vars
<1>2. CASE Tick
  BY <1>2, BookedElse DEF Tick
<1>3. ASSUME NEW p \in Procs,
             \/ StartEdit(p) \/ StartSend(p) \/ StartPay(p) \/ StartSync(p) \/ StartVoid(p)
             \/ DeleteInvoice(p) \/ Crash(p)
      PROVE  Booked'
  BY <1>3, BookedElse DEF StartEdit, StartSend, StartPay, StartSync, StartVoid, DeleteInvoice, Crash
<1>4. ASSUME NEW p \in Procs,
             \/ RefreshRead(p) \/ RefreshWrite(p) \/ Gone(p) \/ UpdateInvoice(p)
             \/ SetPaymentLink(p) \/ Render(p) \/ PublishPage(p) \/ EmailInvoice(p) \/ MarkPublished(p)
      PROVE  Booked'
  BY <1>4, BookedElse DEF RefreshRead, RefreshWrite, Gone, UpdateInvoice, SetPaymentLink, Render,
     PublishPage, EmailInvoice, MarkPublished
<1>5. ASSUME NEW p \in Procs,
             \/ PaidSessions(p) \/ RecordPayment(p) \/ Republish(p) \/ UploadPage(p)
             \/ VoidInvoice(p) \/ DeactivateLink(p) \/ ReplacePage(p)
      PROVE  Booked'
  BY <1>5, BookedElse DEF PaidSessions, RecordPayment, Republish, UploadPage, VoidInvoice,
     DeactivateLink, ReplacePage
<1> QED
  BY <1>1, <1>2, <1>3, <1>4, <1>5, BookedCreate, BookedPays, BookedByHand, BookedInsert DEF Next, Continue

\* Whatever syncs and payments cross, fail or are killed, the books hold each
\* payment by hand and each recorded session's charge, once
\* (migrations.rs:110, stripe_checkout_session_id UNIQUE).
THEOREM PaymentsBookedOnce == Spec => []EachPaymentOnce
<1>1. Init => Booked
  <2> SUFFICES ASSUME Init PROVE Booked
    OBVIOUS
  <2>1. recorded = {} /\ paid = 0 /\ byHand = 0
    BY DEF Init
  <2>2. PICK f : Adds(f, {}, Charges({}, price, sessions)) /\ Charged({}, price, sessions) = f[{}]
    BY FS_EmptySet, ChargedAdds
  <2>3. ByStripe = 0
    BY <2>1, <2>2, ByStripeCharged DEF Adds
  <2> QED
    BY <2>1, <2>3 DEF Booked, EachPaymentOnce
<1>2. Booked => EachPaymentOnce
  BY DEF Booked
<1> QED
  BY <1>1, <1>2, BookedNext, InvoicingInvariant, PTL DEF Spec

-----------------------------------------------------------------------------
(* One process at a time *)

\* The commands of one process, one after the other.
Alone == \A p, q \in Procs : p = q

\* The status column is about to be rewritten.
Rewriting(c) == c # Idle /\ c.at \in {"refresh", "write"}

\* The page is about to be replaced, after a payment or a void.
Behind(c) ==
  /\ c # Idle
  /\ \/ c.at \in {"reload", "upload", "unlink", "unpage"}
     \/ c.at \in {"refresh", "write"} /\ c.then # "done"
     \/ c.at \in {"record", "insert"} /\ c.new

\* The row, whatever was cut short: its link charges its total, and its status
\* says no more than what happened.
RowKept ==
  invoice # None =>
    /\ invoice.link # None => price[invoice.link] = invoice.total
    /\ invoice.voided <=> invoice.status = "void"
    /\ invoice.status \in OpenStatuses => invoice.published
    /\ invoice.status = "paid" => paid >= invoice.total

\* What a command may rely on at each of its steps, with no other at work: the
\* row is the one it read, the page the one it put up.
InStep(c) ==
  c # Idle =>
    /\ invoice # None /\ c.day <= today
    /\ c.at \notin {"unlink", "unpage"} => ~invoice.voided
    /\ c.at \in {"edit", "link", "setlink", "render", "publish", "void"} => c.row = invoice
    /\ c.at \in {"edit", "link", "setlink", "render", "publish", "email", "mark"} => c.then = "done"
    /\ c.at = "edit" => Editable(invoice)
    /\ c.at \in {"link", "setlink"} => invoice.link = None
    /\ c.at = "setlink" => c.link # None /\ price[c.link] = invoice.total
    /\ c.at \in {"render", "publish", "email", "mark"} => invoice.link # None
    /\ c.at \in {"publish", "upload"} => c.bill = Bill(invoice)
    /\ c.at \in {"email", "mark"} => page = Bill(invoice)
    /\ c.at = "upload" => invoice.published
    /\ c.at = "pay" => c.amount > 0
    /\ c.at = "insert" => \A s \in c.left : IsNext(s, c.left) => s \notin recorded
    /\ c.at = "write" => c.status = Derived(invoice, c.day)
    /\ c.at \in {"refresh", "write"} /\ c.then = "record" => c.new
    /\ c.at = "void" => paid = 0
    /\ c.at \in {"unlink", "unpage"} => invoice.voided /\ c.row.published = invoice.published

\* While nothing was cut short: a published invoice has a link, the status is
\* the one the facts gave on some day, and the page shows what the row does.
Dated == \E d \in Days : d <= today /\ invoice.status = Derived(invoice, d)

Shows == invoice.published => page = IF invoice.voided THEN VoidNotice ELSE Bill(invoice)

Settledness == invoice.voided \/ (invoice.status = "paid" <=> paid >= invoice.total)

Whole(c) ==
  (~leftover /\ invoice # None) =>
    /\ invoice.published => invoice.link # None
    /\ Settledness \/ (Rewriting(c) /\ c.then # "done")
    /\ ~Rewriting(c) => Dated
    /\ ~Behind(c) => Shows

One(c) == RowKept /\ InStep(c) /\ Whole(c)

AloneInv == (\A p \in Procs : One(op[p])) /\ (Procs = {} => One(Idle))

LEMMA OneCommand ==
  ASSUME Alone, TypeOK, NEW p \in Procs, NEW o, op' = [op EXCEPT ![p] = o], One(o)'
  PROVE  AloneInv'
<1>1. \A q \in Procs : op'[q] = o
  BY DEF Alone, TypeOK
<1>2. \A q \in Procs : One(op[q])'
  BY <1>1 DEF One, RowKept, InStep, Whole
<1> QED
  BY <1>2 DEF AloneInv

\* A command that goes to its next step keeps all it holds.
GoesTo(c, at, o) ==
  /\ o # Idle /\ o.at = at /\ o.day = c.day /\ o.row = c.row /\ o.amount = c.amount
  /\ o.link = c.link /\ o.left = c.left /\ o.new = c.new /\ o.status = c.status
  /\ o.bill = c.bill /\ o.then = c.then

LEMMA NextStep ==
  ASSUME NEW c \in Commands, NEW at \in Steps, NEW o, o = [c EXCEPT !.at = at]
  PROVE  GoesTo(c, at, o)
BY DEF GoesTo, Commands, Idle, Steps

\* The types of the row and of the command.
LEMMA RowTyped ==
  ASSUME InvoicingInv, invoice # None
  PROVE  /\ invoice \in Row /\ paid \in Nat /\ today \in Days
         /\ invoice.total \in Nat /\ invoice.total > 0 /\ invoice.voided \in BOOLEAN
         /\ invoice.published \in BOOLEAN /\ invoice.link \in Links \cup {None}
         /\ invoice.status \in Statuses
<1>1. invoice \in Row /\ paid \in Nat /\ today \in Days
  BY DEF InvoicingInv, TypeOK
<1>2. invoice.total \in Totals
  BY <1>1 DEF Row
<1>3. invoice.voided \in BOOLEAN /\ invoice.published \in BOOLEAN
  BY <1>1 DEF Row
<1>4. invoice.link \in Links \cup {None} /\ invoice.status \in Statuses
  BY <1>1 DEF Row
<1>5. invoice.total \in Nat \ {0}
  BY <1>2, MoneyAssumption
<1> QED
  BY <1>1, <1>3, <1>4, <1>5

LEMMA RefreshReadAlone ==
  ASSUME Alone, InvoicingInv, NEW p \in Procs, One(op[p]), RefreshRead(p) PROVE AloneInv'
<1>1. PICK c : c = op[p]
  OBVIOUS
<1>2. c \in Commands /\ c # Idle /\ c.at = "refresh" /\ One(c)
  BY <1>1, AtStep DEF RefreshRead, Steps
<1>3. PICK o : o = [c EXCEPT !.at = "write", !.status = Derived(invoice, c.day)]
  OBVIOUS
<1>4. op' = [op EXCEPT ![p] = o] /\ UNCHANGED <<books, stripe, page, today, seen, byHand, troubles>>
  BY <1>1, <1>2, <1>3 DEF RefreshRead, One, InStep
<1>5. /\ o # Idle /\ o.at = "write" /\ o.day = c.day /\ o.then = c.then /\ o.new = c.new
      /\ o.status = Derived(invoice, c.day)
  BY <1>2, <1>3 DEF Commands, Idle
<1>6. RowKept'
  BY <1>2, <1>4 DEF One, RowKept, books, stripe
<1>7. InStep(o)'
  BY <1>2, <1>4, <1>5 DEF One, InStep, books, stripe, Derived, IsSettled
<1>8. Whole(o)'
  BY <1>2, <1>4, <1>5 DEF One, Whole, Rewriting, Behind, books, stripe, troubles, Settledness,
     Shows, Bill
<1>9. One(o)'
  BY <1>6, <1>7, <1>8 DEF One
<1> QED
  BY <1>4, <1>9, OneCommand DEF InvoicingInv

LEMMA RefreshWriteAlone ==
  ASSUME Alone, InvoicingInv, NEW p \in Procs, One(op[p]), RefreshWrite(p) PROVE AloneInv'
<1>1. PICK c : c = op[p]
  OBVIOUS
<1>2. /\ c \in Commands /\ c # Idle /\ c.at = "write" /\ One(c)
      /\ c.then \in {"done", "record", "reload"} /\ c.day \in Days
  BY <1>1, AtStep DEF RefreshWrite, Steps, Commands
<1>3. invoice # None /\ c.day <= today /\ ~invoice.voided /\ c.status = Derived(invoice, c.day)
  BY <1>2 DEF One, InStep
<1>4. invoice' = [invoice EXCEPT !.status = c.status]
      /\ UNCHANGED <<paid, recorded, stripe, page, today, seen, byHand, troubles>>
  BY <1>1, <1>3 DEF RefreshWrite
<1>5. PICK o : /\ op' = [op EXCEPT ![p] = o]
               /\ IF c.then = "done" THEN o = Idle ELSE o = [c EXCEPT !.at = c.then]
  BY <1>1 DEF RefreshWrite, Finish, Move
<1>6. c.then # "done" => /\ o # Idle /\ o.at = c.then /\ o.day = c.day /\ o.new = c.new
                         /\ o.then = c.then
  <2>1. c.then # "done" => c.then \in Steps
    BY <1>2 DEF Steps
  <2> QED
    BY <2>1, <1>2, <1>5, NextStep DEF GoesTo
<1>7. /\ invoice \in Row /\ invoice'.total = invoice.total /\ invoice'.due = invoice.due
      /\ invoice'.link = invoice.link /\ invoice'.published = invoice.published
      /\ invoice'.voided = invoice.voided /\ invoice'.status = c.status /\ invoice' # None
      /\ invoice.total > 0
  <2>1. invoice \in Row /\ invoice.total > 0
    BY <1>3, RowTyped
  <2>2. invoice' \in Row
    BY <2>1, <1>3, <1>4, DerivedIsOne DEF Row
  <2>3. invoice' # None
    BY <2>2, RowAssumption
  <2> QED
    BY <2>1, <2>2, <2>3, <1>3, <1>4 DEF Row
<1>8. /\ c.status = "paid" <=> paid >= invoice.total
      /\ c.status # "void" /\ (c.status \in OpenStatuses => invoice.published)
  BY <1>3 DEF Derived, IsSettled, OpenStatuses
<1>9. RowKept'
  BY <1>2, <1>3, <1>4, <1>7, <1>8 DEF One, RowKept, stripe
<1>10. InStep(o)'
  BY <1>2, <1>3, <1>4, <1>5, <1>6, <1>7 DEF InStep
<1>11. Whole(o)'
  <2> SUFFICES ASSUME ~leftover PROVE Whole(o)'
    BY <1>4 DEF Whole, troubles
  <2>1. Settledness' /\ ~Rewriting(o) /\ (invoice'.published => invoice'.link # None)
    BY <1>2, <1>3, <1>4, <1>5, <1>6, <1>7, <1>8 DEF Settledness, Rewriting, One, Whole
  <2>2. Dated'
    BY <1>2, <1>3, <1>4, <1>7 DEF Dated, Derived, IsSettled
  <2>3. ~Behind(o) => Shows'
    <3> SUFFICES ASSUME ~Behind(o) PROVE Shows'
      OBVIOUS
    <3>1. c.then = "done"
      BY <1>2, <1>6 DEF Behind, One, InStep
    <3>2. Shows /\ Settledness /\ RowKept
      BY <3>1, <1>2, <1>3 DEF One, Whole, Rewriting, Behind
    <3> QED
      BY <3>2, <1>3, <1>4, <1>7, <1>8 DEF Shows, Settledness, RowKept, Bill, IsVoid
  <2> QED
    BY <2>1, <2>2, <2>3 DEF Whole
<1> QED
  BY <1>5, <1>9, <1>10, <1>11, OneCommand DEF One, InvoicingInv

\* No other command can have deleted the invoice.
LEMMA GoneAlone == ASSUME NEW p \in Procs, InvoicingInv, One(op[p]) PROVE ~Gone(p)
BY AtStep DEF Gone, One, InStep, Steps

LEMMA UpdateAlone ==
  ASSUME Alone, InvoicingInv, NEW p \in Procs, One(op[p]), UpdateInvoice(p) PROVE AloneInv'
<1>1. PICK c : c = op[p]
  OBVIOUS
<1>2. c \in Commands /\ c # Idle /\ c.at = "edit" /\ One(c)
  BY <1>1, AtStep DEF UpdateInvoice, Steps
<1>3. /\ invoice # None /\ c.day <= today /\ ~invoice.voided /\ c.row = invoice
      /\ c.then = "done" /\ invoice.status = "draft" /\ paid = 0
  BY <1>2 DEF One, InStep, Editable
<1>4. PICK items \in Totals \cup {None}, d \in DueDates :
        LET moved == items # None /\ items # invoice.total /\ invoice.link # None
        IN  invoice' = [invoice EXCEPT !.due = d,
                                       !.total = IF items = None THEN @ ELSE items,
                                       !.link = IF moved THEN None ELSE @]
  BY <1>1, <1>3 DEF UpdateInvoice
<1>5. UNCHANGED <<paid, recorded, stripe, page, today, seen, byHand, troubles>>
  BY DEF UpdateInvoice
<1>6. PICK o : op' = [op EXCEPT ![p] = o] /\ o = [c EXCEPT !.at = "refresh"]
  BY <1>1 DEF UpdateInvoice, Move
<1>7. GoesTo(c, "refresh", o)
  BY <1>2, <1>6, NextStep DEF Steps
<1>8. /\ invoice'.voided = FALSE /\ invoice'.status = "draft" /\ invoice' # None
      /\ invoice'.published = invoice.published /\ invoice'.total \in Nat \ {0}
      /\ invoice'.link # None => invoice'.link = invoice.link /\ invoice'.total = invoice.total
  <2>1. invoice \in Row /\ invoice.link \in Links \cup {None}
    BY <1>3, RowTyped
  <2>2. PICK total, link :
          /\ invoice' = [invoice EXCEPT !.due = d, !.total = total, !.link = link]
          /\ total \in Totals /\ link \in Links \cup {None}
          /\ link # None => link = invoice.link /\ total = invoice.total
    <3>1. PICK total, link : /\ total = IF items = None THEN invoice.total ELSE items
                             /\ link = IF items # None /\ items # invoice.total /\ invoice.link # None
                                       THEN None ELSE invoice.link
      OBVIOUS
    <3>2. invoice' = [invoice EXCEPT !.due = d, !.total = total, !.link = link]
      BY <1>4, <3>1
    <3>3. total \in Totals /\ link \in Links \cup {None}
      BY <2>1, <3>1 DEF Row
    <3> QED
      BY <3>1, <3>2, <3>3
  <2>3. invoice' \in Row /\ invoice'.total = total /\ invoice'.link = link
        /\ invoice'.voided = invoice.voided /\ invoice'.published = invoice.published
        /\ invoice'.status = invoice.status
    BY <2>1, <2>2 DEF Row
  <2>4. total \in Nat \ {0}
    BY <2>2, MoneyAssumption
  <2>5. invoice.voided = FALSE
    BY <1>3, RowTyped
  <2> QED
    BY <1>3, <2>2, <2>3, <2>4, <2>5, RowAssumption
<1>9. RowKept'
  BY <1>2, <1>3, <1>5, <1>8 DEF One, RowKept, stripe, OpenStatuses
<1>10. InStep(o)'
  BY <1>3, <1>5, <1>7, <1>8 DEF InStep, GoesTo
<1>11. Whole(o)'
  <2> SUFFICES ASSUME ~leftover PROVE Whole(o)'
    BY <1>5 DEF Whole, troubles
  <2>1. ~invoice.published
    BY <1>2, <1>3 DEF One, Whole, Rewriting, Dated, Derived
  <2>2. Settledness'
    BY <1>3, <1>5, <1>8 DEF Settledness
  <2>3. Rewriting(o) /\ Shows' /\ ~invoice'.published
    BY <1>7, <1>8, <2>1 DEF Rewriting, GoesTo, Shows
  <2> QED
    BY <2>2, <2>3 DEF Whole
<1> QED
  BY <1>6, <1>9, <1>10, <1>11, OneCommand DEF One, InvoicingInv

\* A command started on the row as it is.
Begins(c) ==
  /\ c # Idle /\ c.day = today /\ c.row = invoice /\ c.left = {} /\ c.new = FALSE
  /\ c.then = "done"

LEMMA StartAlone ==
  ASSUME Alone, InvoicingInv, NEW p \in Procs, One(Idle), NEW o, op' = [op EXCEPT ![p] = o],
         UNCHANGED <<books, stripe, page, today, seen, byHand, troubles>>,
         Begins(o), invoice # None, ~invoice.voided,
         \/ o.at = "edit" /\ Editable(invoice)
         \/ o.at = "link" /\ invoice.link = None
         \/ o.at = "render" /\ invoice.link # None
         \/ o.at = "pay" /\ o.amount > 0
         \/ o.at = "fetch"
         \/ o.at = "void" /\ paid = 0
  PROVE  AloneInv'
<1>1. RowKept'
  BY DEF One, RowKept, books, stripe
<1>2. InStep(o)'
  <2>1. UNCHANGED <<invoice, paid, today>> /\ today \in Nat
    BY DEF InvoicingInv, TypeOK, Days, books
  <2>2. Editable(invoice)' <=> Editable(invoice)
    BY <2>1 DEF Editable
  <2> QED
    BY <2>1, <2>2 DEF InStep, Begins
<1>3. Whole(o)'
  BY DEF One, Whole, Rewriting, Behind, Begins, books, stripe, troubles, Settledness,
     Shows, Bill, Dated, Derived, IsSettled
<1> QED
  BY <1>1, <1>2, <1>3, OneCommand DEF One, InvoicingInv

LEMMA CommandBegins ==
  ASSUME InvoicingInv, NEW at \in Steps, NEW n
  PROVE  /\ Begins(Command(at)) /\ Command(at).at = at
         /\ Begins([Command(at) EXCEPT !.amount = n])
         /\ [Command(at) EXCEPT !.amount = n].at = at /\ [Command(at) EXCEPT !.amount = n].amount = n
BY DEF Command, Begins, Idle, Steps

LEMMA StartsAlone ==
  ASSUME Alone, InvoicingInv, NEW p \in Procs, One(op[p]),
         \/ StartEdit(p) \/ StartSend(p) \/ StartPay(p) \/ StartSync(p) \/ StartVoid(p)
  PROVE  AloneInv'
<1>0. One(Idle) /\ invoice # None /\ invoice \in Row
      /\ UNCHANGED <<books, stripe, page, today, seen, byHand, troubles>>
  <2>1. invoice # None
    BY DEF StartEdit, StartSend, StartPay, StartSync, StartVoid, Fresh
  <2> QED
    BY <2>1, RowTyped DEF StartEdit, StartSend, StartPay, StartSync, StartVoid, Fresh
<1>1. CASE StartEdit(p)
  BY <1>0, <1>1, StartAlone, CommandBegins DEF StartEdit, Start, Editable, Steps
<1>2. CASE StartSend(p)
  BY <1>0, <1>2, StartAlone, CommandBegins DEF StartSend, Start, IsVoid, Steps
<1>3. CASE StartPay(p)
  <2>1. PICK amount \in Amounts \cup (IF IsSettled(invoice) THEN {} ELSE {invoice.total - paid}) :
          op' = [op EXCEPT ![p] = [Command("pay") EXCEPT !.amount = amount]]
    BY <1>3 DEF StartPay
  <2>2. amount > 0
    <3>1. invoice.total \in Nat /\ paid \in Nat
      BY <1>0, RowTyped
    <3>2. CASE amount \in Amounts
      BY <3>2, MoneyAssumption
    <3>3. CASE ~IsSettled(invoice) /\ amount = invoice.total - paid
      BY <3>1, <3>3 DEF IsSettled
    <3> QED
      BY <2>1, <3>2, <3>3
  <2> QED
    <3>1. PICK o : o = [Command("pay") EXCEPT !.amount = amount]
      OBVIOUS
    <3>2. Begins(o) /\ o.at = "pay" /\ o.amount = amount
      BY <3>1, CommandBegins DEF Steps
    <3>3. ~invoice.voided
      BY <1>3 DEF StartPay, IsVoid
    <3> QED
      BY <1>0, <2>1, <2>2, <3>1, <3>2, <3>3, StartAlone
<1>4. CASE StartSync(p)
  <2>1. ~invoice.voided
    BY <1>0, <1>4 DEF StartSync, One, RowKept, OpenStatuses
  <2> QED
    BY <1>0, <1>4, <2>1, StartAlone, CommandBegins DEF StartSync, Start, Steps
<1>5. CASE StartVoid(p)
  BY <1>0, <1>5, StartAlone, CommandBegins DEF StartVoid, Start, Voidable, Steps
<1> QED
  BY <1>1, <1>2, <1>3, <1>4, <1>5

LEMMA CreateAlone ==
  ASSUME Alone, InvoicingInv, NEW p \in Procs, One(op[p]), CreatePaymentLink(p) PROVE AloneInv'
<1>1. PICK c : c = op[p]
  OBVIOUS
<1>2. c \in Commands /\ c # Idle /\ c.at = "link" /\ One(c) /\ c.row = invoice /\ invoice # None
  BY <1>1, AtStep DEF CreatePaymentLink, Steps, One, InStep
<1>3. PICK l \in Links :
        /\ IsNext(l, Unmade)
        /\ \/ /\ price' = [price EXCEPT ![l] = c.row.total]
              /\ \/ op' = [op EXCEPT ![p].at = "setlink", ![p].link = l] \/ Finish(p)
           \/ price' = price /\ Finish(p)
        /\ leftover' = leftover
  BY <1>1 DEF CreatePaymentLink, troubles
<1>4. UNCHANGED <<invoice, paid, recorded, page, today>>
  BY DEF CreatePaymentLink, books
<1>5. price[l] = None /\ l # None
  BY <1>3, PagesAreThere DEF IsNext, Unmade, Links
<1>6. \A k \in Links : price[k] # None => price'[k] = price[k]
  BY <1>3, <1>5 DEF InvoicingInv, TypeOK
<1>7. RowKept'
  <2>1. invoice.link # None => invoice.link \in Links /\ price[invoice.link] # None
    BY <1>2, RowTyped, PagesAreThere DEF One, RowKept
  <2> QED
    BY <1>2, <1>4, <1>6, <2>1 DEF One, RowKept
<1>8. ASSUME NEW o, o = Idle \/ (o # Idle /\ o.at = "setlink") PROVE Whole(o)'
  BY <1>2, <1>3, <1>4, <1>8 DEF One, Whole, Rewriting, Behind, Settledness, Shows, Bill, Dated,
     Derived, IsSettled
<1>9. CASE Finish(p)
  <2>1. InStep(Idle)'
    BY DEF InStep
  <2> QED
    BY <1>7, <1>8, <1>9, <2>1, OneCommand DEF Finish, One, InvoicingInv
<1>10. CASE /\ op' = [op EXCEPT ![p].at = "setlink", ![p].link = l]
            /\ price' = [price EXCEPT ![l] = c.row.total]
  <2>1. PICK o : o = [c EXCEPT !.at = "setlink", !.link = l]
    OBVIOUS
  <2>2. /\ o # Idle /\ o.at = "setlink" /\ o.link = l /\ o.day = c.day /\ o.row = c.row
        /\ o.then = c.then
    BY <1>2, <2>1 DEF Commands, Idle
  <2>3. op' = [op EXCEPT ![p] = o]
    BY <1>1, <1>10, <2>1
  <2>4. price'[l] = invoice.total
    BY <1>2, <1>10 DEF InvoicingInv, TypeOK
  <2>5. InStep(o)'
    BY <1>2, <1>4, <1>5, <2>2, <2>4 DEF InStep, One
  <2> QED
    BY <1>7, <1>8, <2>2, <2>3, <2>5, OneCommand DEF One, InvoicingInv
<1> QED
  BY <1>3, <1>9, <1>10

LEMMA SetLinkAlone ==
  ASSUME Alone, InvoicingInv, NEW p \in Procs, One(op[p]), SetPaymentLink(p) PROVE AloneInv'
<1>1. PICK c : c = op[p]
  OBVIOUS
<1>2. c \in Commands /\ c # Idle /\ c.at = "setlink" /\ One(c) /\ invoice # None /\ c.link \in Links \cup {None}
  BY <1>1, AtStep DEF SetPaymentLink, Steps
<1>3. /\ c.day <= today /\ ~invoice.voided /\ c.then = "done" /\ invoice.link = None
      /\ c.link # None /\ price[c.link] = invoice.total
  BY <1>2 DEF One, InStep
<1>4. /\ invoice' = [invoice EXCEPT !.link = c.link]
      /\ UNCHANGED <<paid, recorded, stripe, page, today, seen, byHand, troubles>>
  BY <1>1 DEF SetPaymentLink
<1>5. PICK o : op' = [op EXCEPT ![p] = o] /\ o = [c EXCEPT !.at = "render", !.row = invoice']
  BY <1>1 DEF SetPaymentLink
<1>6. o # Idle /\ o.at = "render" /\ o.row = invoice' /\ o.day = c.day /\ o.then = c.then
  BY <1>2, <1>5 DEF Commands, Idle
<1>7. /\ invoice'.total = invoice.total /\ invoice'.due = invoice.due
      /\ invoice'.published = invoice.published /\ invoice'.voided = invoice.voided
      /\ invoice'.status = invoice.status /\ invoice'.link = c.link /\ invoice' # None
  <2>1. invoice \in Row
    BY <1>2, RowTyped
  <2>2. invoice' \in Row
    BY <2>1, <1>2, <1>4 DEF Row
  <2> QED
    BY <2>1, <2>2, <1>4, RowAssumption DEF Row
<1>8. RowKept'
  BY <1>2, <1>3, <1>4, <1>7 DEF One, RowKept, stripe
<1>9. InStep(o)'
  BY <1>3, <1>4, <1>6, <1>7 DEF InStep
<1>10. Whole(o)'
  <2> SUFFICES ASSUME ~leftover PROVE Whole(o)'
    BY <1>4 DEF Whole, troubles
  <2>1. ~invoice.published /\ Settledness /\ Dated
    BY <1>2, <1>3 DEF One, Whole, Rewriting
  <2>2. Settledness' /\ Shows'
    BY <1>4, <1>7, <2>1 DEF Settledness, Shows
  <2>3. Dated'
    BY <1>4, <1>7, <2>1 DEF Dated, Derived, IsSettled
  <2> QED
    BY <1>7, <2>1, <2>2, <2>3 DEF Whole
<1> QED
  BY <1>5, <1>8, <1>9, <1>10, OneCommand DEF One, InvoicingInv

LEMMA RenderAlone ==
  ASSUME Alone, InvoicingInv, NEW p \in Procs, One(op[p]), Render(p) PROVE AloneInv'
<1>1. PICK c : c = op[p]
  OBVIOUS
<1>2. c \in Commands /\ c # Idle /\ c.at = "render" /\ One(c)
  BY <1>1, AtStep DEF Render, Steps
<1>3. PICK o : op' = [op EXCEPT ![p] = o] /\ o = [c EXCEPT !.at = "publish", !.bill = Bill(c.row)]
  BY <1>1 DEF Render
<1>4. /\ o # Idle /\ o.at = "publish" /\ o.row = c.row /\ o.day = c.day /\ o.then = c.then
      /\ o.bill = Bill(c.row)
  BY <1>2, <1>3 DEF Commands, Idle
<1>5. UNCHANGED <<books, stripe, page, today, seen, byHand, troubles>>
  BY DEF Render
<1>6. RowKept'
  BY <1>2, <1>5 DEF One, RowKept, books, stripe
<1>7. InStep(o)'
  BY <1>2, <1>4, <1>5 DEF One, InStep, books, stripe, Bill
<1>8. Whole(o)'
  BY <1>2, <1>4, <1>5 DEF One, Whole, Rewriting, Behind, books, stripe, troubles, Settledness,
     Shows, Bill, Dated, Derived, IsSettled
<1> QED
  BY <1>3, <1>6, <1>7, <1>8, OneCommand DEF One, InvoicingInv

\* The page goes up as the row is, whether or not the call said so.
LEMMA PublishAlone ==
  ASSUME Alone, InvoicingInv, NEW p \in Procs, One(op[p]), PublishPage(p) PROVE AloneInv'
<1>1. PICK c : c = op[p]
  OBVIOUS
<1>2. c \in Commands /\ c # Idle /\ c.at = "publish" /\ One(c)
  BY <1>1, AtStep DEF PublishPage, Steps
<1>3. UNCHANGED <<books, stripe, today>> /\ leftover' = leftover
  BY DEF PublishPage, troubles
<1>4. /\ page' \in {page, c.bill}
      /\ Finish(p) \/ (page' = c.bill /\ Move(p, "email"))
  BY <1>1 DEF PublishPage, Shown
<1>5. invoice # None /\ ~invoice.voided /\ c.bill = Bill(invoice)
  BY <1>2 DEF One, InStep
<1>6. RowKept'
  BY <1>2, <1>3 DEF One, RowKept, books, stripe
<1>7. ~leftover => Shows'
  BY <1>2, <1>3, <1>4, <1>5 DEF One, Whole, Shows, Behind, Bill, books
<1>8. ASSUME NEW o, o = Idle \/ GoesTo(c, "email", o) PROVE Whole(o)'
  BY <1>2, <1>3, <1>7, <1>8 DEF One, Whole, Rewriting, Behind, Settledness, Dated,
     Derived, IsSettled, GoesTo, books
<1>9. CASE Finish(p)
  <2>1. InStep(Idle)'
    BY DEF InStep
  <2> QED
    BY <1>6, <1>8, <1>9, <2>1, OneCommand DEF Finish, One, InvoicingInv
<1>10. CASE page' = c.bill /\ Move(p, "email")
  <2>1. PICK o : op' = [op EXCEPT ![p] = o] /\ o = [c EXCEPT !.at = "email"]
    BY <1>1, <1>10 DEF Move
  <2>2. GoesTo(c, "email", o)
    BY <1>2, <2>1, NextStep DEF Steps
  <2>3. InStep(o)'
    BY <1>2, <1>3, <1>5, <1>10, <2>2 DEF One, InStep, GoesTo, Bill, books
  <2> QED
    BY <1>6, <1>8, <2>1, <2>2, <2>3, OneCommand DEF One, InvoicingInv
<1> QED
  BY <1>4, <1>9, <1>10

LEMMA EmailAlone ==
  ASSUME Alone, InvoicingInv, NEW p \in Procs, One(op[p]), EmailInvoice(p) PROVE AloneInv'
<1>1. PICK c : c = op[p]
  OBVIOUS
<1>2. c \in Commands /\ c # Idle /\ c.at = "email" /\ One(c)
  BY <1>1, AtStep DEF EmailInvoice, Steps
<1>3. UNCHANGED <<books, stripe, page, today>> /\ leftover' = leftover
  BY DEF EmailInvoice, troubles
<1>4. RowKept'
  BY <1>2, <1>3 DEF One, RowKept, books, stripe
<1>5. ASSUME NEW o, o = Idle \/ GoesTo(c, "mark", o) PROVE One(o)'
  <2>1. InStep(o)'
    BY <1>2, <1>3, <1>5 DEF One, InStep, GoesTo, Bill, books
  <2>2. Whole(o)'
    BY <1>2, <1>3, <1>5 DEF One, Whole, Rewriting, Behind, Settledness, Shows, Bill, Dated,
       Derived, IsSettled, GoesTo, books
  <2> QED
    BY <1>4, <2>1, <2>2 DEF One
<1>6. CASE Finish(p)
  BY <1>5, <1>6, OneCommand DEF Finish, InvoicingInv
<1>7. CASE Move(p, "mark")
  <2>1. PICK o : op' = [op EXCEPT ![p] = o] /\ o = [c EXCEPT !.at = "mark"]
    BY <1>1, <1>7 DEF Move
  <2>2. GoesTo(c, "mark", o)
    BY <1>2, <2>1, NextStep DEF Steps
  <2> QED
    BY <1>5, <2>1, <2>2, OneCommand DEF InvoicingInv
<1> QED
  BY <1>6, <1>7 DEF EmailInvoice

LEMMA MarkAlone ==
  ASSUME Alone, InvoicingInv, NEW p \in Procs, One(op[p]), MarkPublished(p) PROVE AloneInv'
<1>1. PICK c : c = op[p]
  OBVIOUS
<1>2. c \in Commands /\ c # Idle /\ c.at = "mark" /\ One(c)
  BY <1>1, AtStep DEF MarkPublished, Steps
<1>3. /\ invoice # None /\ c.day <= today /\ ~invoice.voided /\ c.then = "done"
      /\ invoice.link # None /\ page = Bill(invoice)
  BY <1>2 DEF One, InStep
<1>4. /\ invoice' = [invoice EXCEPT !.published = TRUE]
      /\ UNCHANGED <<paid, recorded, stripe, page, today, seen, byHand, troubles>>
  BY DEF MarkPublished
<1>5. PICK o : op' = [op EXCEPT ![p] = o] /\ o = [c EXCEPT !.at = "refresh"]
  BY <1>1 DEF MarkPublished, Move
<1>6. GoesTo(c, "refresh", o)
  BY <1>2, <1>5, NextStep DEF Steps
<1>7. /\ invoice'.total = invoice.total /\ invoice'.due = invoice.due /\ invoice'.published = TRUE
      /\ invoice'.voided = invoice.voided /\ invoice'.status = invoice.status
      /\ invoice'.link = invoice.link /\ invoice' # None
  <2>1. invoice \in Row
    BY <1>3, RowTyped
  <2>2. invoice' \in Row
    BY <2>1, <1>4 DEF Row
  <2> QED
    BY <2>1, <2>2, <1>4, RowAssumption DEF Row
<1>8. RowKept'
  BY <1>2, <1>3, <1>4, <1>7 DEF One, RowKept, stripe
<1>9. InStep(o)'
  BY <1>3, <1>4, <1>6, <1>7 DEF InStep, GoesTo
<1>10. Whole(o)'
  <2> SUFFICES ASSUME ~leftover PROVE Whole(o)'
    BY <1>4 DEF Whole, troubles
  <2>1. Settledness'
    BY <1>2, <1>3, <1>4, <1>7 DEF One, Whole, Rewriting, Settledness
  <2>2. Shows'
    BY <1>3, <1>4, <1>7 DEF Shows, Bill, IsVoid
  <2>3. Rewriting(o)
    BY <1>6 DEF Rewriting, GoesTo
  <2> QED
    BY <1>3, <1>7, <2>1, <2>2, <2>3 DEF Whole
<1> QED
  BY <1>5, <1>8, <1>9, <1>10, OneCommand DEF One, InvoicingInv

\* A payment comes in: the status and the page have still to follow.
LEMMA PaymentAlone ==
  ASSUME Alone, InvoicingInv, NEW p \in Procs, One(op[p]), op[p] # Idle,
         op[p].at \in {"pay", "insert"}, NEW o, op' = [op EXCEPT ![p] = o],
         o # Idle, o.at = "refresh", o.then \in {"record", "reload"}, o.then = "record" => o.new,
         o.day = op[p].day, paid' \in Nat, paid' > paid,
         UNCHANGED <<invoice, stripe, page, today, troubles>>
  PROVE  AloneInv'
<1>1. invoice # None /\ op[p].day <= today /\ ~invoice.voided
  BY DEF One, InStep
<1>2. invoice.total \in Nat /\ paid \in Nat
  BY <1>1, RowTyped
<1>3. RowKept'
  BY <1>2 DEF One, RowKept, stripe
<1>4. InStep(o)'
  BY <1>1 DEF InStep
<1>5. Whole(o)'
  BY DEF One, Whole, Rewriting, Behind, troubles
<1> QED
  BY <1>3, <1>4, <1>5, OneCommand DEF One, InvoicingInv

LEMMA ByHandAlone ==
  ASSUME Alone, InvoicingInv, NEW p \in Procs, One(op[p]), RecordByHand(p) PROVE AloneInv'
<1>1. PICK c : c = op[p]
  OBVIOUS
<1>2. c \in Commands /\ c # Idle /\ c.at = "pay" /\ One(c) /\ c.amount \in Nat
  BY <1>1, AtStep DEF RecordByHand, Steps
<1>3. PICK o : /\ op' = [op EXCEPT ![p] = o]
               /\ o = [c EXCEPT !.at = "refresh", !.then = "reload"]
  BY <1>1 DEF RecordByHand
<1>4. o # Idle /\ o.at = "refresh" /\ o.then = "reload" /\ o.day = c.day
  BY <1>2, <1>3 DEF Commands, Idle
<1>5. paid' = paid + c.amount /\ c.amount > 0 /\ paid \in Nat
  BY <1>1, <1>2, RowTyped DEF RecordByHand, One, InStep
<1>6. paid' \in Nat /\ paid' > paid
  BY <1>2, <1>5
<1>7. UNCHANGED <<invoice, stripe, page, today, troubles>>
  BY DEF RecordByHand
<1>8. /\ op[p] # Idle /\ op[p].at \in {"pay", "insert"} /\ op' = [op EXCEPT ![p] = o]
      /\ o.then \in {"record", "reload"} /\ (o.then = "record" => o.new) /\ o.day = op[p].day
  BY <1>1, <1>2, <1>3, <1>4
<1> QED
  BY <1>4, <1>6, <1>7, <1>8, PaymentAlone

LEMMA InsertAlone ==
  ASSUME Alone, InvoicingInv, NEW p \in Procs, One(op[p]), InsertPayment(p) PROVE AloneInv'
<1>1. PICK c : c = op[p]
  OBVIOUS
<1>2. /\ c \in Commands /\ c # Idle /\ c.at = "insert" /\ One(c) /\ c.left \subseteq Sessions
      /\ Knows(c, page, mailed, sessions)
  BY <1>1, AtStep DEF InsertPayment, Steps
<1>3. PICK s \in c.left :
        /\ IsNext(s, c.left)
        /\ paid' = paid + price[sessions[s]]
        /\ op' = [op EXCEPT ![p].at = "refresh", ![p].then = "record",
                            ![p].left = @ \ {s}, ![p].new = TRUE]
  BY <1>1, <1>2 DEF InsertPayment, One, InStep
<1>4. PICK o : /\ op' = [op EXCEPT ![p] = o]
               /\ o = [c EXCEPT !.at = "refresh", !.then = "record", !.left = @ \ {s}, !.new = TRUE]
  BY <1>1, <1>3
<1>5. o # Idle /\ o.at = "refresh" /\ o.then = "record" /\ o.new = TRUE /\ o.day = c.day
  BY <1>2, <1>4 DEF Commands, Idle
<1>6. price[sessions[s]] \in Nat \ {0}
  <2>1. s \in Sessions /\ sessions[s] # None
    BY <1>2, <1>3 DEF Knows
  <2>2. sessions[s] \in Links /\ price[sessions[s]] # None
    BY <2>1 DEF InvoicingInv, TypeOK, Priced
  <2> QED
    BY <2>2, MoneyAssumption DEF InvoicingInv, TypeOK
<1>7. paid \in Nat
  BY DEF InvoicingInv, TypeOK
<1>8. paid' \in Nat /\ paid' > paid
  BY <1>3, <1>6, <1>7
<1> QED
  BY <1>1, <1>2, <1>4, <1>5, <1>8, PaymentAlone DEF InsertPayment

\* The steps of a sync that only read, and those of the page that say how it ends.
LEMMA QuietAlone ==
  ASSUME Alone, InvoicingInv, NEW p \in Procs, NEW c, c = op[p], One(c), NEW o,
         op' = [op EXCEPT ![p] = o],
         UNCHANGED <<invoice, paid, price, page, today, leftover>>,
         ~Rewriting(c), ~Rewriting(o), Behind(c) => (Behind(o) \/ ~invoice.published), InStep(o)'
  PROVE  AloneInv'
<1>1. RowKept'
  BY DEF One, RowKept
<1>2. Whole(o)'
  BY DEF One, Whole, Settledness, Shows, Bill, Dated, Derived, IsSettled
<1> QED
  BY <1>1, <1>2, OneCommand DEF One, InvoicingInv

LEMMA FetchAlone ==
  ASSUME Alone, InvoicingInv, NEW p \in Procs, One(op[p]), PaidSessions(p) PROVE AloneInv'
<1>1. PICK c : c = op[p]
  OBVIOUS
<1>2. c \in Commands /\ c # Idle /\ c.at = "fetch" /\ One(c)
  BY <1>1, AtStep DEF PaidSessions, Steps
<1>3. UNCHANGED <<invoice, paid, price, page, today, leftover>>
  BY DEF PaidSessions, books, stripe, troubles
<1>4. ~Rewriting(c) /\ ~Behind(c)
  BY <1>2 DEF Rewriting, Behind
<1>5. PICK o : /\ op' = [op EXCEPT ![p] = o]
               /\ o = Idle \/ o = [c EXCEPT !.at = "record", !.left = PaidVia(invoice.link)]
  BY <1>1 DEF PaidSessions, Finish
<1>6. o = Idle \/ (o # Idle /\ o.at = "record" /\ o.day = c.day /\ o.then = c.then /\ o.new = c.new)
  BY <1>2, <1>5 DEF Commands, Idle
<1>7. ~Rewriting(o) /\ InStep(o)'
  BY <1>2, <1>3, <1>6 DEF Rewriting, InStep, One
<1>8. op' = [op EXCEPT ![p] = o] /\ One(c)
  BY <1>2, <1>5
<1> QED
  BY <1>1, <1>3, <1>4, <1>7, <1>8, QuietAlone

LEMMA RecordAlone ==
  ASSUME Alone, InvoicingInv, NEW p \in Procs, One(op[p]), RecordPayment(p) PROVE AloneInv'
<1>1. PICK c : c = op[p]
  OBVIOUS
<1>2. c \in Commands /\ c # Idle /\ c.at = "record" /\ One(c) /\ invoice # None
  BY <1>1, AtStep DEF RecordPayment, Steps
<1>3. c.day <= today /\ ~invoice.voided /\ ~IsVoid(invoice)
  BY <1>2 DEF One, InStep, RowKept, IsVoid
<1>4. UNCHANGED <<invoice, paid, recorded, price, page, today, leftover>>
  BY DEF RecordPayment, books, stripe, troubles
<1>5. PICK o : /\ op' = [op EXCEPT ![p] = o]
               /\ \/ c.new /\ o = [c EXCEPT !.at = "reload"]
                  \/ ~c.new /\ o = Idle
                  \/ \E s \in c.left : /\ IsNext(s, c.left) /\ s \in recorded
                                       /\ o = [c EXCEPT !.left = @ \ {s}]
                  \/ \E s \in c.left : /\ IsNext(s, c.left) /\ s \notin recorded
                                       /\ o = [c EXCEPT !.at = "insert"]
  BY <1>1, <1>3 DEF RecordPayment, Finish, Move
<1>6. ~Rewriting(c)
  BY <1>2 DEF Rewriting
<1>7. CASE c.new /\ o = [c EXCEPT !.at = "reload"]
  <2>1. GoesTo(c, "reload", o)
    BY <1>2, <1>7, NextStep DEF Steps
  <2>2. ~Rewriting(o) /\ Behind(o) /\ InStep(o)'
    BY <1>2, <1>3, <1>4, <2>1 DEF GoesTo, Rewriting, Behind, InStep
  <2> QED
    BY <1>1, <1>2, <1>4, <1>5, <1>6, <2>2, QuietAlone
<1>8. CASE ~c.new /\ o = Idle
  <2>1. ~Rewriting(o) /\ ~Behind(c) /\ InStep(o)'
    BY <1>2, <1>8 DEF Rewriting, Behind, InStep
  <2> QED
    BY <1>1, <1>2, <1>4, <1>5, <1>6, <2>1, QuietAlone
<1>9. ASSUME NEW s \in c.left, IsNext(s, c.left), s \in recorded, o = [c EXCEPT !.left = @ \ {s}]
      PROVE  AloneInv'
  <2>1. o # Idle /\ o.at = "record" /\ o.day = c.day /\ o.then = c.then /\ o.new = c.new
    BY <1>2, <1>9 DEF Commands, Idle
  <2>2. ~Rewriting(o) /\ (Behind(c) => Behind(o)) /\ InStep(o)'
    BY <1>2, <1>3, <1>4, <2>1 DEF Rewriting, Behind, InStep
  <2> QED
    BY <1>1, <1>2, <1>4, <1>5, <1>6, <2>2, QuietAlone
<1>10. ASSUME NEW s \in c.left, IsNext(s, c.left), s \notin recorded, o = [c EXCEPT !.at = "insert"]
       PROVE  AloneInv'
  <2>1. GoesTo(c, "insert", o)
    BY <1>2, <1>10, NextStep DEF Steps
  <2>2. ASSUME NEW t \in c.left, IsNext(t, c.left) PROVE t = s
    <3>1. c.left \subseteq Sessions /\ Sessions \subseteq Int
      BY <1>2 DEF Commands, Sessions
    <3>2. s \in Int /\ t \in Int /\ s <= t /\ t <= s
      BY <1>10, <2>2, <3>1 DEF IsNext
    <3> QED
      BY <3>2
  <2>3. \A t \in o.left : IsNext(t, o.left) => t \notin recorded'
    BY <1>4, <1>10, <2>1, <2>2 DEF GoesTo
  <2>4. ~Rewriting(o) /\ (Behind(c) => Behind(o))
    BY <1>2, <2>1 DEF GoesTo, Rewriting, Behind
  <2>5. InStep(o)'
    BY <1>2, <1>3, <1>4, <2>1, <2>3 DEF GoesTo, InStep
  <2> QED
    BY <1>1, <1>2, <1>4, <1>5, <1>6, <2>4, <2>5, QuietAlone
<1> QED
  BY <1>5, <1>7, <1>8, <1>9, <1>10

LEMMA RepublishAlone ==
  ASSUME Alone, InvoicingInv, NEW p \in Procs, One(op[p]), Republish(p) PROVE AloneInv'
<1>1. PICK c : c = op[p]
  OBVIOUS
<1>2. c \in Commands /\ c # Idle /\ c.at = "reload" /\ One(c) /\ invoice # None
  BY <1>1, AtStep DEF Republish, Steps
<1>3. c.day <= today /\ ~invoice.voided /\ ~IsVoid(invoice)
  BY <1>2 DEF One, InStep, RowKept, IsVoid
<1>4. UNCHANGED <<invoice, paid, recorded, price, page, today, leftover>>
  BY DEF Republish, books, stripe, troubles
<1>5. PICK o : /\ op' = [op EXCEPT ![p] = o]
               /\ \/ ~invoice.published /\ o = Idle
                  \/ invoice.published /\ o = [c EXCEPT !.at = "upload", !.bill = Bill(invoice)]
  BY <1>1, <1>3 DEF Republish, Finish
<1>6. ~Rewriting(c)
  BY <1>2 DEF Rewriting
<1>7. CASE ~invoice.published /\ o = Idle
  <2>1. ~Rewriting(o) /\ InStep(o)'
    BY <1>7 DEF Rewriting, InStep
  <2> QED
    BY <1>1, <1>2, <1>4, <1>5, <1>6, <1>7, <2>1, QuietAlone
<1>8. CASE invoice.published /\ o = [c EXCEPT !.at = "upload", !.bill = Bill(invoice)]
  <2>1. o # Idle /\ o.at = "upload" /\ o.day = c.day /\ o.bill = Bill(invoice)
    BY <1>2, <1>8 DEF Commands, Idle
  <2>2. ~Rewriting(o) /\ Behind(o) /\ InStep(o)'
    BY <1>2, <1>3, <1>4, <1>8, <2>1 DEF Rewriting, Behind, InStep, Bill
  <2> QED
    BY <1>1, <1>2, <1>4, <1>5, <1>6, <2>2, QuietAlone
<1> QED
  BY <1>5, <1>7, <1>8

LEMMA UploadAlone ==
  ASSUME Alone, InvoicingInv, NEW p \in Procs, One(op[p]), UploadPage(p) PROVE AloneInv'
<1>1. PICK c : c = op[p]
  OBVIOUS
<1>2. c \in Commands /\ c # Idle /\ c.at = "upload" /\ One(c)
  BY <1>1, AtStep DEF UploadPage, Steps
<1>3. UNCHANGED <<books, stripe, today>> /\ Finish(p) /\ (leftover' \/ (leftover' = leftover /\ page' = c.bill))
  BY <1>1 DEF UploadPage, Shown, troubles, Warned
<1>4. ~invoice.voided /\ c.bill = Bill(invoice)
  BY <1>2 DEF One, InStep
<1>5. RowKept'
  BY <1>2, <1>3 DEF One, RowKept, books, stripe
<1>6. Whole(Idle)'
  BY <1>2, <1>3, <1>4 DEF One, Whole, Rewriting, Behind, Shows, Bill, books, Settledness, Dated,
     Derived, IsSettled
<1>7. InStep(Idle)'
  BY DEF InStep
<1> QED
  BY <1>3, <1>5, <1>6, <1>7, OneCommand DEF Finish, One, InvoicingInv

LEMMA VoidAlone ==
  ASSUME Alone, InvoicingInv, NEW p \in Procs, One(op[p]), VoidInvoice(p) PROVE AloneInv'
<1>1. PICK c : c = op[p]
  OBVIOUS
<1>2. c \in Commands /\ c # Idle /\ c.at = "void" /\ One(c) /\ invoice # None
  BY <1>1, AtStep DEF VoidInvoice, Steps
<1>3. c.row = invoice /\ c.day <= today
  BY <1>2 DEF One, InStep
<1>4. /\ invoice' = [invoice EXCEPT !.voided = TRUE, !.status = "void"]
      /\ UNCHANGED <<paid, recorded, stripe, page, today, seen, byHand, troubles>>
  BY DEF VoidInvoice
<1>5. PICK o : op' = [op EXCEPT ![p] = o] /\ o = [c EXCEPT !.at = "unlink"]
  BY <1>1 DEF VoidInvoice, Move
<1>6. GoesTo(c, "unlink", o)
  BY <1>2, <1>5, NextStep DEF Steps
<1>7. /\ invoice'.total = invoice.total /\ invoice'.due = invoice.due
      /\ invoice'.published = invoice.published /\ invoice'.voided = TRUE
      /\ invoice'.status = "void" /\ invoice'.link = invoice.link /\ invoice' # None
  <2>1. invoice \in Row
    BY <1>2, RowTyped
  <2>2. invoice' \in Row
    BY <2>1, <1>4 DEF Row, Statuses
  <2> QED
    BY <2>1, <2>2, <1>4, RowAssumption DEF Row
<1>8. RowKept'
  BY <1>2, <1>4, <1>7 DEF One, RowKept, stripe, OpenStatuses
<1>9. InStep(o)'
  BY <1>3, <1>4, <1>6, <1>7 DEF InStep, GoesTo
<1>10. Whole(o)'
  <2> SUFFICES ASSUME ~leftover PROVE Whole(o)'
    BY <1>4 DEF Whole, troubles
  <2>1. invoice'.published => invoice'.link # None
    BY <1>2, <1>7 DEF One, Whole
  <2>2. Settledness' /\ Behind(o)
    BY <1>6, <1>7 DEF Settledness, Behind, GoesTo
  <2>3. Dated'
    <3>1. today \in Days /\ today <= today
      BY DEF InvoicingInv, TypeOK, Days
    <3> QED
      BY <1>4, <1>7, <3>1 DEF Dated, Derived
  <2> QED
    BY <2>1, <2>2, <2>3 DEF Whole
<1> QED
  BY <1>5, <1>8, <1>9, <1>10, OneCommand DEF One, InvoicingInv

LEMMA UnlinkAlone ==
  ASSUME Alone, InvoicingInv, NEW p \in Procs, One(op[p]), DeactivateLink(p) PROVE AloneInv'
<1>1. PICK c : c = op[p]
  OBVIOUS
<1>2. c \in Commands /\ c # Idle /\ c.at = "unlink" /\ One(c)
  BY <1>1, AtStep DEF DeactivateLink, Steps
<1>3. UNCHANGED <<invoice, paid, price, page, today>> /\ (leftover' \/ leftover' = leftover)
  BY DEF DeactivateLink, books, troubles, Warned
<1>4. PICK o : op' = [op EXCEPT ![p] = o] /\ o = [c EXCEPT !.at = "unpage"]
  BY <1>1 DEF DeactivateLink, Move
<1>5. GoesTo(c, "unpage", o)
  BY <1>2, <1>4, NextStep DEF Steps
<1>6. RowKept'
  BY <1>2, <1>3 DEF One, RowKept
<1>7. InStep(o)'
  BY <1>2, <1>3, <1>5 DEF One, InStep, GoesTo
<1>8. Whole(o)'
  BY <1>2, <1>3, <1>5 DEF One, Whole, Rewriting, Behind, Settledness, Dated, Derived, IsSettled, GoesTo
<1> QED
  BY <1>4, <1>6, <1>7, <1>8, OneCommand DEF One, InvoicingInv

LEMMA UnpageAlone ==
  ASSUME Alone, InvoicingInv, NEW p \in Procs, One(op[p]), ReplacePage(p) PROVE AloneInv'
<1>1. PICK c : c = op[p]
  OBVIOUS
<1>2. c \in Commands /\ c # Idle /\ c.at = "unpage" /\ One(c)
  BY <1>1, AtStep DEF ReplacePage, Steps
<1>3. invoice # None /\ invoice.voided /\ c.row.published = invoice.published
  BY <1>2 DEF One, InStep
<1>4. /\ UNCHANGED <<invoice, paid, price, today>> /\ Finish(p)
      /\ leftover' \/ (leftover' = leftover /\ (c.row.published => page' = VoidNotice))
  BY <1>1 DEF ReplacePage, books, stripe, troubles, Warned
<1>5. RowKept'
  BY <1>2, <1>4 DEF One, RowKept
<1>6. Whole(Idle)'
  BY <1>2, <1>3, <1>4 DEF One, Whole, Rewriting, Behind, Settledness, Shows, Dated, Derived, IsSettled
<1>7. InStep(Idle)'
  BY DEF InStep
<1> QED
  BY <1>4, <1>5, <1>6, <1>7, OneCommand DEF Finish, One, InvoicingInv

LEMMA DeleteAlone ==
  ASSUME Alone, InvoicingInv, NEW p \in Procs, One(op[p]), DeleteInvoice(p) PROVE AloneInv'
<1>1. invoice' = None /\ op' = op /\ op[p] = Idle
  BY DEF DeleteInvoice, Fresh
<1>2. op' = [op EXCEPT ![p] = Idle]
  BY <1>1 DEF InvoicingInv, TypeOK
<1>3. One(Idle)'
  BY <1>1 DEF One, RowKept, InStep, Whole
<1> QED
  BY <1>2, <1>3, OneCommand DEF InvoicingInv

LEMMA CrashAlone ==
  ASSUME Alone, InvoicingInv, NEW p \in Procs, One(op[p]), Crash(p) PROVE AloneInv'
<1>1. UNCHANGED <<invoice, paid, price>> /\ leftover' = TRUE /\ op' = [op EXCEPT ![p] = Idle]
  BY DEF Crash, Finish, books, stripe
<1>2. One(Idle)'
  BY <1>1 DEF One, RowKept, InStep, Whole
<1> QED
  BY <1>1, <1>2, OneCommand DEF InvoicingInv

\* The client and the calendar: the row, the page and the commands stay.
LEMMA OutsideAlone ==
  ASSUME InvoicingInv, AloneInv,
         UNCHANGED <<books, price, page, op, leftover>>, today <= today', today' \in Days
  PROVE  AloneInv'
<1>1. ASSUME NEW c, c # Idle => c.day \in Nat, One(c) PROVE One(c)'
  <2>1. today \in Nat /\ today' \in Nat
    BY DEF InvoicingInv, TypeOK, Days
  <2>2. RowKept'
    BY <1>1 DEF One, RowKept, books
  <2>3. InStep(c)'
    BY <1>1, <2>1 DEF One, InStep, books, Editable, Bill, Derived, IsSettled
  <2>4. Dated => Dated'
    BY <2>1 DEF Dated, Days, Derived, IsSettled, books
  <2>5. Whole(c)'
    BY <1>1, <2>4 DEF One, Whole, Settledness, Shows, Bill, books
  <2> QED
    BY <2>2, <2>3, <2>5 DEF One
<1>2. ASSUME NEW p \in Procs PROVE One(op[p])'
  <2>1. PICK c : c = op[p]
    OBVIOUS
  <2>2. c # Idle => c.day \in Nat
    BY <2>1 DEF InvoicingInv, TypeOK, Commands, Days
  <2>3. One(c)'
    BY <1>1, <2>1, <2>2 DEF AloneInv
  <2> QED
    BY <2>1, <2>3 DEF One, InStep, Whole
<1>3. (Procs = {} => One(Idle))'
  BY <1>1 DEF AloneInv
<1> QED
  BY <1>2, <1>3 DEF AloneInv

LEMMA AloneInit == Init => AloneInv
<1> SUFFICES ASSUME Init PROVE AloneInv
  OBVIOUS
<1>1. PICK t \in Totals, d \in DueDates :
        invoice = [total |-> t, due |-> d, link |-> None, published |-> FALSE,
                   voided |-> FALSE, status |-> "draft"]
  BY DEF Init
<1>2. t \in Nat \ {0} /\ paid = 0 /\ today = 0 /\ today \in Days
  BY MoneyAssumption, BoundsAssumption DEF Init, Days
<1>3. RowKept
  BY <1>1 DEF RowKept, OpenStatuses
<1>4. Derived(invoice, today) = "draft"
  BY <1>1, <1>2 DEF Derived, IsSettled
<1>5. Dated
  BY <1>1, <1>2, <1>4 DEF Dated
<1>6. One(Idle)
  BY <1>1, <1>2, <1>3, <1>5 DEF One, InStep, Whole, Settledness, Shows
<1> QED
  BY <1>6 DEF AloneInv, Init

LEMMA AloneNext == Alone /\ InvoicingInv /\ AloneInv /\ [Next]_vars => AloneInv'
<1> SUFFICES ASSUME Alone, InvoicingInv, AloneInv, [Next]_vars PROVE AloneInv'
  OBVIOUS
<1>0. today \in Days /\ today <= today
  BY DEF InvoicingInv, TypeOK, Days
<1>1. CASE UNCHANGED vars
  BY <1>0, <1>1, OutsideAlone DEF vars, stripe, troubles
<1>2. CASE ClientPays
  BY <1>0, <1>2, OutsideAlone DEF ClientPays, troubles
<1>3. CASE Tick
  <2>1. today <= today' /\ today' \in Days
    BY <1>0, <1>3, BoundsAssumption DEF Tick, Days
  <2> QED
    BY <1>3, <2>1, OutsideAlone DEF Tick, stripe, troubles
<1>4. ASSUME NEW p \in Procs,
             \/ StartEdit(p) \/ StartSend(p) \/ StartPay(p) \/ StartSync(p)
             \/ StartVoid(p) \/ DeleteInvoice(p) \/ Continue(p) \/ Crash(p)
      PROVE  AloneInv'
  <2>1. One(op[p])
    BY DEF AloneInv
  <2> QED
    BY <1>4, <2>1, StartsAlone, DeleteAlone, CrashAlone, RefreshReadAlone, RefreshWriteAlone, GoneAlone,
       UpdateAlone, CreateAlone, SetLinkAlone, RenderAlone, PublishAlone, EmailAlone, MarkAlone,
       ByHandAlone, FetchAlone, RecordAlone, InsertAlone, RepublishAlone, UploadAlone,
       VoidAlone, UnlinkAlone, UnpageAlone DEF Continue
<1> QED
  BY <1>1, <1>2, <1>3, <1>4 DEF Next

\* With one process at work, what it holds is what the row and the world say.
THEOREM AloneInvariant == Alone /\ Spec => []AloneInv
<1>1. Alone => [](Alone)
  OBVIOUS
<1> QED
  BY <1>1, AloneInit, AloneNext, InvoicingInvariant, PTL DEF Spec

LEMMA AloneGives ==
  ASSUME AloneInv
  PROVE  RowKept /\ (Quiet => One(Idle))
BY DEF AloneInv, One, Quiet

\* With one process at work, no edit, failed send or crash leaves the row with a
\* payment link that charges another total (invoicing/invoices.rs:667, the
\* link cleared when the money moved).
THEOREM LinksPriced == Alone /\ Spec => []LinkPricedRight
<1>1. AloneInv => LinkPricedRight
  BY AloneGives DEF RowKept, LinkPricedRight
<1> QED
  BY <1>1, AloneInvariant, PTL

\* With one process at work, the status a reader is shown between commands is
\* the one today's facts give, however long ago it was stored.
THEOREM StatusesTrue == Alone /\ Spec => []StatusTellsTheTruth
<1>1. InvoicingInv /\ AloneInv => StatusTellsTheTruth
  <2> SUFFICES ASSUME InvoicingInv, AloneInv, Quiet, ~leftover, invoice # None
               PROVE  EffectiveStatus(invoice) = Derived(invoice, today)
    BY DEF StatusTellsTheTruth
  <2>1. PICK d \in Days : d <= today /\ invoice.status = Derived(invoice, d)
    BY AloneGives DEF One, Whole, Rewriting, Dated
  <2>2. invoice \in Row /\ paid \in Nat /\ today \in Nat /\ d \in Nat /\ invoice.total \in Nat
    BY RowTyped DEF Days
  <2>3. invoice.due # None => invoice.due \in Nat
    <3>1. invoice.due \in DueDates
      BY <2>2 DEF Row
    <3>2. Days \subseteq Nat
      BY DEF Days
    <3>3. DueDates \subseteq Days \cup {None}
      BY DatesAssumption
    <3> QED
      BY <3>1, <3>2, <3>3
  <2>4. IsOverdue(invoice.due, d) => IsOverdue(invoice.due, today)
    BY <2>1, <2>2, <2>3 DEF IsOverdue
  <2> QED
    BY <2>1, <2>2, <2>4 DEF EffectiveStatus, Derived, IsSettled
<1> QED
  BY <1>1, AloneInvariant, InvoicingInvariant, PTL

\* With one process at work, the page of a published invoice says between
\* commands what the row says: the balance, the button, the void notice.
THEOREM PagesTrue == Alone /\ Spec => []PageTellsTheTruth
<1>1. AloneInv => PageTellsTheTruth
  BY AloneGives DEF One, Whole, Behind, Shows, PageTellsTheTruth
<1> QED
  BY <1>1, AloneInvariant, PTL

-----------------------------------------------------------------------------
(* The books' view of one invoice *)

LEMMA LifeInit == Init => Life!Init
<1> SUFFICES ASSUME Init PROVE Life!Init
  OBVIOUS
<1>1. PICK t \in Totals, d \in DueDates :
        invoice = [total |-> t, due |-> d, link |-> None, published |-> FALSE,
                   voided |-> FALSE, status |-> "draft"]
  BY DEF Init
<1>2. invoice \in Row
  BY <1>1 DEF Row, Statuses
<1>3. invoice # None /\ invoice.status = "draft" /\ invoice.total = t
  BY <1>1, <1>2, RowAssumption
<1> QED
  BY <1>3 DEF Life!Init, Standing, Billed, OpenStatuses, Init

LEMMA LifeSame == invoice' = invoice /\ paid' = paid => UNCHANGED <<Standing, Billed, paid>>
BY DEF Standing, Billed

LEMMA LifeWrites ==
  ASSUME InvoicingInv, NEW p \in Procs, One(op[p]), RefreshWrite(p)
  PROVE  [Life!Next]_<<Standing, Billed, paid>>
<1>1. PICK c : c = op[p]
  OBVIOUS
<1>2. c \in Commands /\ c # Idle /\ c.at = "write" /\ One(c)
  BY <1>1, AtStep DEF RefreshWrite, Steps
<1>3. invoice # None /\ ~invoice.voided /\ c.status = Derived(invoice, c.day)
  BY <1>2 DEF One, InStep
<1>4. invoice' = [invoice EXCEPT !.status = c.status] /\ paid' = paid
  BY <1>1, <1>3 DEF RefreshWrite
<1>5. invoice \in Row /\ invoice'.total = invoice.total /\ invoice'.status = c.status /\ invoice' # None
  <2>1. invoice \in Row
    BY <1>3, RowTyped
  <2>2. invoice' \in Row
    BY <2>1, <1>3, <1>4, DerivedIsOne DEF Row
  <2> QED
    BY <2>1, <2>2, <1>3, <1>4, RowAssumption DEF Row
<1>6. Billed' = Billed
  BY <1>3, <1>5 DEF Billed
<1>7. /\ invoice.status # "void"
      /\ invoice.status \in OpenStatuses => invoice.published
      /\ invoice.status = "paid" => paid >= invoice.total
  BY <1>2, <1>3 DEF One, RowKept
<1>8. CASE paid >= invoice.total
  <2>1. Standing' = "paid" /\ Standing \in {"draft", "open", "paid"}
    BY <1>3, <1>5, <1>7, <1>8, RowTyped DEF Standing, Derived, IsSettled, OpenStatuses, Statuses
  <2> QED
    BY <1>3, <1>4, <1>6, <1>8, <2>1 DEF Life!Next, Life!Settle, Life!Settles, Billed
<1>9. CASE ~(paid >= invoice.total) /\ ~invoice.published
  <2>1. Standing' = "draft" /\ Standing = "draft"
    BY <1>3, <1>5, <1>7, <1>9, RowTyped DEF Standing, Derived, IsSettled, OpenStatuses, Statuses
  <2> QED
    BY <1>4, <1>6, <2>1
<1>10. CASE ~(paid >= invoice.total) /\ invoice.published
  <2>1. Standing' = "open" /\ Standing \in {"draft", "open"}
    BY <1>3, <1>5, <1>7, <1>10, RowTyped DEF Standing, Derived, IsSettled, OpenStatuses, Statuses
  <2> QED
    BY <1>3, <1>4, <1>6, <1>10, <2>1 DEF Life!Next, Life!Send, Life!Settles, Billed
<1> QED
  BY <1>8, <1>9, <1>10

LEMMA LifeEdits ==
  ASSUME InvoicingInv, NEW p \in Procs, One(op[p]), UpdateInvoice(p)
  PROVE  [Life!Next]_<<Standing, Billed, paid>>
<1>1. op[p] # Idle /\ op[p].at = "edit"
  BY AtStep DEF UpdateInvoice, Steps
<1>2. invoice # None /\ invoice.status = "draft" /\ paid = 0 /\ invoice \in Row /\ paid' = paid
  BY <1>1, RowTyped DEF One, InStep, Editable, UpdateInvoice
<1>3. invoice'.status = "draft" /\ invoice'.total \in Totals /\ invoice' # None
  <2>1. PICK total \in Totals, d \in DueDates, link \in Links \cup {None} :
          invoice' = [invoice EXCEPT !.due = d, !.total = total, !.link = link]
    <3>1. PICK items \in Totals \cup {None}, d \in DueDates :
            LET moved == items # None /\ items # op[p].row.total /\ op[p].row.link # None
            IN  invoice' = [invoice EXCEPT !.due = d,
                                           !.total = IF items = None THEN @ ELSE items,
                                           !.link = IF moved THEN None ELSE @]
      BY DEF UpdateInvoice
    <3>2. PICK total, link :
            /\ total = IF items = None THEN invoice.total ELSE items
            /\ link = IF items # None /\ items # op[p].row.total /\ op[p].row.link # None
                      THEN None ELSE invoice.link
      OBVIOUS
    <3>3. invoice' = [invoice EXCEPT !.due = d, !.total = total, !.link = link]
      BY <3>1, <3>2
    <3>4. total \in Totals /\ link \in Links \cup {None}
      BY <1>2, <3>2 DEF Row
    <3> QED
      BY <3>3, <3>4
  <2>2. invoice' \in Row /\ invoice'.total = total /\ invoice'.status = invoice.status
    BY <1>2, <2>1 DEF Row
  <2> QED
    BY <1>2, <2>1, <2>2, RowAssumption
<1> QED
  BY <1>2, <1>3 DEF Life!Next, Life!Edit, Standing, Billed, OpenStatuses

LEMMA LifePays ==
  ASSUME InvoicingInv, NEW p \in Procs, One(op[p]), RecordByHand(p) \/ InsertPayment(p)
  PROVE  [Life!Next]_<<Standing, Billed, paid>>
<1>1. PICK c : c = op[p]
  OBVIOUS
<1>2. /\ c \in Commands /\ c # Idle /\ c.at \in {"pay", "insert"} /\ One(c) /\ c.amount \in Nat
      /\ c.left \subseteq Sessions /\ Knows(c, page, mailed, sessions)
  BY <1>1, AtStep DEF RecordByHand, InsertPayment, Steps
<1>3. invoice' = invoice /\ paid \in Nat
  BY DEF RecordByHand, InsertPayment, InvoicingInv, TypeOK
<1>4. Standing \in {"draft", "open", "paid"}
  <2>1. invoice # None /\ invoice.status # "void" /\ invoice.status \in Statuses
    BY <1>2, RowTyped DEF One, InStep, RowKept
  <2> QED
    BY <2>1 DEF Standing, OpenStatuses, Statuses
<1>5. paid' > paid
  <2>1. CASE RecordByHand(p)
    <3>1. paid' = paid + c.amount /\ c.amount > 0
      BY <1>1, <1>2, <2>1 DEF RecordByHand, One, InStep
    <3> QED
      BY <1>2, <1>3, <3>1
  <2>2. CASE InsertPayment(p)
    <3>1. PICK s \in c.left : IsNext(s, c.left) /\ paid' = paid + price[sessions[s]]
      BY <1>1, <1>2, <2>2 DEF InsertPayment, One, InStep
    <3>2. s \in Sessions /\ sessions[s] # None
      BY <1>2, <3>1 DEF Knows
    <3>3. sessions[s] \in Links /\ price[sessions[s]] # None
      BY <3>2 DEF InvoicingInv, TypeOK, Priced
    <3>4. price[sessions[s]] \in Nat \ {0}
      BY <3>3, MoneyAssumption DEF InvoicingInv, TypeOK
    <3> QED
      BY <1>3, <3>1, <3>4
  <2> QED
    BY <2>1, <2>2
<1> QED
  BY <1>3, <1>4, <1>5 DEF Life!Next, Life!Receive, Standing, Billed

LEMMA LifeVoids ==
  ASSUME InvoicingInv, NEW p \in Procs, One(op[p]), VoidInvoice(p)
  PROVE  [Life!Next]_<<Standing, Billed, paid>>
<1>1. op[p] # Idle /\ op[p].at = "void"
  BY AtStep DEF VoidInvoice, Steps
<1>2. invoice # None /\ ~invoice.voided /\ paid = 0 /\ paid' = paid
  BY <1>1 DEF One, InStep, VoidInvoice
<1>3. invoice \in Row /\ invoice.status \in Statuses /\ invoice.total > 0 /\ invoice.total \in Nat
  BY <1>2, RowTyped
<1>4. invoice.status \notin {"void", "paid"}
  BY <1>2, <1>3 DEF One, RowKept
<1>5. Standing \in {"draft", "open"}
  BY <1>2, <1>3, <1>4 DEF Standing, OpenStatuses, Statuses
<1>6. invoice'.total = invoice.total /\ invoice'.status = "void" /\ invoice' # None
  <2>1. invoice' = [invoice EXCEPT !.voided = TRUE, !.status = "void"]
    BY DEF VoidInvoice
  <2>2. invoice' \in Row
    BY <2>1, <1>3 DEF Row, Statuses
  <2> QED
    BY <2>1, <2>2, <1>3, RowAssumption DEF Row
<1>7. Standing' = "void" /\ Billed' = Billed
  BY <1>2, <1>6 DEF Standing, Billed, OpenStatuses
<1> QED
  BY <1>2, <1>5, <1>7 DEF Life!Next, Life!Void

LEMMA LifeDeletes ==
  ASSUME NEW p \in Procs, DeleteInvoice(p)
  PROVE  [Life!Next]_<<Standing, Billed, paid>>
BY DEF DeleteInvoice, Fresh, Life!Next, Life!Delete, Standing, Billed, OpenStatuses

\* The other fields of the row are not the books'.
LEMMA LifeElse ==
  ASSUME invoice # None, invoice \in Row, paid' = paid,
         \/ \E l \in Links : invoice' = [invoice EXCEPT !.link = l]
         \/ invoice' = [invoice EXCEPT !.published = TRUE]
  PROVE  UNCHANGED <<Standing, Billed, paid>>
<1>1. invoice' \in Row /\ invoice'.total = invoice.total /\ invoice'.status = invoice.status
  BY DEF Row
<1> QED
  BY <1>1, RowAssumption DEF Standing, Billed

LEMMA LifeStep ==
  InvoicingInv /\ AloneInv /\ [Next]_vars => [Life!Next]_<<Standing, Billed, paid>>
<1> SUFFICES ASSUME InvoicingInv, AloneInv, [Next]_vars
             PROVE  [Life!Next]_<<Standing, Billed, paid>>
  OBVIOUS
<1> USE DEF books
<1>1. CASE UNCHANGED vars \/ ClientPays \/ Tick
  BY <1>1, LifeSame DEF vars, ClientPays, Tick
<1>2. ASSUME NEW p \in Procs,
             \/ StartEdit(p) \/ StartSend(p) \/ StartPay(p) \/ StartSync(p)
             \/ StartVoid(p) \/ Crash(p) \/ RefreshRead(p) \/ Gone(p)
             \/ CreatePaymentLink(p) \/ Render(p) \/ PublishPage(p) \/ EmailInvoice(p)
             \/ PaidSessions(p) \/ RecordPayment(p) \/ Republish(p) \/ UploadPage(p)
             \/ DeactivateLink(p) \/ ReplacePage(p)
      PROVE  UNCHANGED <<Standing, Billed, paid>>
  <2>1. invoice' = invoice /\ paid' = paid
    BY <1>2 DEF StartEdit, StartSend, StartPay, StartSync, StartVoid, Crash, RefreshRead, Gone,
       CreatePaymentLink, Render, PublishPage, EmailInvoice, PaidSessions, RecordPayment,
       Republish, UploadPage, DeactivateLink, ReplacePage
  <2> QED
    BY <2>1, LifeSame
<1>3. ASSUME NEW p \in Procs, SetPaymentLink(p) \/ MarkPublished(p)
      PROVE  UNCHANGED <<Standing, Billed, paid>>
  <2>1. PICK c : c = op[p]
    OBVIOUS
  <2>2. c # Idle /\ c.at \in {"setlink", "mark"} /\ c.link \in Links \cup {None} /\ One(c)
    BY <1>3, <2>1, AtStep DEF SetPaymentLink, MarkPublished, Steps, AloneInv
  <2>3. c.at = "setlink" => c.link \in Links
    BY <2>2 DEF One, InStep
  <2>4. invoice # None /\ invoice \in Row /\ paid' = paid
    BY <1>3, RowTyped DEF SetPaymentLink, MarkPublished
  <2>5. CASE SetPaymentLink(p)
    <3>1. c.link \in Links /\ invoice' = [invoice EXCEPT !.link = c.link]
      BY <2>1, <2>3, <2>5 DEF SetPaymentLink
    <3> QED
      BY <2>4, <3>1, LifeElse
  <2>6. CASE MarkPublished(p)
    BY <2>4, <2>6, LifeElse DEF MarkPublished
  <2> QED
    BY <1>3, <2>5, <2>6
<1>4. ASSUME NEW p \in Procs,
             \/ RefreshWrite(p) \/ UpdateInvoice(p) \/ RecordByHand(p) \/ InsertPayment(p)
             \/ VoidInvoice(p) \/ DeleteInvoice(p)
      PROVE  [Life!Next]_<<Standing, Billed, paid>>
  <2>1. One(op[p])
    BY DEF AloneInv
  <2> QED
    BY <1>4, <2>1, LifeWrites, LifeEdits, LifePays, LifeVoids, LifeDeletes
<1> QED
  BY <1>1, <1>2, <1>3, <1>4 DEF Next, Continue

\* With one process at work, the stored status and the money move only as the
\* books promise: nothing is billed anew under a payment, no void takes one,
\* and nothing final reopens.
THEOREM KeepsTheLife == Alone /\ Spec => LifeSpec
<1>1. AloneInv /\ InvoicingInv /\ [Next]_vars => [Life!Next]_<<Standing, Billed, paid>>
  BY LifeStep
<1> QED
  BY <1>1, LifeInit, AloneInvariant, InvoicingInvariant, PTL DEF LifeSpec, Life!Spec, Spec

=============================================================================
