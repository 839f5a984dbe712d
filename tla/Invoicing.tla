----------------------------- MODULE Invoicing -----------------------------
(***************************************************************************)
(* One invoice (crates/nigel-core/src/invoicing/): its row and payments,   *)
(* the commands that processes run against them, the Stripe payment links  *)
(* made for it, its page in the public bucket, and the client who pays.    *)
(*                                                                         *)
(* A command is cut wherever it lets go of the database: a guard's read    *)
(* from the write it guards unless one transaction covers both, and every  *)
(* call to Stripe, the bucket or the mailer is a step of its own.  Reads   *)
(* with nothing but reads between them are one step.  Amounts are whole    *)
(* units, so the half-cent slack of is_settled is exact.                   *)
(***************************************************************************)
EXTENDS Integers, FiniteSets

CONSTANTS
  Procs,        \* processes, or server requests, that work on the invoice
  None,         \* SQL NULL, or an object that is not there
  Totals,       \* what the line items can add up to
  Amounts,      \* what a payment entered by hand can be
  DueDates,     \* due dates, None among them if it can be cleared
  MaxDay,       \* bound: the last day
  MaxPaid,      \* bound: no payment by hand starts that would go past it
  MaxLinks,     \* bound: payment links made
  MaxSessions,  \* bound: checkout sessions completed
  MaxFaults,    \* bound: calls to Stripe, the bucket or the mailer that fail
  MaxCrashes    \* bound: processes killed in the middle of a command

ASSUME BoundsAssumption ==
  /\ MaxDay \in Nat /\ MaxPaid \in Nat /\ MaxLinks \in Nat /\ MaxSessions \in Nat
  /\ MaxFaults \in Nat /\ MaxCrashes \in Nat

\* validate_items and payment_amount refuse anything else.
ASSUME MoneyAssumption == Totals \subseteq Nat \ {0} /\ Amounts \subseteq Nat \ {0}

Days     == 0..MaxDay
Links    == 1..MaxLinks
Sessions == 1..MaxSessions

\* What a page of the invoice says: its figures, and the link behind Pay.
Page == [total : Nat, paid : Nat, button : Links \cup {None}]

ASSUME DatesAssumption == DueDates \subseteq Days \cup {None}
ASSUME NoneAssumption  == None \notin Nat \cup Page

VARIABLES
  invoice,   \* invoices: the row, None once deleted
  paid,      \* invoice_payments: SUM(amount)
  recorded,  \* invoice_payments: stripe_checkout_session_id
  price,     \* Stripe: what each payment link charges
  active,    \* Stripe: the links that take money
  sessions,  \* Stripe: the link each completed checkout went through
  page,      \* public bucket: index.html
  today,     \* the calendar
  op,        \* what each process is in the middle of
  mailed,    \* history: an email with the page's address reached the client
  known,     \* history: the links on the page while the client had its address
  byHand,    \* history: the sum of the payments entered by hand
  leftover,  \* history: something was cut short, by a crash or with a warning
  faults, crashes

books    == <<invoice, paid, recorded>>
stripe   == <<price, active, sessions>>
seen     == <<mailed, known>>
troubles == <<leftover, faults, crashes>>

vars == <<books, stripe, page, today, op, seen, byHand, troubles>>

Idle == [at |-> "idle"]

\* What a command holds: the day it was started on, the row as it read it, the
\* link it made, the sessions it has still to record, whether it recorded one.
Command(at) ==
  [at |-> at, day |-> today, row |-> invoice, amount |-> 0, link |-> None,
   left |-> {}, new |-> FALSE, status |-> None, bill |-> None, then |-> "done"]

Start(p, at)  == op' = [op EXCEPT ![p] = Command(at)]
Move(p, at)   == op' = [op EXCEPT ![p].at = at]
Finish(p)     == op' = [op EXCEPT ![p] = Idle]
Fresh(p)      == op[p] = Idle /\ invoice # None

\* A call to Stripe, the bucket or the mailer fails; it may have gone through.
Fault == faults < MaxFaults /\ faults' = faults + 1 /\ UNCHANGED crashes

\* It fails where the command can only warn.
Warned == Fault /\ leftover' = TRUE

-----------------------------------------------------------------------------
(* Status: stored when something happens, overlaid with the day when read *)

IsSettled(row) == paid >= row.total

IsOverdue(due, day) == due # None /\ day > due

IsVoid(row) == row.voided \/ row.status = "void"

\* refresh_status
Derived(row, day) ==
  IF row.voided THEN "void"
  ELSE IF IsSettled(row) THEN "paid"
  ELSE IF ~row.published THEN "draft"
  ELSE IF IsOverdue(row.due, day) THEN "overdue"
  ELSE IF paid > 0 THEN "partial"
  ELSE "sent"

\* Mutant: the overlay widens "sent" only.
EffectiveStatusSent(row) ==
  IF row.status = "sent" /\ paid < row.total /\ IsOverdue(row.due, today)
  THEN "overdue" ELSE row.status

EffectiveStatus(row) ==
  IF row.status \in {"sent", "partial"} /\ paid < row.total /\ IsOverdue(row.due, today)
  THEN "overdue" ELSE row.status

OpenStatuses == {"sent", "partial", "overdue"}

\* The page: the money block, and the Pay button unless the invoice is settled.
Bill(row) ==
  [total |-> row.total, paid |-> paid,
   button |-> IF IsVoid(row) \/ row.status = "paid" THEN None ELSE row.link]

\* What a client with the page's address can click.
Buttons(pg, m) == IF m /\ pg # None THEN {pg.button} \ {None} ELSE {}

VoidNotice == [total |-> 0, paid |-> 0, button |-> None]

Init ==
  /\ \E t \in Totals, d \in DueDates :
       invoice = [total |-> t, due |-> d, link |-> None, published |-> FALSE,
                  voided |-> FALSE, status |-> "draft"]
  /\ paid = 0 /\ recorded = {}
  /\ price = [l \in Links |-> None] /\ active = {}
  /\ sessions = [s \in Sessions |-> None]
  /\ page = None /\ today = 0
  /\ op = [p \in Procs |-> Idle]
  /\ mailed = FALSE /\ known = {} /\ byHand = 0
  /\ leftover = FALSE /\ faults = 0 /\ crashes = 0

-----------------------------------------------------------------------------
(* refresh_status outside a transaction: the facts are read, then written *)

RefreshRead(p) ==
  /\ op[p].at = "refresh"
  /\ \/ invoice = None /\ Finish(p)
     \/ /\ invoice # None
        /\ op' = [op EXCEPT ![p].at = "write", ![p].status = Derived(invoice, op[p].day)]
  /\ UNCHANGED <<books, stripe, page, today, seen, byHand, troubles>>

RefreshWrite(p) ==
  /\ op[p].at = "write"
  /\ invoice' = IF invoice = None THEN None ELSE [invoice EXCEPT !.status = op[p].status]
  /\ IF op[p].then = "done" THEN Finish(p) ELSE Move(p, op[p].then)
  /\ UNCHANGED <<paid, recorded, stripe, page, today, seen, byHand, troubles>>

\* The row is gone: NotFound, or an UPDATE of nothing and then NotFound.
Gone(p) ==
  /\ op[p].at \in {"edit", "pay", "setlink", "mark", "void", "fetch", "record", "insert", "reload"}
  /\ invoice = None
  /\ Finish(p)
  /\ UNCHANGED <<books, stripe, page, today, seen, byHand, troubles>>

-----------------------------------------------------------------------------
(* Edit *)

Editable(row) == ~row.voided /\ row.status = "draft" /\ paid = 0

StartEdit(p) ==
  /\ Fresh(p) /\ Editable(invoice)
  /\ Start(p, "edit")
  /\ UNCHANGED <<books, stripe, page, today, seen, byHand, troubles>>

\* Mutant: the payment link is kept whatever the edit moves.
UpdateInvoiceKeepsLink(p) ==
  /\ op[p].at = "edit" /\ invoice # None
  /\ \E items \in Totals \cup {None}, d \in DueDates :
       invoice' = [invoice EXCEPT !.due = d, !.total = IF items = None THEN @ ELSE items]
  /\ Move(p, "refresh")
  /\ UNCHANGED <<paid, recorded, stripe, page, today, seen, byHand, troubles>>

\* Line items are replaced or left alone.  A link priced for another total is
\* cleared, by the row as the guard read it.
UpdateInvoice(p) ==
  /\ op[p].at = "edit" /\ invoice # None
  /\ \E items \in Totals \cup {None}, d \in DueDates :
       LET moved == items # None /\ items # op[p].row.total /\ op[p].row.link # None
       IN  invoice' = [invoice EXCEPT !.due = d,
                                      !.total = IF items = None THEN @ ELSE items,
                                      !.link = IF moved THEN None ELSE @]
  /\ Move(p, "refresh")
  /\ UNCHANGED <<paid, recorded, stripe, page, today, seen, byHand, troubles>>

-----------------------------------------------------------------------------
(* Send: check, payment link, render, publish, email, record *)

Unmade == {l \in Links : price[l] = None}

StartSend(p) ==
  /\ Fresh(p) /\ ~IsVoid(invoice)
  /\ IF invoice.link # None THEN Start(p, "render")
     ELSE /\ Cardinality(Unmade) > Cardinality({q \in Procs : op[q].at = "link"})
          /\ Start(p, "link")
  /\ UNCHANGED <<books, stripe, page, today, seen, byHand, troubles>>

IsNext(x, S) == x \in S /\ \A y \in S : x <= y

CreatePaymentLink(p) ==
  /\ op[p].at = "link"
  /\ \E l \in Links :
       /\ IsNext(l, Unmade)
       /\ \/ /\ price' = [price EXCEPT ![l] = op[p].row.total]
             /\ active' = active \cup {l}
             /\ \/ op' = [op EXCEPT ![p].at = "setlink", ![p].link = l] /\ UNCHANGED troubles
                \/ Finish(p) /\ Fault /\ UNCHANGED leftover
          \/ /\ UNCHANGED <<price, active>>
             /\ Finish(p) /\ Fault /\ UNCHANGED leftover
  /\ UNCHANGED <<books, sessions, page, today, seen, byHand>>

SetPaymentLink(p) ==
  /\ op[p].at = "setlink" /\ invoice # None
  /\ invoice' = [invoice EXCEPT !.link = op[p].link]
  /\ op' = [op EXCEPT ![p].at = "render", ![p].row = invoice']
  /\ UNCHANGED <<paid, recorded, stripe, page, today, seen, byHand, troubles>>

\* The row as the send holds it, with the payments as they are now.
Render(p) ==
  /\ op[p].at = "render"
  /\ op' = [op EXCEPT ![p].at = "publish", ![p].bill = Bill(op[p].row)]
  /\ UNCHANGED <<books, stripe, page, today, seen, byHand, troubles>>

Shown(p) == page' = op[p].bill /\ known' = known \cup Buttons(op[p].bill, mailed)

PublishPage(p) ==
  /\ op[p].at = "publish"
  /\ \/ Shown(p) /\ Move(p, "email") /\ UNCHANGED troubles
     \/ Shown(p) /\ Finish(p) /\ Fault /\ UNCHANGED leftover
     \/ UNCHANGED <<page, known>> /\ Finish(p) /\ Fault /\ UNCHANGED leftover
  /\ UNCHANGED <<books, stripe, today, mailed, byHand>>

Delivered == mailed' = TRUE /\ known' = known \cup Buttons(page, TRUE)

\* Mutant: a bounce does not stop the send.
EmailInvoiceAnyway(p) ==
  /\ op[p].at = "email"
  /\ \/ Delivered /\ Move(p, "mark") /\ UNCHANGED troubles
     \/ UNCHANGED seen /\ Move(p, "mark") /\ Fault /\ UNCHANGED leftover
  /\ UNCHANGED <<books, stripe, page, today, byHand>>

EmailInvoice(p) ==
  /\ op[p].at = "email"
  /\ \/ Delivered /\ Move(p, "mark") /\ UNCHANGED troubles
     \/ Delivered /\ Finish(p) /\ Fault /\ UNCHANGED leftover
     \/ UNCHANGED seen /\ Finish(p) /\ Fault /\ UNCHANGED leftover
  /\ UNCHANGED <<books, stripe, page, today, byHand>>

MarkPublished(p) ==
  /\ op[p].at = "mark" /\ invoice # None
  /\ invoice' = [invoice EXCEPT !.published = TRUE]
  /\ Move(p, "refresh")
  /\ UNCHANGED <<paid, recorded, stripe, page, today, seen, byHand, troubles>>

-----------------------------------------------------------------------------
(* Payments *)

\* Mutant: the balance of an invoice paid over its total is a payment too.
StartPaySettled(p) ==
  /\ Fresh(p) /\ ~IsVoid(invoice)
  /\ \E amount \in Amounts \cup {invoice.total - paid} :
       /\ paid + amount <= MaxPaid
       /\ op' = [op EXCEPT ![p] = [Command("pay") EXCEPT !.amount = amount]]
  /\ UNCHANGED <<books, stripe, page, today, seen, byHand, troubles>>

\* A payment entered by hand, of what is asked for or the whole balance.
StartPay(p) ==
  /\ Fresh(p) /\ ~IsVoid(invoice)
  /\ \E amount \in Amounts \cup (IF IsSettled(invoice) THEN {} ELSE {invoice.total - paid}) :
       /\ paid + amount <= MaxPaid
       /\ op' = [op EXCEPT ![p] = [Command("pay") EXCEPT !.amount = amount]]
  /\ UNCHANGED <<books, stripe, page, today, seen, byHand, troubles>>

\* record_payment without a session; the page is corrected after it.
RecordByHand(p) ==
  /\ op[p].at = "pay" /\ invoice # None
  /\ paid' = paid + op[p].amount
  /\ byHand' = byHand + op[p].amount
  /\ op' = [op EXCEPT ![p].at = "refresh", ![p].then = "reload"]
  /\ UNCHANGED <<invoice, recorded, stripe, page, today, seen, troubles>>

\* Mutant: the stored overdue status is not one of those polled.
StartSyncNotOverdue(p) ==
  /\ Fresh(p)
  /\ invoice.link # None /\ invoice.status \in OpenStatuses \ {"overdue"}
  /\ Start(p, "fetch")
  /\ UNCHANGED <<books, stripe, page, today, seen, byHand, troubles>>

\* run_sync polls the open invoices that have a link.
StartSync(p) ==
  /\ Fresh(p)
  /\ invoice.link # None /\ invoice.status \in OpenStatuses
  /\ Start(p, "fetch")
  /\ UNCHANGED <<books, stripe, page, today, seen, byHand, troubles>>

PaidVia(l) == {s \in Sessions : sessions[s] = l} \ {None}

PaidSessions(p) ==
  /\ op[p].at = "fetch" /\ invoice # None
  /\ \/ invoice.link = None /\ Finish(p) /\ UNCHANGED troubles
     \/ /\ invoice.link # None
        /\ op' = [op EXCEPT ![p].at = "record", ![p].left = PaidVia(invoice.link)]
        /\ UNCHANGED troubles
     \/ invoice.link # None /\ Finish(p) /\ Fault /\ UNCHANGED leftover
  /\ UNCHANGED <<books, stripe, page, today, seen, byHand>>

\* record_payment's guards for the next session.  A void found between two
\* sessions ends the run, and what it recorded is not republished.
RecordPayment(p) ==
  /\ op[p].at = "record" /\ invoice # None
  /\ \/ /\ op[p].left = {}
        /\ IF op[p].new THEN Move(p, "reload") ELSE Finish(p)
     \/ op[p].left # {} /\ IsVoid(invoice) /\ Finish(p)
     \/ \E s \in op[p].left :
          /\ IsNext(s, op[p].left) /\ ~IsVoid(invoice)
          /\ IF s \in recorded THEN op' = [op EXCEPT ![p].left = @ \ {s}]
                               ELSE Move(p, "insert")
  /\ UNCHANGED <<books, stripe, page, today, seen, byHand, troubles>>

\* Mutant: the column is not unique.
InsertPaymentTwice(p) ==
  /\ op[p].at = "insert" /\ invoice # None
  /\ \E s \in op[p].left :
       /\ IsNext(s, op[p].left)
       /\ recorded' = recorded \cup {s}
       /\ paid' = paid + price[sessions[s]]
       /\ op' = [op EXCEPT ![p].at = "refresh", ![p].then = "record",
                           ![p].left = @ \ {s}, ![p].new = TRUE]
  /\ UNCHANGED <<invoice, stripe, page, today, seen, byHand, troubles>>

\* The session's column is UNIQUE: an insert that lost the race is an error.
InsertPayment(p) ==
  /\ op[p].at = "insert" /\ invoice # None
  /\ \E s \in op[p].left :
       /\ IsNext(s, op[p].left)
       /\ \/ s \in recorded /\ Finish(p) /\ UNCHANGED <<recorded, paid>>
          \/ /\ s \notin recorded
             /\ recorded' = recorded \cup {s}
             /\ paid' = paid + price[sessions[s]]
             /\ op' = [op EXCEPT ![p].at = "refresh", ![p].then = "record",
                                 ![p].left = @ \ {s}, ![p].new = TRUE]
  /\ UNCHANGED <<invoice, stripe, page, today, seen, byHand, troubles>>

\* Mutant: the corrected page is rendered from the row read before the payment.
RepublishStale(p) ==
  /\ op[p].at = "reload" /\ invoice # None
  /\ IF invoice.published /\ ~IsVoid(invoice)
     THEN op' = [op EXCEPT ![p].at = "upload", ![p].bill = Bill(op[p].row)]
     ELSE Finish(p)
  /\ UNCHANGED <<books, stripe, page, today, seen, byHand, troubles>>

\* republish_with: only a published invoice that is not void has a page to correct.
Republish(p) ==
  /\ op[p].at = "reload" /\ invoice # None
  /\ IF invoice.published /\ ~IsVoid(invoice)
     THEN op' = [op EXCEPT ![p].at = "upload", ![p].bill = Bill(invoice)]
     ELSE Finish(p)
  /\ UNCHANGED <<books, stripe, page, today, seen, byHand, troubles>>

UploadPage(p) ==
  /\ op[p].at = "upload"
  /\ \/ Shown(p) /\ UNCHANGED troubles
     \/ Shown(p) /\ Warned
     \/ UNCHANGED <<page, known>> /\ Warned
  /\ Finish(p)
  /\ UNCHANGED <<books, stripe, today, mailed, byHand>>

-----------------------------------------------------------------------------
(* Void and delete *)

\* Mutant: an invoice with a payment can be voided.
VoidableWhatever(row) == ~row.voided

Voidable(row) == ~row.voided /\ paid = 0

StartVoid(p) ==
  /\ Fresh(p) /\ Voidable(invoice)
  /\ Start(p, "void")
  /\ UNCHANGED <<books, stripe, page, today, seen, byHand, troubles>>

VoidInvoice(p) ==
  /\ op[p].at = "void" /\ invoice # None
  /\ invoice' = [invoice EXCEPT !.voided = TRUE, !.status = "void"]
  /\ Move(p, "unlink")
  /\ UNCHANGED <<paid, recorded, stripe, page, today, seen, byHand, troubles>>

\* By the row as it was read before the void.
DeactivateLink(p) ==
  /\ op[p].at = "unlink"
  /\ \/ op[p].row.link = None /\ UNCHANGED <<active, troubles>>
     \/ op[p].row.link # None /\ active' = active \ {op[p].row.link} /\ UNCHANGED troubles
     \/ /\ op[p].row.link # None /\ Warned
        /\ active' \in {active, active \ {op[p].row.link}}
  /\ Move(p, "unpage")
  /\ UNCHANGED <<books, price, sessions, page, today, seen, byHand>>

ReplacePage(p) ==
  /\ op[p].at = "unpage"
  /\ \/ ~op[p].row.published /\ UNCHANGED <<page, troubles>>
     \/ op[p].row.published /\ page' = VoidNotice /\ UNCHANGED troubles
     \/ op[p].row.published /\ page' \in {page, VoidNotice} /\ Warned
  /\ Finish(p)
  /\ UNCHANGED <<books, stripe, today, seen, byHand>>

\* Guard and rows in one transaction.
DeleteInvoice(p) ==
  /\ Fresh(p)
  /\ ~IsVoid(invoice) /\ ~invoice.published /\ invoice.status = "draft" /\ paid = 0
  /\ invoice' = None
  /\ UNCHANGED <<paid, recorded, stripe, page, today, op, seen, byHand, troubles>>

-----------------------------------------------------------------------------
(* Everything else *)

\* The client pays through a link they once saw, if it still takes money.
ClientPays ==
  \E l \in known \cap active, s \in Sessions :
    /\ IsNext(s, {x \in Sessions : sessions[x] = None})
    /\ sessions' = [sessions EXCEPT ![s] = l]
    /\ UNCHANGED <<books, price, active, page, today, op, seen, byHand, troubles>>

Tick ==
  /\ today < MaxDay
  /\ today' = today + 1
  /\ UNCHANGED <<books, stripe, page, op, seen, byHand, troubles>>

Crash(p) ==
  /\ op[p] # Idle
  /\ crashes < MaxCrashes
  /\ crashes' = crashes + 1
  /\ leftover' = TRUE
  /\ Finish(p)
  /\ UNCHANGED <<books, stripe, page, today, seen, byHand, faults>>

Continue(p) ==
  \/ RefreshRead(p) \/ RefreshWrite(p) \/ Gone(p) \/ UpdateInvoice(p)
  \/ CreatePaymentLink(p) \/ SetPaymentLink(p) \/ Render(p) \/ PublishPage(p)
  \/ EmailInvoice(p) \/ MarkPublished(p)
  \/ RecordByHand(p) \/ PaidSessions(p) \/ RecordPayment(p) \/ InsertPayment(p)
  \/ Republish(p) \/ UploadPage(p)
  \/ VoidInvoice(p) \/ DeactivateLink(p) \/ ReplacePage(p)

Next ==
  \/ \E p \in Procs :
       \/ StartEdit(p) \/ StartSend(p) \/ StartPay(p) \/ StartSync(p)
       \/ StartVoid(p) \/ DeleteInvoice(p)
       \/ Continue(p)
       \/ Crash(p)
  \/ ClientPays
  \/ Tick

Spec == Init /\ [][Next]_vars

\* A command that began runs on, and the sync before every command keeps coming round.
Fairness ==
  /\ \A p \in Procs : WF_vars(Continue(p))
  /\ SF_vars(\E p \in Procs : StartSync(p))

FairSpec == Spec /\ Fairness

-----------------------------------------------------------------------------
(* Properties *)

Statuses == {"draft", "sent", "partial", "overdue", "paid", "void"}

Row == [total : Totals, due : DueDates, link : Links \cup {None}, published : BOOLEAN,
        voided : BOOLEAN, status : Statuses]

\* An invoice that is not there is no row.
ASSUME RowAssumption == None \notin Row

Steps == {"edit", "link", "setlink", "render", "publish", "email", "mark", "refresh", "write",
          "pay", "fetch", "record", "insert", "reload", "upload", "void", "unlink", "unpage"}

Commands == [at : Steps, day : Days, row : Row, amount : Nat, link : Links \cup {None},
             left : SUBSET Sessions, new : BOOLEAN, status : Statuses \cup {None},
             bill : Page \cup {None}, then : {"done", "record", "reload"}]

\* The row, what is out in the world, and every command's own copies have their types.
TypeOK ==
  /\ invoice \in Row \cup {None}
  /\ paid \in Nat /\ recorded \subseteq Sessions
  /\ price \in [Links -> Totals \cup {None}] /\ active \subseteq Links
  /\ sessions \in [Sessions -> Links \cup {None}]
  /\ page \in Page \cup {None}
  /\ today \in Days
  /\ op \in [Procs -> Commands \cup {Idle}]
  /\ mailed \in BOOLEAN /\ known \subseteq Links /\ byHand \in Nat
  /\ leftover \in BOOLEAN /\ faults \in 0..MaxFaults /\ crashes \in 0..MaxCrashes

Quiet == \A p \in Procs : op[p] = Idle

\* A payment link on the row charges what the invoice bills, whatever was edited
\* after a send that failed.
LinkPricedRight ==
  (invoice # None /\ invoice.link # None) => price[invoice.link] = invoice.total

\* The status a reader sees between commands is the one the facts give today,
\* though the column is written only when something happens: the overlay of
\* effective_status makes it so, as docs/design-constraints.md:45 and
\* docs/invoicing.md:41-45 say.  KeepsItsStatus is what :1533-1544 says instead.
StatusTellsTheTruth ==
  (Quiet /\ ~leftover /\ invoice # None) => EffectiveStatus(invoice) = Derived(invoice, today)

\* The page of a published invoice shows the balance, offers to pay it exactly
\* while something is owed, and says so when the invoice is void.
PageTellsTheTruth ==
  (Quiet /\ ~leftover /\ invoice # None /\ invoice.published) =>
    page = IF invoice.voided THEN VoidNotice ELSE Bill(invoice)

\* Nothing is half-sent: an invoice marked published reached the client.
SentReachedTheClient == (invoice # None /\ invoice.published) => mailed /\ page # None

\* The sum of what the recorded sessions charged.
ByStripe ==
  LET sum[S \in SUBSET recorded] ==
        IF S = {} THEN 0
        ELSE LET s == CHOOSE x \in S : TRUE IN price[sessions[s]] + sum[S \ {s}]
  IN  sum[recorded]

\* The books hold every payment by hand, and each checkout session once, however
\* many syncs found it at the same time.
EachPaymentOnce == paid = byHand + ByStripe

\* A session completed through the link of an open invoice is recorded, unless
\* the invoice closes first.
PaidSessionSettles ==
  \A s \in Sessions :
    (/\ invoice # None
     /\ invoice.status \in OpenStatuses
     /\ invoice.link # None /\ sessions[s] = invoice.link)
      ~> (s \in recorded \/ invoice = None \/ invoice.status \notin OpenStatuses)

\* Void stops the money: when it printed no warning, no link the client was
\* given takes any.
VoidStopsTheMoney ==
  (Quiet /\ ~leftover /\ invoice # None /\ invoice.voided) => known \cap active = {}

\* The books' view of the row: the stored status, the three open ones as one.
Standing ==
  IF invoice = None THEN "deleted"
  ELSE IF invoice.status \in OpenStatuses THEN "open"
  ELSE invoice.status

Billed == IF invoice = None THEN 0 ELSE invoice.total

Life == INSTANCE InvoiceLife WITH standing <- Standing, total <- Billed, received <- paid

\* The stored status and the money move only the way the books promise: nothing
\* is billed anew under a payment, no void takes one, and nothing final reopens.
LifeSpec == Life!Spec

\* A status is stored, not computed when it is read, so an invoice that passes
\* its due date "with nothing else happening to it therefore keeps the status
\* it was last written with" for whoever reads the list
\* (docs/invoicing.md:1533-1544).  The reads do overlay the day.
KeepsItsStatus ==
  [][(invoice # None /\ UNCHANGED <<invoice, paid>>) =>
       EffectiveStatus(invoice)' = EffectiveStatus(invoice)]_vars
=============================================================================
