------------------------------ MODULE Clients ------------------------------
(***************************************************************************)
(* Clients, the addresses they are reached at, and the numbers of their    *)
(* invoices (invoicing/clients.rs, the numbering in invoicing/invoices.rs, *)
(* invoicing/import_invoiceshelf.rs, server/routes/clients.rs).            *)
(*                                                                         *)
(* Each command has a connection of its own. A transaction is one action;  *)
(* a command that reads its guard before its transaction is two. What      *)
(* becomes of an invoice after it was numbered is in Invoicing, of a       *)
(* schedule in Schedules, of a document in DocumentSigning.                *)
(***************************************************************************)
EXTENDS Integers, Sequences, FiniteSets

CONSTANTS
  Staff,         \* commands, screens and requests at work
  Unknown,       \* no row
  ClientNames,
  Emails,        \* addresses, letter case aside
  MaxClients,    \* bound: client ids
  FirstNumber,   \* NEXT_NUMBER_DEFAULT
  MaxNumber,     \* bound: invoice numbers
  Shelves,       \* the invoice numbers of InvoiceShelf databases there are
  Trades,        \* bound: the sets of operations one behaviour may use
  MaxJobs        \* bound: how many operations are begun in each trade

ClientIds == 1..MaxClients
Numbers == 1..MaxNumber

ASSUME ClientsAssumption ==
  /\ MaxClients \in Nat \ {0} /\ FirstNumber \in Nat \ {0} /\ MaxNumber \in Nat
  /\ Shelves \subseteq SUBSET Numbers
  /\ MaxJobs \in [Trades -> Nat]

\* One address of a client. A client's contacts are in the order of position.
Contact == [email : Emails, billing : BOOLEAN]
ClientRows == [name : ClientNames, archived : BOOLEAN]
Bills == [client : ClientIds, draft : BOOLEAN, generated : BOOLEAN]

ASSUME UnknownAssumption == Unknown \notin ClientRows \cup Bills \cup Emails

VARIABLES
  clients,     \* id -> row
  contacts,    \* client -> its contacts
  bills,       \* number -> invoice
  nextNumber,  \* the next_invoice_number setting
  retainers,   \* clients that schedules bill
  dossiers,    \* clients that documents are filed for
  job,         \* what each of the staff is in the middle of
  trade, jobs, \* bounds: the operations in use, how many were begun
  given,       \* history: every number an invoice was given
  mixed        \* history: InvoiceShelf was imported into books with invoices

clientsVars == <<clients, contacts, bills, nextNumber, retainers, dossiers, job, trade, jobs, given, mixed>>
rows == <<clients, contacts, bills, nextNumber, retainers, dossiers, given, mixed>>

NoJob == [at |-> "none", client |-> 1]

ClientsInit ==
  /\ clients = [c \in ClientIds |-> Unknown]
  /\ contacts = [c \in ClientIds |-> <<>>]
  /\ bills = [n \in Numbers |-> Unknown]
  /\ nextNumber = FirstNumber
  /\ retainers = {} /\ dossiers = {}
  /\ job = [p \in Staff |-> NoJob]
  /\ trade \in Trades /\ jobs = 0
  /\ given = {} /\ mixed = FALSE

Known(c) == clients[c] # Unknown
Active(c) == Known(c) /\ ~clients[c].archived

\* Beginning an operation: at one go, or with a guard read first.
Starts(p, kind, next) ==
  /\ job[p] = NoJob /\ kind \in trade /\ jobs < MaxJobs[trade]
  /\ jobs' = jobs + 1 /\ trade' = trade /\ job' = [job EXCEPT ![p] = next]
AtOneGo(p, kind) == Starts(p, kind, NoJob)
Reads(p, kind, step, c) == Starts(p, kind, [at |-> step, client |-> c]) /\ UNCHANGED rows
Resumes(p, step) == job[p].at = step /\ job' = [job EXCEPT ![p] = NoJob] /\ UNCHANGED <<trade, jobs>>

(* ------------------------- clients and contacts ------------------------ *)

\* The lists a caller may send: no address twice, at most one for billing.
ContactLists ==
  {list \in UNION {[1..n -> Contact] : n \in 0..Cardinality(Emails)} :
     \A i, j \in DOMAIN list : i # j => list[i].email # list[j].email /\ ~(list[i].billing /\ list[j].billing)}

Flagged(list, k) == [i \in DOMAIN list |-> [list[i] EXCEPT !.billing = (i = k)]]

\* A list that names no billing contact makes its first one that.
Normalized(list) ==
  IF list = <<>> \/ \E i \in DOMAIN list : list[i].billing THEN list ELSE Flagged(list, 1)

Without(list, k) == [i \in 1 .. Len(list) - 1 |-> list[IF i < k THEN i ELSE i + 1]]

\* set_billing_email: clearing it deletes the billing row (an index keeps it to
\* one) and promotes the next contact; an address the client has gets the flag;
\* otherwise the billing row changes, or is added.
Cleared(list) ==
  LET billing == {i \in DOMAIN list : list[i].billing}
      rest    == IF billing = {} THEN list ELSE Without(list, CHOOSE i \in billing : TRUE)
  IN  IF rest = <<>> THEN rest ELSE Flagged(rest, 1)

WithBilling(list, email) ==
  LET has == {i \in DOMAIN list : list[i].email = email}
  IN  IF has # {} THEN Flagged(list, CHOOSE i \in has : TRUE)
      ELSE IF \E i \in DOMAIN list : list[i].billing
      THEN [i \in DOMAIN list |-> IF list[i].billing THEN [list[i] EXCEPT !.email = email] ELSE list[i]]
      ELSE Append(list, [email |-> email, billing |-> TRUE])

\* What an update may turn the contacts into.
Updates(list) ==
  {list, Cleared(list)} \cup {Normalized(l) : l \in ContactLists} \cup {WithBilling(list, e) : e \in Emails}

NameTaken(n, except) == \E c \in ClientIds \ {except} : Known(c) /\ clients[c].name = n

\* A new row's id is one above the highest there is.
NextId(c) == (c > 1 => Known(c - 1)) /\ \A d \in c..MaxClients : ~Known(d)

AddClient(p, c, n) ==
  /\ AtOneGo(p, "clients") /\ NextId(c) /\ ~NameTaken(n, c)
  /\ clients' = [clients EXCEPT ![c] = [name |-> n, archived |-> FALSE]]
  /\ \E list \in ContactLists : contacts' = [contacts EXCEPT ![c] = Normalized(list)]
  /\ UNCHANGED <<bills, nextNumber, retainers, dossiers, given, mixed>>

\* A client and its addresses change together, or not at all. A name that is
\* left out is kept, though an import may have given it to another client too.
UpdateClient(p, c, n) ==
  /\ AtOneGo(p, "contacts") /\ Known(c) /\ (n # clients[c].name => ~NameTaken(n, c))
  /\ clients' = [clients EXCEPT ![c].name = n]
  /\ \E list \in Updates(contacts[c]) : contacts' = [contacts EXCEPT ![c] = list]
  /\ UNCHANGED <<bills, nextNumber, retainers, dossiers, given, mixed>>

SetArchived(p, c, archived) ==
  /\ AtOneGo(p, "archive") /\ Known(c)
  /\ clients' = [clients EXCEPT ![c].archived = archived]
  /\ UNCHANGED <<contacts, bills, nextNumber, retainers, dossiers, given, mixed>>

Billed(c) == \E n \in Numbers : bills[n] # Unknown /\ bills[n].client = c

\* Invoices and documents are counted in statements of their own; the foreign
\* keys have the last word, and take the contacts along.
CountReferences(p, c) ==
  /\ Known(c) /\ ~Billed(c) /\ c \notin dossiers
  /\ Reads(p, "delete", "deleting", c)

DeleteClient(p) ==
  LET c == job[p].client
  IN  /\ Resumes(p, "deleting")
      /\ IF Known(c) /\ ~Billed(c) /\ c \notin dossiers \cup retainers
         THEN /\ clients' = [clients EXCEPT ![c] = Unknown]
              /\ contacts' = [contacts EXCEPT ![c] = <<>>]
         ELSE UNCHANGED <<clients, contacts>>
      /\ UNCHANGED <<bills, nextNumber, retainers, dossiers, given, mixed>>

\* A schedule and a document read whether the client is archived, and are
\* inserted afterwards; the foreign key asks only that the client is there.
CheckClient(p, c, step) == Active(c) /\ Reads(p, step, step, c)

AddSchedule(p) ==
  LET c == job[p].client
  IN  /\ Resumes(p, "schedule") /\ retainers' = IF Known(c) THEN retainers \cup {c} ELSE retainers
      /\ UNCHANGED <<clients, contacts, bills, nextNumber, dossiers, given, mixed>>

FileDocument(p) ==
  LET c == job[p].client
  IN  /\ Resumes(p, "document") /\ dossiers' = IF Known(c) THEN dossiers \cup {c} ELSE dossiers
      /\ UNCHANGED <<clients, contacts, bills, nextNumber, retainers, given, mixed>>

(* ------------------------- numbering of invoices ----------------------- *)

\* Mutant: the next number is one above the highest invoice left.
NumberedByMaximum(c, generated) ==
  LET top == CHOOSE n \in {FirstNumber - 1} \cup Numbers :
               /\ n \in Numbers => bills[n] # Unknown
               /\ \A m \in Numbers : bills[m] # Unknown => m <= n
      n == IF \E m \in Numbers : m >= FirstNumber /\ bills[m] # Unknown THEN top + 1 ELSE FirstNumber
  IN  /\ Active(c) /\ n \in Numbers
      /\ bills' = [bills EXCEPT ![n] = [client |-> c, draft |-> TRUE, generated |-> generated]]
      /\ nextNumber' = n + 1
      /\ given' = given \cup {n}
      /\ UNCHANGED <<clients, contacts, retainers, dossiers, mixed>>

\* An invoice takes the next number, which no row may have (insert_invoice).
Numbered(c, generated) ==
  /\ Active(c) /\ nextNumber \in Numbers /\ bills[nextNumber] = Unknown
  /\ bills' = [bills EXCEPT ![nextNumber] = [client |-> c, draft |-> TRUE, generated |-> generated]]
  /\ nextNumber' = nextNumber + 1
  /\ given' = given \cup {nextNumber}
  /\ UNCHANGED <<clients, contacts, retainers, dossiers, mixed>>

CreateInvoice(p, c) == AtOneGo(p, "invoices") /\ Numbered(c, FALSE)

\* A schedule's cycle is billed: the client is asked about again.
GenerateInvoice(p, c) == AtOneGo(p, "invoices") /\ c \in retainers /\ Numbered(c, TRUE)

\* A duplicate reads its source first, whatever state that is in.
ReadShape(p, n) == bills[n] # Unknown /\ Reads(p, "invoices", "duplicate", bills[n].client)

DuplicateInvoice(p) ==
  /\ Resumes(p, "duplicate")
  /\ \/ Numbered(job[p].client, FALSE)
     \/ ~Active(job[p].client) /\ UNCHANGED rows

\* Sent, paid or void.
SettleInvoice(p, n) ==
  /\ AtOneGo(p, "invoices") /\ bills[n] # Unknown /\ bills[n].draft
  /\ bills' = [bills EXCEPT ![n].draft = FALSE]
  /\ UNCHANGED <<clients, contacts, nextNumber, retainers, dossiers, given, mixed>>

\* A draft nobody saw and no schedule made goes; its number is not given back.
DeleteInvoice(p, n) ==
  /\ AtOneGo(p, "invoices") /\ bills[n] # Unknown /\ bills[n].draft /\ ~bills[n].generated
  /\ bills' = [bills EXCEPT ![n] = Unknown]
  /\ UNCHANGED <<clients, contacts, nextNumber, retainers, dossiers, given, mixed>>

\* An InvoiceShelf database of one customer comes in whole: the numbers as
\* they are, the name whether taken or not, and the setting one above the
\* highest number of the source, never below FirstNumber.
ImportShelf(p, c, n, email, shelf) ==
  /\ AtOneGo(p, "import") /\ NextId(c)
  /\ \A k \in shelf : bills[k] = Unknown
  /\ clients' = [clients EXCEPT ![c] = [name |-> n, archived |-> FALSE]]
  /\ contacts' = [contacts EXCEPT ![c] = WithBilling(<<>>, email)]
  /\ bills' = [k \in Numbers |-> IF k \in shelf THEN [client |-> c, draft |-> FALSE, generated |-> FALSE] ELSE bills[k]]
  /\ \E top \in {FirstNumber - 1} \cup shelf :
       (\A k \in {FirstNumber - 1} \cup shelf : k <= top) /\ nextNumber' = top + 1
  /\ given' = given \cup shelf
  /\ mixed' = (mixed \/ given # {})
  /\ UNCHANGED <<retainers, dossiers>>

(* --------------------------- the specification ------------------------- *)

ClientsNext ==
  \E p \in Staff :
    \/ \E c \in ClientIds, n \in ClientNames :
         \/ AddClient(p, c, n) \/ UpdateClient(p, c, n)
         \/ \E email \in Emails, shelf \in Shelves : ImportShelf(p, c, n, email, shelf)
    \/ \E c \in ClientIds :
         \/ \E archived \in BOOLEAN : SetArchived(p, c, archived)
         \/ CountReferences(p, c) \/ \E step \in {"schedule", "document"} : CheckClient(p, c, step)
         \/ CreateInvoice(p, c) \/ GenerateInvoice(p, c)
    \/ \E n \in Numbers : ReadShape(p, n) \/ SettleInvoice(p, n) \/ DeleteInvoice(p, n)
    \/ DeleteClient(p) \/ AddSchedule(p) \/ FileDocument(p) \/ DuplicateInvoice(p)

ClientsSpec == ClientsInit /\ [][ClientsNext]_clientsVars

(* ------------------------------ properties ----------------------------- *)

\* A client with any address has exactly one that its invoices go to, and no
\* address twice, however the list was replaced, promoted, cleared or imported.
OneBillingAddress ==
  \A c \in ClientIds :
    /\ contacts[c] # <<>> => \E i \in DOMAIN contacts[c] : contacts[c][i].billing
    /\ \A i, j \in DOMAIN contacts[c] :
         (contacts[c][i].email = contacts[c][j].email \/ (contacts[c][i].billing /\ contacts[c][j].billing)) => i = j

\* The rows are of their kind, addresses are as the indices want them, and
\* invoices, schedules and documents name clients that are there.
ClientsTypeOK ==
  /\ clients \in [ClientIds -> ClientRows \cup {Unknown}]
  /\ contacts \in [ClientIds -> Seq(Contact)] /\ OneBillingAddress
  /\ bills \in [Numbers -> Bills \cup {Unknown}]
  /\ nextNumber \in Nat /\ given \subseteq Numbers /\ mixed \in BOOLEAN
  /\ \A p \in Staff : job[p].at \in {"none", "deleting", "schedule", "document", "duplicate"}
                      /\ job[p].client \in ClientIds
  /\ trade \in Trades /\ jobs \in 0..MaxJobs[trade]
  /\ \A n \in Numbers : bills[n] # Unknown => Known(bills[n].client)
  /\ \A c \in retainers \cup dossiers : c \in ClientIds /\ Known(c)

\* A number is given once, though the invoice it was given to was deleted:
\* unless InvoiceShelf was imported into books that had invoices, which its
\* documentation rules out.
NumbersNotReused ==
  [][mixed' \/ \A n \in Numbers : (bills[n] = Unknown /\ bills'[n] # Unknown) => n \notin given]_clientsVars
=============================================================================
