--------------------------- MODULE ClientsProofs ---------------------------
(***************************************************************************)
(* Proofs about Clients, for any number of people at work, clients,        *)
(* numbers, InvoiceShelf databases and operations.                         *)
(***************************************************************************)
EXTENDS Clients, SequenceTheorems, TLAPS

-----------------------------------------------------------------------------
(* The inductive invariant *)

\* What a person in the middle of an operation remembers.
Jobs == [at : {"none", "deleting", "schedule", "document", "duplicate"}, client : ClientIds]

\* The tables a number or a reference is looked up in.
Tables ==
  /\ clients \in [ClientIds -> ClientRows \cup {Unknown}]
  /\ bills \in [Numbers -> Bills \cup {Unknown}]
  /\ retainers \subseteq ClientIds /\ dossiers \subseteq ClientIds
  /\ nextNumber \in Nat /\ given \subseteq Numbers /\ mixed \in BOOLEAN
  /\ job \in [Staff -> Jobs]

\* The next number is above all that were given.
Ahead == mixed \/ \A n \in given : n < nextNumber

\* What names a client names one that is there: a client with invoices,
\* schedules or documents is never deleted.
ClientsReferenced ==
  /\ \A n \in Numbers : bills[n] # Unknown => Known(bills[n].client)
  /\ \A c \in retainers \cup dossiers : Known(c)

ClientsInv == Tables /\ Ahead /\ ClientsReferenced

-----------------------------------------------------------------------------
(* Lemmas about rows and jobs *)

\* A row is not the absence of one.
LEMMA RowsAreThere ==
  /\ \A row \in ClientRows : row # Unknown
  /\ \A bill \in Bills : bill # Unknown
BY UnknownAssumption

LEMMA NamedRow == \A n \in ClientNames, b \in BOOLEAN : [name |-> n, archived |-> b] \in ClientRows
BY DEF ClientRows

LEMMA BillRow ==
  \A c \in ClientIds, d \in BOOLEAN, g \in BOOLEAN : [client |-> c, draft |-> d, generated |-> g] \in Bills
BY DEF Bills

\* Nobody at work remembers a client that there is.
LEMMA NobodyBusy == NoJob \in Jobs
BY ClientsAssumption DEF NoJob, Jobs, ClientIds

\* Beginning and ending an operation touch what is remembered and nothing else.
LEMMA OneGoKept ==
  ASSUME Tables, NEW p \in Staff, NEW kind, AtOneGo(p, kind)
  PROVE  job' \in [Staff -> Jobs]
BY NobodyBusy DEF Tables, AtOneGo, Starts

\* So do an operation whose guard is read first and the step that resumes it.
LEMMA JobsKept ==
  ASSUME Tables, NEW p \in Staff, NEW kind, NEW step \in {"deleting", "schedule", "document", "duplicate"},
         NEW c \in ClientIds
  PROVE  /\ Reads(p, kind, step, c) => job' \in [Staff -> Jobs]
         /\ Resumes(p, step) => job' \in [Staff -> Jobs]
<1>1. [at |-> step, client |-> c] \in Jobs
  BY DEF Jobs
<1> QED
  BY <1>1, NobodyBusy DEF Tables, Reads, Starts, Resumes

\* An operation that leaves the numbers, and clients with references, as they
\* are keeps the invariant.
LEMMA RowsUntouched ==
  ASSUME ClientsInv, job' \in [Staff -> Jobs], UNCHANGED rows
  PROVE  ClientsInv'
BY DEF ClientsInv, Tables, Ahead, ClientsReferenced, Known, rows

-----------------------------------------------------------------------------
(* The steps *)

\* A row added, renamed or archived stays a row.
LEMMA AddKeeps ==
  ASSUME ClientsInv, NEW p \in Staff, NEW c \in ClientIds, NEW n \in ClientNames, AddClient(p, c, n)
  PROVE  ClientsInv'
<1>1. [name |-> n, archived |-> FALSE] \in ClientRows
  BY NamedRow
<1>2. job' \in [Staff -> Jobs]
  BY OneGoKept DEF ClientsInv, AddClient
<1>3. Tables'
  BY <1>1, <1>2 DEF ClientsInv, Tables, AddClient
<1>4. \A d \in ClientIds : Known(d) => Known(d)'
  BY <1>1, RowsAreThere DEF ClientsInv, Tables, Known, AddClient
<1>5. ClientsReferenced'
  BY <1>4, RowsAreThere DEF ClientsInv, Tables, ClientsReferenced, Bills, AddClient
<1> QED
  BY <1>3, <1>5 DEF ClientsInv, Ahead, AddClient

LEMMA UpdateKeeps ==
  ASSUME ClientsInv, NEW p \in Staff, NEW c \in ClientIds, NEW n \in ClientNames, UpdateClient(p, c, n)
  PROVE  ClientsInv'
<1>1. clients[c] \in ClientRows
  BY DEF ClientsInv, Tables, UpdateClient, Known
<1>2. [clients[c] EXCEPT !.name = n] \in ClientRows
  BY <1>1 DEF ClientRows
<1>3. job' \in [Staff -> Jobs]
  BY OneGoKept DEF ClientsInv, UpdateClient
<1>4. clients' = [clients EXCEPT ![c] = [clients[c] EXCEPT !.name = n]]
  BY DEF UpdateClient
<1>5. Tables'
  BY <1>2, <1>3, <1>4 DEF ClientsInv, Tables, UpdateClient
<1>6. \A d \in ClientIds : Known(d) => Known(d)'
  BY <1>2, <1>4, RowsAreThere DEF ClientsInv, Tables, Known
<1>7. ClientsReferenced'
  BY <1>6 DEF ClientsInv, Tables, ClientsReferenced, Bills, UpdateClient
<1> QED
  BY <1>5, <1>7 DEF ClientsInv, Ahead, UpdateClient

LEMMA ArchiveKeeps ==
  ASSUME ClientsInv, NEW p \in Staff, NEW c \in ClientIds, NEW archived \in BOOLEAN, SetArchived(p, c, archived)
  PROVE  ClientsInv'
<1>1. clients[c] \in ClientRows
  BY DEF ClientsInv, Tables, SetArchived, Known
<1>2. [clients[c] EXCEPT !.archived = archived] \in ClientRows
  BY <1>1 DEF ClientRows
<1>3. job' \in [Staff -> Jobs]
  BY OneGoKept DEF ClientsInv, SetArchived
<1>4. clients' = [clients EXCEPT ![c] = [clients[c] EXCEPT !.archived = archived]]
  BY DEF SetArchived
<1>5. Tables'
  BY <1>2, <1>3, <1>4 DEF ClientsInv, Tables, SetArchived
<1>6. \A d \in ClientIds : Known(d) => Known(d)'
  BY <1>2, <1>4, RowsAreThere DEF ClientsInv, Tables, Known
<1>7. ClientsReferenced'
  BY <1>6 DEF ClientsInv, Tables, ClientsReferenced, Bills, SetArchived
<1> QED
  BY <1>5, <1>7 DEF ClientsInv, Ahead, SetArchived

\* A client goes only when the foreign keys let it: nothing names it.
LEMMA DeleteKeeps ==
  ASSUME ClientsInv, NEW p \in Staff, DeleteClient(p)
  PROVE  ClientsInv'
<1> DEFINE c == job[p].client
<1>1. c \in ClientIds
  BY DEF ClientsInv, Tables, Jobs
<1>2. job' \in [Staff -> Jobs]
  BY JobsKept, <1>1 DEF ClientsInv, DeleteClient
<1>3. CASE UNCHANGED <<clients, contacts>>
  BY <1>2, <1>3, RowsUntouched DEF DeleteClient, rows
<1>4. CASE clients' = [clients EXCEPT ![c] = Unknown] /\ ~Billed(c) /\ c \notin dossiers \cup retainers
  <2>1. Tables'
    BY <1>1, <1>2, <1>4 DEF ClientsInv, Tables, DeleteClient
  <2>2. \A d \in ClientIds \ {c} : Known(d) => Known(d)'
    BY <1>1, <1>4 DEF ClientsInv, Tables, Known
  <2>3. \A n \in Numbers : bills[n] # Unknown => bills[n].client \in ClientIds \ {c}
    BY <1>4 DEF ClientsInv, Tables, Billed, Bills
  <2>4. \A d \in retainers \cup dossiers : d \in ClientIds \ {c}
    BY <1>4 DEF ClientsInv, Tables
  <2>5. ClientsReferenced'
    BY <2>2, <2>3, <2>4 DEF ClientsInv, ClientsReferenced, DeleteClient
  <2> QED
    BY <2>1, <2>5 DEF ClientsInv, Ahead, DeleteClient
<1> QED
  BY <1>3, <1>4 DEF DeleteClient

LEMMA ScheduleKeeps ==
  ASSUME ClientsInv, NEW p \in Staff, AddSchedule(p)
  PROVE  ClientsInv'
<1>1. job[p].client \in ClientIds
  BY DEF ClientsInv, Tables, Jobs
<1>2. job' \in [Staff -> Jobs]
  BY JobsKept, <1>1 DEF ClientsInv, AddSchedule
<1> QED
  BY <1>1, <1>2 DEF ClientsInv, Tables, Ahead, ClientsReferenced, Known, AddSchedule

LEMMA DocumentKeeps ==
  ASSUME ClientsInv, NEW p \in Staff, FileDocument(p)
  PROVE  ClientsInv'
<1>1. job[p].client \in ClientIds
  BY DEF ClientsInv, Tables, Jobs
<1>2. job' \in [Staff -> Jobs]
  BY JobsKept, <1>1 DEF ClientsInv, FileDocument
<1> QED
  BY <1>1, <1>2 DEF ClientsInv, Tables, Ahead, ClientsReferenced, Known, FileDocument

\* An invoice takes a number above all given, and the next one moves past it.
LEMMA NumberedKeeps ==
  ASSUME ClientsInv, NEW c \in ClientIds, NEW generated \in BOOLEAN, Numbered(c, generated),
         job' \in [Staff -> Jobs]
  PROVE  ClientsInv'
<1> DEFINE bill == [client |-> c, draft |-> TRUE, generated |-> generated]
<1>1. bill \in Bills /\ bill.client = c
  BY BillRow
<1>2. bills' = [bills EXCEPT ![nextNumber] = bill]
  BY DEF Numbered
<1> HIDE DEF bill
<1>3. nextNumber \in Numbers /\ nextNumber \in Nat
  BY DEF ClientsInv, Tables, Numbered
<1>4. Tables'
  <2>1. bills' \in [Numbers -> Bills \cup {Unknown}]
    BY <1>1, <1>2, <1>3 DEF ClientsInv, Tables
  <2>2. /\ UNCHANGED <<clients, retainers, dossiers, mixed>>
        /\ nextNumber' = nextNumber + 1 /\ given' = given \cup {nextNumber}
    BY DEF Numbered
  <2> QED
    BY <2>1, <2>2, <1>3 DEF ClientsInv, Tables
<1>5. Ahead'
  BY <1>3 DEF ClientsInv, Tables, Ahead, Numbered, Numbers
<1>6. ClientsReferenced'
  BY <1>1, <1>2, <1>3, RowsAreThere DEF ClientsInv, Tables, ClientsReferenced, Known, Active, Numbered
<1> QED
  BY <1>4, <1>5, <1>6 DEF ClientsInv

LEMMA CreateKeeps ==
  ASSUME ClientsInv, NEW p \in Staff, NEW c \in ClientIds, CreateInvoice(p, c) \/ GenerateInvoice(p, c)
  PROVE  ClientsInv'
<1>1. job' \in [Staff -> Jobs]
  BY OneGoKept DEF ClientsInv, CreateInvoice, GenerateInvoice
<1> QED
  BY <1>1, NumberedKeeps DEF CreateInvoice, GenerateInvoice

LEMMA DuplicateKeeps ==
  ASSUME ClientsInv, NEW p \in Staff, DuplicateInvoice(p)
  PROVE  ClientsInv'
<1>1. job[p].client \in ClientIds
  BY DEF ClientsInv, Tables, Jobs
<1>2. job' \in [Staff -> Jobs]
  BY JobsKept, <1>1 DEF ClientsInv, DuplicateInvoice
<1> QED
  BY <1>1, <1>2, NumberedKeeps, RowsUntouched DEF DuplicateInvoice

LEMMA SettleKeeps ==
  ASSUME ClientsInv, NEW p \in Staff, NEW n \in Numbers, SettleInvoice(p, n)
  PROVE  ClientsInv'
<1>1. bills[n] \in Bills
  BY DEF ClientsInv, Tables, SettleInvoice
<1> DEFINE bill == [bills[n] EXCEPT !.draft = FALSE]
<1>2. bill \in Bills /\ bill.client = bills[n].client
  BY <1>1 DEF Bills
<1>3. bills' = [bills EXCEPT ![n] = bill]
  BY DEF SettleInvoice
<1> HIDE DEF bill
<1>4. job' \in [Staff -> Jobs]
  BY OneGoKept DEF ClientsInv, SettleInvoice
<1>5. Tables'
  BY <1>2, <1>3, <1>4 DEF ClientsInv, Tables, SettleInvoice
<1>6. ClientsReferenced'
  BY <1>1, <1>2, <1>3, RowsAreThere DEF ClientsInv, Tables, ClientsReferenced, Known, SettleInvoice
<1> QED
  BY <1>5, <1>6 DEF ClientsInv, Ahead, SettleInvoice

\* A deleted invoice's number stays given.
LEMMA DeleteInvoiceKeeps ==
  ASSUME ClientsInv, NEW p \in Staff, NEW n \in Numbers, DeleteInvoice(p, n)
  PROVE  ClientsInv'
<1>1. job' \in [Staff -> Jobs]
  BY OneGoKept DEF ClientsInv, DeleteInvoice
<1>2. Tables'
  BY <1>1 DEF ClientsInv, Tables, DeleteInvoice
<1>3. ClientsReferenced'
  BY DEF ClientsInv, Tables, ClientsReferenced, Known, DeleteInvoice
<1> QED
  BY <1>2, <1>3 DEF ClientsInv, Ahead, DeleteInvoice

\* An import leaves the counter above its own numbers, which are all there are
\* unless it is mixed into books that had some.
LEMMA ImportKeeps ==
  ASSUME ClientsInv, NEW p \in Staff, NEW c \in ClientIds, NEW n \in ClientNames,
         NEW email \in Emails, NEW shelf \in Shelves, ImportShelf(p, c, n, email, shelf)
  PROVE  ClientsInv'
<1> DEFINE row == [name |-> n, archived |-> FALSE]
<1> DEFINE bill == [client |-> c, draft |-> FALSE, generated |-> FALSE]
<1>1. row \in ClientRows /\ bill \in Bills /\ bill.client = c
  BY NamedRow, BillRow
<1>2. /\ clients' = [clients EXCEPT ![c] = row]
      /\ bills' = [k \in Numbers |-> IF k \in shelf THEN bill ELSE bills[k]]
  BY DEF ImportShelf
<1> HIDE DEF row, bill
<1>3. shelf \subseteq Numbers
  BY ClientsAssumption
<1>4. PICK top \in {FirstNumber - 1} \cup shelf :
        (\A k \in {FirstNumber - 1} \cup shelf : k <= top) /\ nextNumber' = top + 1
  BY DEF ImportShelf
<1>5. nextNumber' \in Nat /\ \A k \in shelf : k < nextNumber'
  BY <1>3, <1>4, ClientsAssumption DEF Numbers
<1>6. job' \in [Staff -> Jobs]
  BY OneGoKept DEF ClientsInv, ImportShelf
<1>7. Tables'
  <2>1. /\ clients' \in [ClientIds -> ClientRows \cup {Unknown}]
        /\ bills' \in [Numbers -> Bills \cup {Unknown}]
    BY <1>1, <1>2 DEF ClientsInv, Tables
  <2>2. given' = given \cup shelf /\ mixed' = (mixed \/ given # {}) /\ UNCHANGED <<retainers, dossiers>>
    BY DEF ImportShelf
  <2> QED
    BY <2>1, <2>2, <1>3, <1>5, <1>6 DEF ClientsInv, Tables
<1>8. Ahead'
  BY <1>5 DEF ClientsInv, Tables, Ahead, ImportShelf
<1>9. \A d \in ClientIds : (Known(d) \/ d = c) => Known(d)'
  BY <1>1, <1>2, RowsAreThere DEF ClientsInv, Tables, Known
<1>10. ClientsReferenced'
  BY <1>1, <1>2, <1>9 DEF ClientsInv, Tables, ClientsReferenced, Bills, ImportShelf
<1> QED
  BY <1>7, <1>8, <1>10 DEF ClientsInv

\* A guard read before its transaction changes no row.
LEMMA GuardKeeps ==
  ASSUME ClientsInv, NEW p \in Staff, NEW c \in ClientIds, NEW kind,
         NEW step \in {"deleting", "schedule", "document", "duplicate"}, Reads(p, kind, step, c)
  PROVE  ClientsInv'
BY JobsKept, RowsUntouched DEF ClientsInv, Reads

LEMMA StepsKeep == ClientsInv /\ [ClientsNext]_clientsVars => ClientsInv'
<1> SUFFICES ASSUME ClientsInv, [ClientsNext]_clientsVars PROVE ClientsInv'
  OBVIOUS
<1>1. CASE UNCHANGED clientsVars
  BY <1>1, RowsUntouched DEF clientsVars, rows, ClientsInv, Tables
<1>2. ASSUME NEW p \in Staff, NEW c \in ClientIds, NEW n \in ClientNames,
             \/ AddClient(p, c, n) \/ UpdateClient(p, c, n)
             \/ \E email \in Emails, shelf \in Shelves : ImportShelf(p, c, n, email, shelf)
      PROVE  ClientsInv'
  BY <1>2, AddKeeps, UpdateKeeps, ImportKeeps
<1>3. ASSUME NEW p \in Staff, NEW c \in ClientIds,
             \/ \E archived \in BOOLEAN : SetArchived(p, c, archived)
             \/ CreateInvoice(p, c) \/ GenerateInvoice(p, c)
      PROVE  ClientsInv'
  BY <1>3, ArchiveKeeps, CreateKeeps
<1>4. ASSUME NEW p \in Staff, NEW c \in ClientIds,
             CountReferences(p, c) \/ \E step \in {"schedule", "document"} : CheckClient(p, c, step)
      PROVE  ClientsInv'
  BY <1>4, GuardKeeps DEF CountReferences, CheckClient
<1>5. ASSUME NEW p \in Staff, NEW n \in Numbers, ReadShape(p, n)
      PROVE  ClientsInv'
  <2>1. bills[n].client \in ClientIds
    BY <1>5 DEF ClientsInv, Tables, ReadShape, Bills
  <2> QED
    BY <1>5, <2>1, GuardKeeps DEF ReadShape
<1>6. ASSUME NEW p \in Staff, NEW n \in Numbers, SettleInvoice(p, n) \/ DeleteInvoice(p, n)
      PROVE  ClientsInv'
  BY <1>6, SettleKeeps, DeleteInvoiceKeeps
<1>7. ASSUME NEW p \in Staff, DeleteClient(p) \/ AddSchedule(p) \/ FileDocument(p) \/ DuplicateInvoice(p)
      PROVE  ClientsInv'
  BY <1>7, DeleteKeeps, ScheduleKeeps, DocumentKeeps, DuplicateKeeps
<1> QED
  BY <1>1, <1>2, <1>3, <1>4, <1>5, <1>6, <1>7 DEF ClientsNext

-----------------------------------------------------------------------------
(* The theorems *)

LEMMA InitHolds == ClientsInit => ClientsInv
<1> SUFFICES ASSUME ClientsInit PROVE ClientsInv
  OBVIOUS
<1>1. Tables
  BY NobodyBusy, ClientsAssumption DEF ClientsInit, Tables
<1> QED
  BY <1>1 DEF ClientsInit, ClientsInv, Ahead, ClientsReferenced

\* The tables and the references between them hold in every reachable state.
THEOREM ClientsInvariant == ClientsSpec => []ClientsInv
<1> QED
  BY InitHolds, StepsKeep, PTL DEF ClientsSpec

\* Invoices, schedules and documents name clients that are there, however
\* deletions, schedules and documents cross (invoicing/clients.rs:505).
THEOREM ReferencesHold == ClientsSpec => []ClientsReferenced
<1>1. ClientsInv => ClientsReferenced
  BY DEF ClientsInv
<1> QED
  BY <1>1, ClientsInvariant, PTL

\* A step gives only numbers that no invoice ever had.
LEMMA GivenOnce ==
  ASSUME ClientsInv, [ClientsNext]_clientsVars, NEW n \in Numbers, bills[n] = Unknown, bills'[n] # Unknown
  PROVE  mixed' \/ n \notin given
<1>1. ASSUME NEW c \in ClientIds, NEW generated \in BOOLEAN, Numbered(c, generated)
      PROVE  mixed' \/ n \notin given
  BY <1>1 DEF ClientsInv, Tables, Ahead, Numbered, Numbers
<1>2. ASSUME NEW p \in Staff, DuplicateInvoice(p)
      PROVE  mixed' \/ n \notin given
  BY <1>1, <1>2 DEF ClientsInv, Tables, Jobs, DuplicateInvoice, rows
<1>3. ASSUME NEW p \in Staff, NEW c \in ClientIds, NEW name \in ClientNames,
             NEW email \in Emails, NEW shelf \in Shelves, ImportShelf(p, c, name, email, shelf)
      PROVE  mixed' \/ n \notin given
  BY <1>3 DEF ImportShelf
<1>4. ASSUME NEW p \in Staff, NEW k \in Numbers, SettleInvoice(p, k) \/ DeleteInvoice(p, k)
      PROVE  FALSE
  BY <1>4 DEF ClientsInv, Tables, SettleInvoice, DeleteInvoice
<1>5. bills' # bills
  OBVIOUS
<1>6. ASSUME NEW p \in Staff, NEW c \in ClientIds, CreateInvoice(p, c) \/ GenerateInvoice(p, c)
      PROVE  mixed' \/ n \notin given
  BY <1>1, <1>6 DEF CreateInvoice, GenerateInvoice
<1>7. ASSUME NEW p \in Staff, NEW c \in ClientIds, NEW name \in ClientNames,
             AddClient(p, c, name) \/ UpdateClient(p, c, name)
      PROVE  FALSE
  BY <1>5, <1>7 DEF AddClient, UpdateClient
<1>8. ASSUME NEW p \in Staff, NEW c \in ClientIds,
             \/ \E archived \in BOOLEAN : SetArchived(p, c, archived)
             \/ CountReferences(p, c) \/ \E step \in {"schedule", "document"} : CheckClient(p, c, step)
      PROVE  FALSE
  BY <1>5, <1>8 DEF SetArchived, CountReferences, CheckClient, Reads, rows
<1>9. ASSUME NEW p \in Staff, NEW k \in Numbers, ReadShape(p, k)
      PROVE  FALSE
  BY <1>5, <1>9 DEF ReadShape, Reads, rows
<1>10. ASSUME NEW p \in Staff, DeleteClient(p) \/ AddSchedule(p) \/ FileDocument(p)
       PROVE  FALSE
  BY <1>5, <1>10 DEF DeleteClient, AddSchedule, FileDocument
<1>11. bills' # bills => ~UNCHANGED clientsVars
  BY DEF clientsVars
<1> QED
  BY <1>2, <1>3, <1>4, <1>5, <1>6, <1>7, <1>8, <1>9, <1>10, <1>11 DEF ClientsNext

\* No invoice gets a number that another ever had, deleted or not, unless
\* InvoiceShelf was imported into books that had invoices (invoices.rs:871).
THEOREM NeverReused == ClientsSpec => NumbersNotReused
<1>1. ClientsInv /\ [ClientsNext]_clientsVars =>
        [mixed' \/ \A n \in Numbers : (bills[n] = Unknown /\ bills'[n] # Unknown) => n \notin given]_clientsVars
  BY GivenOnce
<1> QED
  BY <1>1, ClientsInvariant, PTL DEF ClientsSpec, NumbersNotReused

-----------------------------------------------------------------------------
(* One address for the invoices *)

\* What OneBillingAddress asks of the list of one client.
Distinct(list)  == \A i, j \in DOMAIN list : list[i].email = list[j].email => i = j
Addressed(list) ==
  /\ list \in Seq(Contact) /\ Distinct(list)
  /\ list # <<>> => \E i \in DOMAIN list : list[i].billing
  /\ \A i, j \in DOMAIN list : list[i].billing /\ list[j].billing => i = j

LEMMA FlaggedAddressed ==
  ASSUME NEW list \in Seq(Contact), Distinct(list), NEW k \in DOMAIN list
  PROVE  Addressed(Flagged(list, k))
<1>1. PICK new : new = Flagged(list, k)
  OBVIOUS
<1>2. PICK n \in Nat : n = Len(list) /\ DOMAIN list = 1..n
  OBVIOUS
<1>3. ASSUME NEW i \in 1..n
      PROVE  new[i] = [list[i] EXCEPT !.billing = (i = k)]
  BY <1>1, <1>2 DEF Flagged
<1>4. \A i \in 1..n : list[i] \in Contact
  BY <1>2
<1>5. \A i \in 1..n : new[i] \in Contact /\ new[i].email = list[i].email /\ new[i].billing = (i = k)
  BY <1>3, <1>4 DEF Contact
<1>6. new \in [1..n -> Contact]
  BY <1>1, <1>2, <1>5 DEF Flagged
<1>7. new \in Seq(Contact) /\ DOMAIN new = 1..n
  BY <1>6
<1>8. Addressed(new)
  BY <1>2, <1>5, <1>7 DEF Addressed, Distinct
<1> QED
  BY <1>1, <1>8

LEMMA NormalizedAddressed ==
  ASSUME NEW list \in ContactLists
  PROVE  Addressed(Normalized(list))
<1>1. PICK n \in 0..Cardinality(Emails) : list \in [1..n -> Contact]
  BY DEF ContactLists
<1>2. n \in Nat /\ list \in Seq(Contact) /\ DOMAIN list = 1..n
  BY <1>1
<1>3. \A i, j \in DOMAIN list : i # j => list[i].email # list[j].email /\ ~(list[i].billing /\ list[j].billing)
  BY DEF ContactLists
<1>4. Distinct(list)
  BY <1>3 DEF Distinct
<1>5. CASE list = <<>> \/ \E i \in DOMAIN list : list[i].billing
  BY <1>2, <1>3, <1>4, <1>5 DEF Normalized, Addressed
<1>6. CASE ~(list = <<>> \/ \E i \in DOMAIN list : list[i].billing)
  <2>1. 1 \in DOMAIN list
    BY <1>2, <1>6, EmptySeq
  <2>2. Addressed(Flagged(list, 1))
    BY <1>2, <1>4, <2>1, FlaggedAddressed
  <2> QED
    BY <1>6, <2>2 DEF Normalized
<1> QED
  BY <1>5, <1>6

LEMMA ClearedAddressed ==
  ASSUME NEW list, Addressed(list)
  PROVE  Addressed(Cleared(list))
<1>1. PICK n \in Nat : n = Len(list) /\ DOMAIN list = 1..n
  BY DEF Addressed
<1>2. PICK billing : billing = {i \in DOMAIN list : list[i].billing}
  OBVIOUS
<1>3. PICK k : k = CHOOSE i \in billing : TRUE
  OBVIOUS
<1>4. PICK rest : rest = IF billing = {} THEN list ELSE Without(list, k)
  OBVIOUS
<1>5. rest \in Seq(Contact) /\ Distinct(rest)
  <2>1. CASE billing = {}
    BY <1>4, <2>1 DEF Addressed
  <2>2. CASE billing # {}
    <3>1. k \in 1..n
      BY <1>1, <1>2, <1>3, <2>2
    <3>2. n - 1 \in Nat
      BY <3>1
    <3>3. rest = [i \in 1..n - 1 |-> list[IF i < k THEN i ELSE i + 1]]
      BY <1>1, <1>4, <2>2 DEF Without
    <3>4. \A i \in 1..n - 1 : (IF i < k THEN i ELSE i + 1) \in 1..n
      BY <3>1
    <3>5. \A i \in 1..n : list[i] \in Contact
      BY <1>1 DEF Addressed
    <3>6. rest \in [1..n - 1 -> Contact]
      BY <3>3, <3>4, <3>5
    <3>7. rest \in Seq(Contact) /\ DOMAIN rest = 1..n - 1
      BY <3>2, <3>6
    <3>8. \A i, j \in 1..n - 1 : (IF i < k THEN i ELSE i + 1) = (IF j < k THEN j ELSE j + 1) => i = j
      BY <3>1
    <3>9. Distinct(rest)
      <4> SUFFICES ASSUME NEW i \in 1..n - 1, NEW j \in 1..n - 1, rest[i].email = rest[j].email
                   PROVE  i = j
        BY <3>7 DEF Distinct
      <4>1. PICK a, b : a = (IF i < k THEN i ELSE i + 1) /\ b = (IF j < k THEN j ELSE j + 1)
        OBVIOUS
      <4>2. a \in DOMAIN list /\ b \in DOMAIN list /\ rest[i] = list[a] /\ rest[j] = list[b]
        BY <1>1, <3>3, <3>4, <4>1
      <4>3. a = b
        BY <4>2 DEF Addressed, Distinct
      <4> QED
        BY <3>8, <4>1, <4>3
    <3> QED
      BY <3>7, <3>9
  <2> QED
    BY <2>1, <2>2
<1>6. Cleared(list) = IF rest = <<>> THEN rest ELSE Flagged(rest, 1)
  BY <1>2, <1>3, <1>4 DEF Cleared
<1>7. CASE rest = <<>>
  BY <1>5, <1>6, <1>7 DEF Addressed
<1>8. CASE rest # <<>>
  <2>1. 1 \in DOMAIN rest
    BY <1>5, <1>8, EmptySeq
  <2> QED
    BY <1>5, <1>6, <1>8, <2>1, FlaggedAddressed
<1> QED
  BY <1>7, <1>8

LEMMA WithBillingAddressed ==
  ASSUME NEW list, Addressed(list), NEW email \in Emails
  PROVE  Addressed(WithBilling(list, email))
<1>1. PICK n \in Nat : n = Len(list) /\ DOMAIN list = 1..n
  BY DEF Addressed
<1>2. PICK has : has = {i \in DOMAIN list : list[i].email = email}
  OBVIOUS
<1>3. CASE has # {}
  <2>1. PICK k : k = CHOOSE i \in has : TRUE
    OBVIOUS
  <2>2. k \in DOMAIN list
    BY <1>2, <1>3, <2>1
  <2>3. WithBilling(list, email) = Flagged(list, k)
    BY <1>2, <1>3, <2>1 DEF WithBilling
  <2> QED
    BY <2>2, <2>3, FlaggedAddressed DEF Addressed
<1>4. CASE has = {} /\ \E i \in DOMAIN list : list[i].billing
  <2>1. PICK new : new = [i \in DOMAIN list |-> IF list[i].billing THEN [list[i] EXCEPT !.email = email] ELSE list[i]]
    OBVIOUS
  <2>2. \A i \in 1..n : list[i] \in Contact
    BY <1>1 DEF Addressed
  <2>3. \A i \in 1..n : /\ new[i] \in Contact /\ new[i].billing = list[i].billing
                        /\ new[i].email = IF list[i].billing THEN email ELSE list[i].email
    BY <1>1, <2>1, <2>2 DEF Contact
  <2>4. new \in [1..n -> Contact]
    BY <1>1, <2>1, <2>3
  <2>5. new \in Seq(Contact) /\ DOMAIN new = 1..n
    BY <2>4
  <2>6. \A i \in 1..n : list[i].email # email
    BY <1>1, <1>2, <1>4
  <2>7. Addressed(new)
    BY <1>1, <1>4, <2>3, <2>5, <2>6 DEF Addressed, Distinct
  <2>8. WithBilling(list, email) = new
    BY <1>2, <1>4, <2>1 DEF WithBilling
  <2> QED
    BY <2>7, <2>8
<1>5. CASE has = {} /\ ~\E i \in DOMAIN list : list[i].billing
  <2>1. list = <<>>
    BY <1>5 DEF Addressed
  <2>2. WithBilling(list, email) = Append(list, [email |-> email, billing |-> TRUE])
    BY <1>2, <1>5 DEF WithBilling
  <2>3. PICK row : row = [email |-> email, billing |-> TRUE]
    OBVIOUS
  <2>4. row \in Contact /\ row.billing
    BY <2>3 DEF Contact
  <2>5. PICK new : new = Append(<<>>, row)
    OBVIOUS
  <2>6. new \in Seq(Contact) /\ DOMAIN new = 1..1 /\ new[1] = row
    BY <2>4, <2>5
  <2>7. \A i \in DOMAIN new : i = 1
    BY <2>6
  <2>8. Addressed(new)
    BY <2>4, <2>6, <2>7 DEF Addressed, Distinct
  <2> QED
    BY <2>1, <2>2, <2>3, <2>5, <2>8
<1> QED
  BY <1>3, <1>4, <1>5

\* The addresses of every client, and the bounds of a behaviour.
AddressesInv ==
  /\ contacts \in [ClientIds -> Seq(Contact)] /\ \A c \in ClientIds : Addressed(contacts[c])
  /\ trade \in Trades /\ jobs \in 0..MaxJobs[trade]

LEMMA StartsBounded ==
  ASSUME AddressesInv, NEW p \in Staff, NEW kind, NEW next, Starts(p, kind, next)
  PROVE  trade' \in Trades /\ jobs' \in 0..MaxJobs[trade']
<1>1. MaxJobs[trade] \in Nat
  BY ClientsAssumption DEF AddressesInv
<1> QED
  BY <1>1 DEF Starts, AddressesInv

\* A list takes the place of another, or none does.
LEMMA ListReplaced ==
  ASSUME AddressesInv, trade' \in Trades /\ jobs' \in 0..MaxJobs[trade'],
         \/ contacts' = contacts
         \/ \E c \in ClientIds : \E list : Addressed(list) /\ contacts' = [contacts EXCEPT ![c] = list]
  PROVE  AddressesInv'
<1>1. CASE contacts' = contacts
  BY <1>1 DEF AddressesInv
<1>2. CASE \E c \in ClientIds : \E list : Addressed(list) /\ contacts' = [contacts EXCEPT ![c] = list]
  <2>1. PICK c \in ClientIds : \E list : Addressed(list) /\ contacts' = [contacts EXCEPT ![c] = list]
    BY <1>2
  <2>2. PICK list : Addressed(list) /\ contacts' = [contacts EXCEPT ![c] = list]
    BY <2>1
  <2>3. list \in Seq(Contact)
    BY <2>2 DEF Addressed
  <2>4. contacts' \in [ClientIds -> Seq(Contact)]
    BY <2>2, <2>3 DEF AddressesInv
  <2>5. ASSUME NEW d \in ClientIds PROVE Addressed(contacts'[d])
    <3>1. contacts'[d] = IF d = c THEN list ELSE contacts[d]
      BY <2>2 DEF AddressesInv
    <3> QED
      BY <2>2, <3>1 DEF AddressesInv
  <2> QED
    BY <2>4, <2>5 DEF AddressesInv
<1> QED
  BY <1>1, <1>2

LEMMA NoneAddressed == Addressed(<<>>)
BY DEF Addressed, Distinct

LEMMA AddressesStep == ClientsInv /\ AddressesInv /\ [ClientsNext]_clientsVars => AddressesInv'
<1> SUFFICES ASSUME ClientsInv, AddressesInv, [ClientsNext]_clientsVars PROVE AddressesInv'
  OBVIOUS
<1>1. CASE UNCHANGED clientsVars
  BY <1>1, ListReplaced DEF clientsVars, AddressesInv
<1>2. ASSUME NEW p \in Staff, NEW c \in ClientIds, NEW n \in ClientNames, AddClient(p, c, n)
      PROVE  AddressesInv'
  <2>1. PICK list \in ContactLists : contacts' = [contacts EXCEPT ![c] = Normalized(list)]
    BY <1>2 DEF AddClient
  <2> QED
    BY <1>2, <2>1, NormalizedAddressed, StartsBounded, ListReplaced DEF AddClient, AtOneGo
<1>3. ASSUME NEW p \in Staff, NEW c \in ClientIds, NEW n \in ClientNames, UpdateClient(p, c, n)
      PROVE  AddressesInv'
  <2>1. PICK list \in Updates(contacts[c]) : contacts' = [contacts EXCEPT ![c] = list]
    BY <1>3 DEF UpdateClient
  <2>2. Addressed(contacts[c])
    BY DEF AddressesInv
  <2>3. Addressed(list)
    <3>1. \/ list = contacts[c] \/ list = Cleared(contacts[c])
          \/ \E l \in ContactLists : list = Normalized(l)
          \/ \E e \in Emails : list = WithBilling(contacts[c], e)
      BY <2>1 DEF Updates
    <3> QED
      BY <2>2, <3>1, ClearedAddressed, NormalizedAddressed, WithBillingAddressed
  <2> QED
    BY <1>3, <2>1, <2>3, StartsBounded, ListReplaced DEF UpdateClient, AtOneGo
<1>4. ASSUME NEW p \in Staff, NEW c \in ClientIds, NEW n \in ClientNames, NEW email \in Emails,
             NEW shelf \in Shelves, ImportShelf(p, c, n, email, shelf)
      PROVE  AddressesInv'
  <2>1. contacts' = [contacts EXCEPT ![c] = WithBilling(<<>>, email)]
    BY <1>4 DEF ImportShelf
  <2>2. Addressed(WithBilling(<<>>, email))
    BY NoneAddressed, WithBillingAddressed
  <2> QED
    BY <1>4, <2>1, <2>2, StartsBounded, ListReplaced DEF ImportShelf, AtOneGo
<1>5. ASSUME NEW p \in Staff, DeleteClient(p) PROVE AddressesInv'
  <2>1. job[p].client \in ClientIds
    BY DEF ClientsInv, Tables, Jobs
  <2>2. trade' \in Trades /\ jobs' \in 0..MaxJobs[trade']
    BY <1>5 DEF DeleteClient, Resumes, AddressesInv
  <2>3. contacts' = contacts \/ contacts' = [contacts EXCEPT ![job[p].client] = <<>>]
    BY <1>5 DEF DeleteClient
  <2> QED
    BY <2>1, <2>2, <2>3, NoneAddressed, ListReplaced
<1>6. ASSUME NEW p \in Staff,
             \/ AddSchedule(p) \/ FileDocument(p) \/ DuplicateInvoice(p)
             \/ \E n \in Numbers : ReadShape(p, n) \/ SettleInvoice(p, n) \/ DeleteInvoice(p, n)
      PROVE  AddressesInv'
  <2>1. trade' \in Trades /\ jobs' \in 0..MaxJobs[trade']
    BY <1>6, StartsBounded DEF AddSchedule, FileDocument, DuplicateInvoice, ReadShape, SettleInvoice,
       DeleteInvoice, Resumes, Reads, AtOneGo, AddressesInv
  <2>2. contacts' = contacts
    BY <1>6 DEF AddSchedule, FileDocument, DuplicateInvoice, ReadShape, SettleInvoice,
       DeleteInvoice, Reads, Numbered, rows
  <2> QED
    BY <2>1, <2>2, ListReplaced
<1>7. ASSUME NEW p \in Staff, NEW c \in ClientIds,
             \/ \E archived \in BOOLEAN : SetArchived(p, c, archived)
             \/ CountReferences(p, c) \/ \E step \in {"schedule", "document"} : CheckClient(p, c, step)
             \/ CreateInvoice(p, c) \/ GenerateInvoice(p, c)
      PROVE  AddressesInv'
  <2>1. trade' \in Trades /\ jobs' \in 0..MaxJobs[trade']
    BY <1>7, StartsBounded DEF SetArchived, CountReferences, CheckClient, CreateInvoice, GenerateInvoice,
       Reads, AtOneGo
  <2>2. contacts' = contacts
    BY <1>7 DEF SetArchived, CountReferences, CheckClient, CreateInvoice, GenerateInvoice,
       Reads, Numbered, rows
  <2> QED
    BY <2>1, <2>2, ListReplaced
<1> QED
  BY <1>1, <1>2, <1>3, <1>4, <1>5, <1>6, <1>7 DEF ClientsNext

\* Rows are of their kind, every client with addresses has exactly one that its
\* invoices go to and none twice (clients.rs:248), and what names a client names
\* one that is there.
THEOREM ClientsTyped == ClientsSpec => []ClientsTypeOK
<1>1. ClientsInit => AddressesInv
  <2> SUFFICES ASSUME ClientsInit PROVE AddressesInv
    OBVIOUS
  <2>1. MaxJobs[trade] \in Nat
    BY ClientsAssumption DEF ClientsInit
  <2> QED
    BY <2>1, NoneAddressed DEF ClientsInit, AddressesInv, Addressed
<1>2. AddressesInv => OneBillingAddress
  BY DEF AddressesInv, Addressed, Distinct, OneBillingAddress
<1>3. ClientsInv /\ AddressesInv => ClientsTypeOK
  BY <1>2 DEF ClientsInv, AddressesInv, Tables, ClientsReferenced, Jobs, ClientsTypeOK
<1> QED
  BY <1>1, <1>3, AddressesStep, ClientsInvariant, PTL DEF ClientsSpec
=============================================================================
