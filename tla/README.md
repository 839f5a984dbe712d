# A TLA+ model of nigel

nigel keeps a small business's books in one SQLite file. Its core (`crates/nigel-core`) is shared
by a command line and terminal UI (`crates/nigel`), an HTTP server with a web UI, and a desktop
shell. It imports bank statements and files their rows by rules and by hand, sends documents for
signature and invoices for payment through Stripe, Mailgun and Cloudflare R2, and a small Worker
(`workers/document-response`) takes the recipients' answers.

This directory models the parts where several actors meet: processes and requests on one database,
a file that is rewritten under them, remote services that fail half-way, people who answer whenever
they like, and a calendar.

## Inventory

| Part | State it keeps | Operations | What is hard |
| --- | --- | --- | --- |
| Recurring schedules (`invoicing/schedules.rs`) | `invoice_schedules`, `invoice_schedule_runs` | add, update, pause, resume, run, end | cron beside an operator; catch-up over missed cycles; months of different lengths; refusals half-way |
| Invoices and payments (`invoicing/invoices.rs`, `send.rs`, `sync.rs`, `void.rs`, `republish.rs`) | `invoices`, `invoice_payments`, Stripe links and sessions, the page in the bucket | edit, send, pay, sync, void, delete, republish | eight-step send; pull-based payments; a status stored on events but read by the day; links that outlive the row |
| Document signing (`documents/`) | `documents`, `document_versions`, `document_recipients`, `document_signatures`, `document_change_requests`, the manifest and answers in the private bucket, pages in the public one | send, sync, record by hand, revise, decline, withdraw, countersign, signing record | rollback of a send; answers crossing; guards read outside the transaction they guard |
| Response Worker (`workers/document-response`) | `manifest.json`, answers and closed markers | POST of an answer | two requests between each other's awaits |
| Clients, numbering, InvoiceShelf (`invoicing/clients.rs`, `invoices.rs`, `import_invoiceshelf.rs`) | `clients`, `client_contacts`, the `next_invoice_number` setting | add, edit, archive, delete; number, duplicate, delete an invoice; import | a counter beside the rows it numbers; guards read before the transaction; one billing address through every edit |
| Books (`importer.rs`, `imports.rs`, `categorizer.rs`, `reviewer.rs`, `rules.rs`, `categories.rs`, `accounts.rs`, `reconciler.rs`, `server/uploads.rs`) | `accounts`, `imports`, `transactions`, `rules`, `categories`, `reconciliations`, the upload spool | import, undo, categorise, review and its undo, rules, retire, rename, delete, reconcile | duplicates after an undo or a deleted account; a pass that works on rows it read before a person decided |
| Database gate (`server/state.rs`, `routes/`, `password.rs`) | the served path, the key in memory, a read-write gate, the file's encryption | requests; encrypt, rekey, decrypt, switch, unlock | a request across a rewrite; tasks that outlive their request; a step of four that fails |
| Filed documents, backup, restore (`documents/store.rs`, `record.rs`, `backup.rs`) | rows and PDFs side by side, backups, safety copies, two staging folders | file, revise, back up, restore | no transaction spans the database and the folder; kills and failures between any two steps |
| Users, sessions, sign-in, limits (`identity/`, `server/`) | `users`, `sessions`, counters in memory | sign in and out, enable, disable, change role | who may reach the operations, not what they do |
| Migrations, settings, setup, reports, rendering, updater, front ends | rows, files, screens | - | mostly single statements, file I/O or text |

How they interact: every front end opens its own SQLite connection. The server's database gate is
taken for *reading* by every ordinary request (`server/routes/mod.rs:94-121`), so requests run at
the same time as each other and as any command-line process; SQLite orders transactions and nothing
else does. A schedule's run creates invoices and may send them. A send publishes a page and mails
its address; a payment made through that page is found only when a sync pulls it. The Worker never
touches the database: it and the sync meet in the private bucket. `main.rs` runs both syncs before
any command that reads or writes the books.

What makes each part correct, and the hazards at their lines, are in `PROJECT.json` ("hazards").
Of what no property covers, the cases worth knowing are:

- two processes can cross the window between a guard and its write (a payment on an invoice being
  voided, a second verb on a document, a cycle billed on a schedule being ended, two sends of one
  version);
- a run killed between an invoice and its autosend leaves a draft no later run looks for;
- undoing a review by hand goes by a row id, which may have been given to another row since
  (`routes/review.rs:129`);
- when the commit of a newly filed document fails, its PDF is removed after the lock was let go: a
  second process that files in between is given the same path, and loses its PDF
  (`documents/store.rs:158`);
- an InvoiceShelf import into books that already have invoices winds the number counter back
  (`import_invoiceshelf.rs:233`); its documentation has it run once, against a fresh database.

## Modules

| Module | Models |
| --- | --- |
| `CycleLedger` | what schedules promise: each cycle settled once, for good, the cursor never past an open one, an invoice told of once |
| `Schedules` | schedules, their history, the commands on them, several processes, crashes |
| `DocumentLife` | the status words the guard table allows, and the version agreed on |
| `DocumentSigning` | one document: rows, both buckets, the Worker, its recipients, several processes, failing calls, crashes |
| `InvoiceLife` | what the books promise of one invoice: money comes in, figures stand, ends are final |
| `Invoicing` | one invoice: row, payments, Stripe links and sessions, page, client, several processes, failing calls, crashes, days |
| `Clients` | clients, addresses, the numbers of invoices, what names a client |
| `Books` | statement rows, imports, rules, review, the chart, reconciliation, uploads, several clerks |
| `DatabaseGate` | the gate, the tasks behind it, the served file and its key, hang-ups, failures, restarts |
| `DocumentFiles` | document rows and PDFs, backups and restores, failures, kills |
| `MC*` | instances for TLC; `MCSchedulesAlone` splits one process' work on schedules in two, `MCDesk` runs the last four components side by side |
| `SchedulesProofs`, `DocumentSigningProofs`, `InvoicingProofs`, `BooksProofs`, `DatabaseGateProofs`, `ClientsProofs`, `DocumentFilesProofs`, `DeskProofs` | theorems, checked by TLAPS |

**How a command becomes actions.** `op[p]` is what process `p` is in the middle of. A command is
one action where one transaction covers its guard and its writes, and is cut everywhere else: after
the reads its guard makes, and around each call to Stripe, a bucket or the mailer. What it read
before a cut stays in `op[p]` and is used, stale or not, after it. Reads with nothing but reads
between them are one step.

`Schedules`: `StartRun` lists the active schedules once; `RunPeriod` and `RunRefused` are one
`generate_period` transaction each; `RunSend` the autosend loop. `StartEnd`, `DecideEnd`, `EndBill`,
`EndBillRefused`, `FinishEnd` are `end_schedule`. A resume reads its row (`StartResume`), then
writes in one transaction (`CommitResume`). A date is a month number and a day. The model's calendar
is any sequence of month lengths, used over and over.

`DocumentSigning`: a send is `StartSend`, `EnsureLatestUnsent`, `FreezeRecipients`, `PublishPages`,
`OpenManifest`, `EmailLink`, `MarkSent`, `Supersede`, with `SendFails`, `Unfreeze`, `UnopenManifest` on
the way back. The verbs recorded by hand read their guard in `StartVerb` and write in an action of
their own; each is followed by `RepublishLoad`, `CloseManifest`, `RewritePages`. A sync is
`StartSync`, `LoadSync`, `FetchAnswer`, `RecordOnlineResponse`, `FinishSync`. The Worker's handler is
cut at its awaits: `ReadManifest`, `ReadClosed`, `StoreAnswer`, `MarkClosed`. The status is derived on
every read, as in `status.rs`. Every send draws new link tokens, so a send is an *attempt* and a link
an attempt with a role.

`Invoicing`: a send is `StartSend`, `CreatePaymentLink`, `SetPaymentLink`, `Render`, `PublishPage`,
`EmailInvoice`, `MarkPublished`; a sync `StartSync`, `PaidSessions`, then `RecordPayment` and
`InsertPayment` per session; both kinds of payment, an edit and a send end in `RefreshRead` and
`RefreshWrite`, the two halves of `refresh_status`, which no transaction joins; `Republish` and
`UploadPage` correct the page. A void commits in `VoidInvoice` and tears down in `DeactivateLink` and
`ReplacePage`, by the row read before. `ClientPays` completes a checkout through any link the client
ever saw on the page that still takes money.

`Clients`: a command is one transaction (`AddClient`, `UpdateClient`, `SetArchived`, `CreateInvoice`,
`GenerateInvoice`, `SettleInvoice`, `DeleteInvoice`, `ImportShelf`), or a guard and a transaction
(`CountReferences` and `DeleteClient`; `CheckClient` and `AddSchedule` or `FileDocument`; `ReadShape`
and `DuplicateInvoice`). `Updates` is every way the contacts may change: a whole list, normalised,
or a billing address set or cleared.

`Books`: an import on the command line is `Import`, over the web `Upload`, `ResolveUpload`,
`ConfirmImport` or `ConfirmKnown`, `DeleteUpload`, with `PurgeStale` at any hour; both record the file
and its rows in one transaction, `Recorded`. The pass that follows, or a pass on its own, reads the
rules (`ReadRules`), then the rows (`ReadRows`), then files one row at a time (`FileNext`). An undo is
`ShowImport` and, after the prompt, `DeleteImportRows`; the web's is `DeleteImport`. A review picks
(`PickCategory`), writes (`ApplyReview`) and may be undone (`UndoReview`). Checks a write relies on are
actions of their own: `CheckRule`, `CountUses`, `CheckName`, `CountMonth`.

`DatabaseGate`: a request is `Arrive`, `Admit` in the order of arrival, `Open` or `Refuse`, and then
what it came for: `Finish` for an ordinary one; `Verify`, `Proceed`, `Rewrite`, `Adopt` for one that
encrypts, rekeys or decrypts; `TakeKey` and `Migrated` for an unlock or a switch. `Hangup` drops the
request and not its task, which holds the guard to its end. A rewriter's failures come after each
step (`RewriteFails`, `MigrationFails`), and `Restart` loses what is in memory.

`DocumentFiles`: filing is `InsertDocument` or `CheckRevision` and `InsertVersion`, `WriteFile`,
`CommitVersion`, with `WriteFails`, `CommitFails`, `RemoveFile`. A backup is `StartBackup` (the
database), `CopyTree`, `ClearOldCopy`, `PlaceCopy`. A restore makes a safety copy the same way, then
`ReplaceLedger`, `StageCopy`, `MoveLiveAside`, `MoveStagedIn`, `DropReplaced`, each of which may fail, and
`Kill` ends a process anywhere.

Definitions whose comment begins "Mutant:" are not part of the system. Each is a mapped definition
with a plausible bug in it; `PROJECT.json` names the property that finds it.

**What a failing call may do.** It returns an error, and what it asked for may have happened or
not. Where the code can only warn, the failure also sets `leftover`; so does a crash. The properties
that compare a bucket with the database are stated for states with no command under way and no
leftover: the code promises them only when nothing warned.

## Abstractions

- Amounts are whole units, which makes the half-cent slack of `is_settled` exact. The currency is
  folded into the total: an edit that moves either clears the link.
- Pages, PDFs, emails and logos have no content, but what a property is about: the totals, the
  balance and the Pay button of an invoice's page, the state a document's page shows.
- The pages of one version of a document are rewritten in one step. The copies mailed after a
  countersignature are left out.
- The Worker's stamps are strictly increasing: two answers never have the same second. Requests it
  refuses before reading an object (size, syntax, rate) are left out.
- A document has a signer and a collaborator, whom the Worker treats alike where they may answer.
- A schedule's client is archived or not; the invoice a run creates is its row in the history.
- A publisher or gateway that is not configured is a call that fails with a warning.
- One document or invoice at a time in `DocumentSigning` and `Invoicing`. What relates two invoices, the
  counter of numbers, is in `Clients`; a run's loop over schedules is modelled with two.
- Which rows a file parses to and which rows a pattern matches are constants: any function. A row is
  its date, amount and description, which is what a duplicate is told by.
- A bulk recategorisation is a decision per row. Vendors, notes and reasons are left out.
- A PDF is its content, and a file half written is not told from a whole one. The walk that copies the
  documents folder file by file begins with the database's snapshot and ends in `CopyTree`, which
  takes each file as it was at the one or as it is at the other; a file is written once, so only
  what came and went in between is missed. The copy of a backup's folder that a restore stages is
  one step. In `DocumentFiles` any document that is not closed may be revised: which
  ones may is in `DocumentSigning`.
- A source database of InvoiceShelf has one customer. An address is a model value: letter case is
  folded, as the index does.
- A password is a model value, and the check of one takes no time and tells nothing else.
- The four parts of `MCDesk` share no state in the code but the database that holds them, on which
  each step is one transaction; a behaviour moves one of them.

## Runs

| Run | Question | Bounds |
| --- | --- | --- |
| `schedules_one` | are cycles ever lost, billed twice, out of order, or without being owed, and is a due cycle settled although another schedule keeps failing? | 1 process, 3 months of 2 and 3 days, 2 anchors, 1 crash; see below |
| `schedules_two` | do two processes at once implement the ledger of cycles, though one is killed? | 2 processes, 2 months of 2 and 1 days, one anchor, 1 crash |
| `schedules_forgiven` | *violated*: do forgiven months stay forgiven? | 1 process, anchors 1 and 3 |
| `documents_one` | do status, manifest, pages, emails and recorded answers agree, and are answers recorded in the end? | 1 process, 1 request, 2 versions, 2 sends, 2 answers, 1 fault, 1 crash |
| `documents_two` | what do two processes and two crossing answers record? | 2 processes, 2 requests, 2 versions, 1 send |
| `documents_resent` | *violated*: can a version that was sent be answered? | 1 process, 2 sends, 1 fault |
| `documents_withdrawn` | *violated*: is a withdrawn document closed? | 2 processes, 1 send |
| `invoices_one` | do link, status, page and books agree, and is money paid recorded in the end? | 1 process, 2 days, 2 totals, 2 links, 2 sessions, 1 fault, 1 crash |
| `invoices_two` | is every payment booked once whatever runs at the same time? | 2 processes, 1 link, 1 session |
| `invoices_voided` | *violated*: does a void without warnings stop the money? | 1 process, 1 link, 1 fault |
| `invoices_read` | *violated*: is the status that is read the one last written? | 1 process, 2 days, 1 total, 1 link |
| `books_and_gate` | are the books, the gate, the documents folder and the clients kept straight by two at work on each? | see below |

A schedule's first period is any day of the calendar, past or to come (`Starts`). In `schedules_one`
a behaviour keeps to one of two parts: one schedule worked through the whole calendar, with anchors 1
and 3; or two that start together on the second day of the first month, where one refused or
cut short is in the other's way. `DueIsSettled` is asked of both.

`books_and_gate` puts two clerks, two requests, two processes and two members of staff to work. A
behaviour keeps to one part, and within it to a set of operations that meet, so that each meeting is
searched to its depth:

- books: imports with undos and accounts (5 operations begun), with uploads and undos (5), with
  undos, categorising and review (4), with rules and categorising (3), with the chart and review
  (3). 2 keys; 3 files, an empty one and a payroll export that shares a row with another among
  them; 2 accounts, 3 imports, 3 transactions, 2 rules, 2 categories, 1 upload.
- gate: 2 requests of any kind, over and over, 2 directories, 2 passwords, 1 fault.
- files: one process that files 3 times, backs up, restores and meets 1 mishap; one that files
  twice and restores twice with 1 mishap; two that file 3 times and back up with none.
- clients: clients and contacts (3 operations); invoices beside an import and archiving (4);
  deletion beside schedules, documents and invoices (4). 2 clients, 2 addresses, numbers from 3 to
  6, and sources that are empty, below the first number, or across it.

Why these are enough to see the interesting cases: an anchor on the last day of a long month is
clamped in every other month and unclamped in the next, and three months hold a pause, the months it covers and the run
after it. Two versions and two sends give a rollback followed by a resend, or a revision with an
earlier version to supersede. Two answers are what it takes to cross. Two totals let an edit move the
figures under a link, and with payments of one unit an invoice is open, partial, paid and overpaid.
One fault and one crash can fall at every step. Three imports are a file, its undo and the same file
again, or two that share a row; two requests are a reader and a rewriter, or two rewriters; four
operations delete the invoice with the highest number and create the next. Deadlock is not checked
for documents, invoices and the desk: with every bound reached the end really is one.

`schedules_two` has one anchor day because the promise that a month is billed once is not kept when
one process edits the anchor while another bills an end (a hazard with a note). Properties checked
with one process and broken by two are named in the hazards.

**Fairness.** A command that began runs on unless it is killed (weak fairness of the process's
steps): no step waits for another process, and SQLite's busy timeout turns a wait into an error.
The sync, or the schedule run, keeps coming round (strong fairness of its start, since the process is
busy in between): `docs/invoicing.md` runs them from cron, and `main.rs` runs both syncs before
every command that touches the books. Faults and crashes are bounded, so a service that fails for
ever is not claimed to work.

At the gate, the runtime lets in whoever is first and may enter (weak fairness of `Admit`), and a task on
the blocking pool ends (weak fairness of its steps): nothing in it waits for another request. No
fairness is assumed of clients, who may hang up or not.

**What the violated runs show.**

- `schedules_forgiven`: skip rows are keyed by exact dates. Pause, resume, then move the anchor day:
  the next run visits the forgiven months under other dates and bills them.
- `documents_resent`: the Worker's closed marker is keyed by document and version, while a failed send
  gives the version number back. An answer through a link of the failed send leaves a marker that
  refuses every answer to the next one.
- `documents_withdrawn`: `mark_sent` does not look at the withdrawal, and the withdrawal tears down
  the versions sent when it read them. A send under way finishes with an open page.
- `invoices_read`: the read of a status lays the day over the stored word, so an invoice turns overdue
  in the list the day after it falls due though nothing was written. `docs/invoicing.md` says that at
  :41-45, as `docs/api.md:794` and `docs/design-constraints.md:45` do, and says the opposite at :1533-1544:
  stored, not computed when read, and kept though the due date passes. `StatusTellsTheTruth`
  checks what the code does and three of the four say. The same paragraph has a payment derive the status
  against its own date, where `record_payment` takes the day of the run.
- `invoices_voided`: an email that arrived but was reported as failed leaves a draft. An edit of its
  total drops the payment link from the row without deactivating it, and a void then has nothing to
  deactivate or warn about, while the client's link takes money.

## Proofs

TLAPS checks these for every value of the constants that satisfies the assumptions the modules name,
so for any number of processes, versions, sends, files, requests and clients, and any bounds. Each
invariant is proved from an inductive one: the initial states satisfy it, every action preserves it,
and it implies the property. Every safety property that a passing run checks, the three refinements
among them, is a theorem.

Some theorems have a premise on the constants, which the run that checks the property satisfies
too: `Alone` (one process, `\A p, q \in Procs : p = q`), `OneAnchor`, `Calm` and `Careful` below. Without
it the property is false of the code, and the hazards say how: these are promises to an operator
whose commands do not cross. What holds under any interleaving is stated without a premise.

**`SchedulesProofs`** (from `IdsAssumption`, `CycleAssumption`, `CalendarAssumption`,
`AutosendAssumption`, `AnchorAssumption`, `BoundAssumption`, `NoneAssumption`).

- `TypeCorrect`: `[]TypeOK`. Not inductive as it stands: a command names a schedule it read earlier, so
  `TypeInv` adds that every schedule a command holds was created.
- `CyclesComplete`: `[]NoCycleLost`. A process writes `next_period` from a stale copy. `CycleInv` therefore
  says of every *copy* what the property says of the row: all the cycles of the schedule before the
  copy's cursor are in the history, for a run's copies (`OpComplete`), and for an end's list of
  arrears all cycles before an arrear but those still on the list. History rows are never removed,
  so a stale claim stays true.
- `CyclesBilledOnce`, `OpenCyclesOnly`, `InOrder`, `EndsSettled`: `BilledOnce`, `BillsOnlyOpenCycles`,
  `BilledInOrder` and `EndSettlesEverything` for one process. Here a copy is not stale, and `AloneInv` says
  so: what is held is what the tables say (`HeldAlone`), and every invoice of a schedule lies in a month
  behind its cursor (`TablesAlone`). The order of dates, with anchors clamped into short
  months, is that of `Schedules`' own walk, from lemmas on it (`WalkShape` and those that follow).
- `KeepsTheLedger`: `Schedules` implements `CycleLedger`, for any number of processes and a single anchor
  day. A process may bill from a stale copy of the row, but with one anchor day a schedule has one
  date in a month (`DatesInv`), so the history row that the transaction looks for is there, whoever
  wrote it. `QueueInv` says that an invoice waits to be sent in one run only, and was not told of.
  The mapping takes the cursor from the row (`Cursors`), the queues of all the runs under way together
  (`Waiting`), and what was mailed or failed (`Told`).

**`DocumentSigningProofs`** (from `BoundsAssumption`, `NoneAssumption`, `ShowsAssumption`).

- `TypeCorrect`: `[]TypeOK`, one lemma per action, with the variables grouped so that a lemma proves
  only the groups its action disturbs.
- `OneResponse`: `[]OneOnlineResponse`. The recording transaction checks the status, which hides a
  response only while its version is the latest sent; a send marking an older version would reopen
  it. `Behind` excludes that: no sent version and no send under way is ahead of the latest version
  filed. With it, a version that a sync may record on holds no online response yet.
- `ExecutedAsAccepted`: `[]CountersignsTheAccepted`. A process decides to countersign and writes later, when
  the status it read may be gone. `Bound` says that the versions it decided on were signed by a
  client when it looked; signatures are never removed, so they still are when it writes.
- `OnlySendsCount`, `SentToEveryone`, `LinkedRecordsExist`, `ManifestTrue`, `PagesTrue`: the five invariants
  `documents_one` checks, for one process and any number of recipients answering at once. `AloneInv`
  has the same parts as in `InvoicingProofs`: `Rows`, whatever was cut short; `Doing`, what the command
  may rely on at its step; `Whole`, of manifest and pages while nothing was cut short. The status is derived,
  so `StatusSays` translates each of its words into rows once.
- `LivesTheLife`: `DocumentSigning` implements `DocumentLife`, for one process, step by step from `AloneInv`.

**`InvoicingProofs`** (from `BoundsAssumption`, `MoneyAssumption`, `DatesAssumption`,
`NoneAssumption`, `RowAssumption`), from `InvoicingInv`.

- `TypeCorrect`: `[]TypeOK`. A sync adds up prices of sessions and a republish puts up a page rendered
  before, so the types need `Priced` (an active link and a completed session's link have a price) and
  `Sound`: what a command knows at each of its steps.
- `NothingHalfSent`: `[]SentReachedTheClient`. `Sound` carries it across the steps of a send: it emails
  after a page is up and marks after the email. A page is replaced and never taken
  down, which `Lasting` states with what else only grows.
- `PaymentsBookedOnce`: `[]EachPaymentOnce`, for any number of processes. What the sessions charged is a
  sum over a set: `ChargedMore` says what one more session adds to it, `ChargedStays` that nothing else
  moves it.
- `LinksPriced`, `StatusesTrue`, `PagesTrue`: `LinkPricedRight`, `StatusTellsTheTruth` and
  `PageTellsTheTruth` for one process. `AloneInv` has three parts: what holds of the row whatever
  was cut short (`RowKept`), what the command may rely on at its step (`InStep`), and what holds while
  nothing was cut short (`Whole`).
- `KeepsTheLife`: `Invoicing` implements `InvoiceLife`, for one process.

**`BooksProofs`** (from `BooksAssumption`, `NoneAssumption`), from `BooksInv`: the types of tables and
operations, what the ids an operation read stand for (`OpsMeant`), and `RowsInv` of the tables alone.

- `BooksTyped`, `NeverTwice`, `FilesOnce`, `Queued`: the conjuncts of `RowsInv` that the runs check, with
  the references between the tables.
- `RowsThere`: `[]RecordedRowsAreThere`. `Backed` strengthens it: each row of an undisturbed import is in
  its account's books *under that import or an older one*. Undoing a newer import then takes none
  of them away, which the property alone does not say.
- `PeopleDecide`: `PersonDecides`, an action property. One lemma per action that writes a category; a
  category set by a person needs `Filled`.
- `ImportsSweep`: `SweptClean`, an action property. That a row which a rule matches is filed at all needs
  a matching rule of the highest priority: `HighestRank`. A row that a rule filed before has a
  category (`Filled`), so the pass leaves it alone.

**`DatabaseGateProofs`** (from `GateAssumption`), from `GateInv`.

- `RewritesAlone`: `[]NobodyReadsARewrittenFile`, from `Held` (who works has a place in the gate) and `Alone`
  (a rewriter has the gate to itself).
- `ServedOnly`: `[]OpensTheServedBooks`, from `WorkOnServed`.
- `KeysFit`: `[]KeyFitsTheFile`. Inductive only with `Found`: what a task saw of the file stays so until
  it ends, because whoever could change it must be alone.
- `GateTyped`: `[]GateTypeOK`. The queue holds who waits, each once (`QueueInv`), from what taking one
  place out of a sequence leaves (`PlaceGone`).

**`ClientsProofs`** (from `ClientsAssumption`, `UnknownAssumption`), from `ClientsInv`.

- `ReferencesHold`: no invoice, schedule or document names a client that is gone. Deletion counts
  rows in separate statements, so the counts alone do not give it: the foreign keys do, in the
  deleting statement and in the ones that insert.
- `NeverReused`: `NumbersNotReused`, an action property, from `Ahead`: the counter is above every number
  ever given out, unless an import ran over books with invoices.
- `ClientsTyped`: `[]ClientsTypeOK`, in which a client with addresses has exactly one that its invoices
  go to and none twice. One lemma for each way a list changes: normalised, billed to another,
  cleared, added to.

**`DocumentFilesProofs`** (from `FilesAssumption`).

- `FilesTyped`: `[]FilesTypeOK`, with what every task names (`FilesKinds`) and that at most one process
  is inside a write transaction.
- `FiledIsKept`: `[]NothingFiledIsLost`, where `Calm`: a crew is one process, or no process of it
  restores, fails or is killed. `Doing` says what a task may rely on at its step. Beyond `Calm` the code loses a
  PDF: the file that a failed commit removes may be one that another process has just committed,
  and a restore drops what others filed meanwhile.
- `BackupsWhole`: `[]BackupIsWhole`, where `Careful`: `Calm`, and several processes make one backup at most,
  since two to one path mix their files. What is being copied stays in the books and the folder
  until it is in the copy (`Lists`), because filing takes nothing away (`Grows`).

**`DeskProofs`**: `DeskTyped`, `[]DeskTypeOK`. A step of the desk is a step of one part that leaves the
others as they are (`OnePartMoves`), so a behaviour of the desk is one of each part (`EachPart`), and
what is proved of a part holds beside the others.

**How sums and maxima are proved.** The provers cannot instantiate an induction theorem that takes
an operator. Where a fact needs induction (a sum over a set, a highest priority, a least place), its
lemma assumes it false, takes the least number for which it fails (`WFMin`) and refutes that.

**Only model-checked.**

- Liveness: `DueIsSettled`, `StoredAnswerSettles`, `PaidSessionSettles`, `EveryoneGetsTheirTurn`. It is out
  of the prover's reach.
- The runs that expect a violation: each is a counterexample, which needs no proof.

## Not modelled

- **Rendering** of invoices and documents, **reports** and their text and PDF: pure functions from rows
  to layout. A golden file says more about them than a model.
- **Parsing of bank files** (formats, detection, saved column mappings): pure functions of a file. `Books`
  takes the rows a file parses to as a constant.
- **Mail, Stripe and R2 clients**: one HTTP call each. Modelled where they are used, as calls that
  succeed, or fail with or without their effect.
- **Users, passwords, sessions, sign-in and request limits**: decided before a request reaches any
  operation modelled here, and nothing in the books depends on who is signed in.
- **Migrations**: run once in the life of a database, in a savepoint each; what the schema promises
  afterwards is in the modules' types and references. That the version is read outside the savepoint
  is listed as a hazard.
- **Setup, demo data, settings, updater**: configuration and sample rows written once by an operator,
  and a version check. The race over `settings.json` is listed as a hazard.
- **Command line, terminal UI, web UI, desktop and FFI shells**: front ends over the same operations,
  with no state that outlives a screen. They are most of the repository's lines.
- Of components that are modelled in part, `PROJECT.json` says what is left out.

What could come next: the copies mailed after a countersignature, and two documents or two invoices
side by side.
