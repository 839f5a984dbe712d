------------------------------- MODULE MCDesk -------------------------------
(* The bookkeeping, the database gate, the documents folder and the clients *)
(* on small instances. They share no state: every behaviour is of one of    *)
(* them, and the others stand still.                                        *)
EXTENDS Books, DatabaseGate, DocumentFiles, Clients, TLC

CONSTANTS n1, n2, k1, k2, f0, f1, f2, q1, q2, c1, c2, a1, a2

\* f0 parses to nothing; f2 is a payroll export whose row f1 has as well.
MCRowsOf == f0 :> {} @@ f1 :> {k1, k2} @@ f2 :> {k2}
MCPayroll == k1 :> None @@ k2 :> c2
MCFits == q1 :> {k1, k2} @@ q2 :> {k2}
MCOpening == 1 :> n1 @@ 2 :> n2
\* Who works at the books, and how many operations they begin.
MCMaxOps ==
  {"import", "undo", "accounts"} :> 5 @@ {"import", "upload", "undo"} :> 5 @@
  {"import", "undo", "categorize", "review"} :> 4 @@ {"import", "rules", "categorize"} :> 3 @@
  {"import", "chart", "review"} :> 3
MCDesks == DOMAIN MCMaxOps

\* One process that backs up and restores and is killed on the way, or whose
\* disk refuses; another that restores twice; or two that file, revise and
\* back up at once.
MCCrews == {{a1}, {a2}, {a1, a2}}
MCMaxFilings == {a1} :> 3 @@ {a2} :> 2 @@ {a1, a2} :> 3
MCMaxBackups == [w \in MCCrews |-> 1]
MCMaxRestores == {a1} :> 1 @@ {a2} :> 2 @@ {a1, a2} :> 0
MCMaxMishaps == {a1} :> 1 @@ {a2} :> 1 @@ {a1, a2} :> 0

\* What is done for clients, and how often.
MCMaxJobs ==
  {"clients", "contacts"} :> 3 @@ {"clients", "archive", "invoices", "import"} :> 4 @@
  {"clients", "archive", "delete", "schedule", "document", "invoices"} :> 4
MCTrades == DOMAIN MCMaxJobs

VARIABLE part  \* the one that moves

deskVars == <<booksVars, gateVars, filesVars, clientsVars, part>>

DeskInit ==
  /\ BooksInit /\ GateInit /\ FilesInit /\ ClientsInit
  /\ part \in {"books", "gate", "files", "clients"}
  /\ part # "books" => desk = {"import", "undo", "accounts"} /\ \A c \in Categories : chart[c] = "active"
  /\ part # "gate" => served = (CHOOSE d \in Dirs : TRUE) /\ \A d \in Dirs : cipher[d] = Nothing
  /\ part # "files" => crew = {a1}
  /\ part # "clients" => trade = {"clients", "contacts"}

DeskNext ==
  /\ part' = part
  /\ \/ part = "books" /\ BooksNext /\ UNCHANGED <<gateVars, filesVars, clientsVars>>
     \/ part = "gate" /\ GateNext /\ UNCHANGED <<booksVars, filesVars, clientsVars>>
     \/ part = "files" /\ FilesNext /\ UNCHANGED <<booksVars, gateVars, clientsVars>>
     \/ part = "clients" /\ ClientsNext /\ UNCHANGED <<booksVars, gateVars, filesVars>>

DeskSpec == DeskInit /\ [][DeskNext]_deskVars /\ GateFairness

\* Every component's variables are of their kind, what a row refers to is
\* there, and who waits for or holds what may (see BooksTypeOK, GateTypeOK,
\* FilesTypeOK and ClientsTypeOK).
DeskTypeOK == BooksTypeOK /\ GateTypeOK /\ FilesTypeOK /\ ClientsTypeOK
=============================================================================
