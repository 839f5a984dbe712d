------------------------------- MODULE Books -------------------------------
(***************************************************************************)
(* The bookkeeping: statement files imported and undone, the rows they     *)
(* bring, the rules that file them, the people who review them, and the    *)
(* accounts and categories they are filed under (importer.rs, imports.rs,  *)
(* categorizer.rs, reviewer.rs, rules.rs, categories.rs, accounts.rs,      *)
(* reconciler.rs, server/uploads.rs and their routes and commands).        *)
(*                                                                         *)
(* Every request and command has a connection of its own. What it does in  *)
(* one SQLite transaction is one action; what it does in several           *)
(* statements, or over several prompts, is several.                        *)
(***************************************************************************)
EXTENDS Integers, FiniteSets, Sequences, SequencesExt

CONSTANTS
  Clerks,        \* requests, commands and screens at work on the books
  None,
  Names,         \* account names
  Opening,       \* the accounts the books are set up with
  Keys,          \* date, amount and description of a statement row
  Files,         \* statement files; same file, same checksum
  RowsOf,        \* the keys a file parses to
  GustoFiles,    \* the payroll exports among them
  Payroll,       \* the payroll category a key calls for, or None
  Categories,
  Patterns,      \* a rule's pattern and match type
  Fits,          \* the keys a pattern matches
  Priorities,
  Uploads,       \* upload ids
  Desks,         \* bound: the sets of operations one behaviour may use
  MaxAccounts, MaxImports, MaxTransactions, MaxRules,  \* bounds: row ids
  MaxOps         \* bound: how many operations are begun at each desk

ASSUME BooksAssumption ==
  /\ RowsOf \in [Files -> SUBSET Keys] /\ \A f \in Files : IsFiniteSet(RowsOf[f])
  /\ GustoFiles \subseteq Files
  /\ Payroll \in [Keys -> Categories \cup {None}] /\ None \notin Categories
  /\ Fits \in [Patterns -> SUBSET Keys]
  /\ Priorities \subseteq Int /\ 0 \in Priorities
  /\ Opening \in [1..MaxAccounts -> Names \cup {None}]
  /\ MaxAccounts \in Nat /\ MaxImports \in Nat /\ MaxTransactions \in Nat /\ MaxRules \in Nat
  /\ MaxOps \in [Desks -> Nat]

AccountIds == 1..MaxAccounts
ImportIds == 1..MaxImports
TransactionIds == 1..MaxTransactions
RuleIds == 1..MaxRules

\* What the rows of the tables hold. Who filed a row is not stored: "waved" is
\* one without a category whose flag a person cleared.
Rows ==
  [account : AccountIds, key : Keys, import : ImportIds, category : Categories \cup {None},
   flagged : BOOLEAN, by : {"no one", "waved", "rule", "person"}]
ImportRows == [file : Files, account : AccountIds \cup {None}]
Rules == [pattern : Patterns, category : Categories, priority : Priorities, active : BOOLEAN]

ASSUME NoneAssumption == None \notin Rows \cup ImportRows \cup Rules \cup Names

VARIABLES
  accounts,      \* id -> name
  chart,         \* category -> "absent", "active" or "retired"
  imports,       \* id -> file and account
  transactions,  \* id -> row
  rules,         \* id -> rule
  reconciled,    \* accounts with a reconciliation on record
  spool,         \* upload id -> file
  op,            \* what each clerk is in the middle of
  desk, begun,   \* bounds: the operations in use, how many were begun
  undisturbed    \* history: the imports no older import was undone under

booksVars == <<accounts, chart, imports, transactions, rules, reconciled, spool, op, desk, begun, undisturbed>>
tables == <<accounts, chart, imports, transactions, rules, reconciled, spool>>

Empty(ids) == [i \in ids |-> None]
Used(table) == {i \in DOMAIN table : table[i] # None}

\* INTEGER PRIMARY KEY without AUTOINCREMENT: one more than the largest id in
\* use, so the id of a newest row that was deleted is given out again.
IsLast(table, n) == n \in Used(table) \cup {0} /\ \A i \in Used(table) : i <= n

Idle == [at |-> "idle", id |-> 0, it |-> None, rules |-> {}, todo |-> {}]

BooksInit ==
  /\ accounts = Opening
  /\ chart \in {ch \in [Categories -> {"absent", "active"}] : \E c \in Categories : ch[c] = "active"}
  /\ imports = Empty(ImportIds)
  /\ transactions = Empty(TransactionIds)
  /\ rules = Empty(RuleIds)
  /\ reconciled = {}
  /\ spool = Empty(Uploads)
  /\ op = [p \in Clerks |-> Idle]
  /\ desk \in Desks
  /\ begun = 0
  /\ undisturbed = {}

(* ------------------------------ the steps ------------------------------ *)

\* A clerk begins, goes on to the next step, or is done.
Begins(p, kind, next) ==
  /\ kind \in desk /\ begun < MaxOps[desk] /\ begun' = begun + 1
  /\ op[p] = Idle /\ op' = [op EXCEPT ![p] = next]
  /\ desk' = desk
Goes(p, next) == op' = [op EXCEPT ![p] = next] /\ UNCHANGED <<desk, begun>>
Done(p) == Goes(p, Idle)
\* An operation of one action, by a clerk who is free.
AtOnce(p, kind) == Begins(p, kind, Idle)

\* The command is interrupted, the client hangs up, a prompt is refused, or
\* a statement fails: what was committed stays.
Abandon(p) ==
  /\ op[p] # Idle /\ Done(p)
  /\ UNCHANGED <<tables, undisturbed>>

(* ------------------------------- imports ------------------------------- *)

ActiveRules == {rules[r] : r \in {s \in Used(rules) : rules[s].active}}

\* What a pass files a row under: the category of a matching rule of the
\* highest priority. Rules of one priority come in no stated order.
Filing(rs, key) ==
  LET matching == {r \in rs : key \in Fits[r.pattern]}
  IN  {r.category : r \in {s \in matching : \A o \in matching : o.priority <= s.priority}}

\* A statement row is in the books of an account already.
IsDuplicate(a, key) ==
  \E t \in Used(transactions) : transactions[t].account = a /\ transactions[t].key = key

\* Mutant: only the file's checksum keeps a row out.
NewRowsUnchecked(a, f) == RowsOf[f]

\* The rows of a file an account does not have yet. Equal lines of one file
\* are one row: the second finds the first, inserted just before.
NewRows(a, f) == {key \in RowsOf[f] : ~IsDuplicate(a, key)}

Row(a, i, key) ==
  [account |-> a, key |-> key, import |-> i, category |-> None, flagged |-> TRUE, by |-> "no one"]

\* The table with new rows in the ids that follow the last.
Inserted(a, i, new, last) ==
  LET keys == SetToSeq(new)
  IN  [t \in TransactionIds |->
         IF t - last \in 1..Cardinality(new) THEN Row(a, i, keys[t - last]) ELSE transactions[t]]

Filed(row, c) == [row EXCEPT !.category = c, !.flagged = FALSE, !.by = "rule"]

\* A payroll export files its rows by itself, those in the books before it too.
PayrollFiled(table, a, f) ==
  [t \in TransactionIds |->
     IF f \in GustoFiles /\ table[t] # None /\ table[t].account = a
          /\ table[t].key \in RowsOf[f] /\ Payroll[table[t].key] # None
     THEN Filed(table[t], Payroll[table[t].key]) ELSE table[t]]

\* Mutant: the pass looks for flags.
FileableFlagged(table) ==
  {t \in Used(table) : table[t].flagged /\ Filing(ActiveRules, table[t].key) # {}}

\* Mutant: the import's pass is over its own rows.
FileableNewOnly(table) ==
  {t \in Used(table) : transactions[t] = None /\ table[t].category = None
                         /\ Filing(ActiveRules, table[t].key) # {}}

\* The rows a pass would file now.
Fileable(table) ==
  {t \in Used(table) : table[t].category = None /\ Filing(ActiveRules, table[t].key) # {}}

\* Mutant: the checksum counts among the imports of accounts that are there.
KnownFileOfAccounts(f) == \E i \in Used(imports) : imports[i].file = f /\ imports[i].account # None

\* Nothing of a file is recorded when its checksum is, or when it parses to nothing.
KnownFile(f) == \E i \in Used(imports) : imports[i].file = f

\* The account a name stands for is the first of that name.
Named(a) == a \in Used(accounts) /\ \A b \in Used(accounts) : b < a => accounts[b] # accounts[a]

\* import_and_categorize: the import's record, its new rows, and a pass over
\* the whole ledger, in one transaction.
Recorded(f, a) ==
  /\ Named(a) /\ ~KnownFile(f) /\ RowsOf[f] # {}
  /\ \E lastImport \in 0..MaxImports, last \in 0..MaxTransactions :
       LET i == lastImport + 1
           new == NewRows(a, f)
           table == PayrollFiled(Inserted(a, i, new, last), a, f)
       IN  /\ IsLast(imports, lastImport) /\ IsLast(transactions, last)
           /\ i <= MaxImports /\ last + Cardinality(new) <= MaxTransactions
           /\ imports' = [imports EXCEPT ![i] = [file |-> f, account |-> a]]
           /\ \E filed \in [Fileable(table) -> Categories] :
                /\ \A t \in Fileable(table) : filed[t] \in Filing(ActiveRules, table[t].key)
                /\ transactions' = [t \in TransactionIds |->
                     IF t \in Fileable(table) THEN Filed(table[t], filed[t]) ELSE table[t]]
           /\ undisturbed' = undisturbed \cup {i}
  /\ UNCHANGED <<accounts, chart, rules, reconciled>>

\* `nigel import`, or the import screen.
Import(p, f, a) == AtOnce(p, "import") /\ Recorded(f, a) /\ UNCHANGED spool

\* The web's two steps: a file is spooled, then confirmed by its upload id.
Upload(p, u, f) ==
  /\ AtOnce(p, "upload")
  /\ spool[u] = None /\ \A q \in Clerks : op[q].it # u  \* ids are not reused
  /\ spool' = [spool EXCEPT ![u] = f]
  /\ UNCHANGED <<accounts, chart, imports, transactions, rules, reconciled, undisturbed>>

\* An upload an hour old goes, whoever is about to read it.
PurgeStale(u) ==
  /\ spool[u] # None /\ spool' = [spool EXCEPT ![u] = None]
  /\ UNCHANGED <<accounts, chart, imports, transactions, rules, reconciled, op, desk, begun, undisturbed>>

ResolveUpload(p, u) ==
  /\ Begins(p, "upload", [Idle EXCEPT !.at = "confirming", !.it = u]) /\ spool[u] # None
  /\ UNCHANGED <<tables, undisturbed>>

\* The confirm goes on to delete the upload, unless saving the column mapping
\* fails after the import was committed.
ConfirmImport(p, a) ==
  LET u == op[p].it
  IN  /\ op[p].at = "confirming" /\ spool[u] # None /\ Recorded(spool[u], a)
      /\ Goes(p, [op[p] EXCEPT !.at = "imported"]) \/ Done(p)
      /\ UNCHANGED spool

\* A file already imported is answered, and its upload deleted all the same.
ConfirmKnown(p) ==
  LET u == op[p].it
  IN  /\ op[p].at = "confirming" /\ spool[u] # None /\ KnownFile(spool[u]) /\ Used(accounts) # {}
      /\ Goes(p, [op[p] EXCEPT !.at = "imported"])
      /\ UNCHANGED <<tables, undisturbed>>

DeleteUpload(p) ==
  /\ op[p].at = "imported" /\ Done(p)
  /\ spool' = [spool EXCEPT ![op[p].it] = None]
  /\ UNCHANGED <<accounts, chart, imports, transactions, rules, reconciled, undisturbed>>

\* An undo names an import it saw, and deletes by its id once confirmed.
ShowImport(p, i) ==
  /\ Begins(p, "undo", [Idle EXCEPT !.at = "undoing", !.id = i]) /\ imports[i] # None
  /\ UNCHANGED <<tables, undisturbed>>

\* Mutant: the undo deletes the rows the file lists.
DeleteImportRows(p) ==
  LET i == op[p].id
  IN  /\ op[p].at = "undoing" /\ Done(p)
      /\ imports' = [imports EXCEPT ![i] = None]
      /\ transactions' = [t \in TransactionIds |->
           IF imports[i] # None /\ transactions[t] # None /\ transactions[t].account = imports[i].account
                /\ transactions[t].key \in RowsOf[imports[i].file] THEN None ELSE transactions[t]]
      /\ undisturbed' = IF imports[i] = None THEN undisturbed ELSE {j \in undisturbed : j < i}
      /\ UNCHANGED <<accounts, chart, rules, reconciled, spool>>

DeleteImport(p) ==
  LET i == op[p].id
  IN  /\ op[p].at = "undoing" /\ Done(p)
      /\ imports' = [imports EXCEPT ![i] = None]
      /\ transactions' = [t \in TransactionIds |->
           IF transactions[t] # None /\ transactions[t].import = i THEN None ELSE transactions[t]]
      /\ undisturbed' = IF imports[i] = None THEN undisturbed ELSE {j \in undisturbed : j < i}
      /\ UNCHANGED <<accounts, chart, rules, reconciled, spool>>

(* ------------------------------- passes -------------------------------- *)

\* A categorise request on its own is no transaction: it reads the rules,
\* then the rows without a category, then files row after row.
ReadRules(p) ==
  /\ Begins(p, "categorize", [Idle EXCEPT !.at = "matching", !.rules = ActiveRules])
  /\ UNCHANGED <<tables, undisturbed>>

ReadRows(p) ==
  /\ op[p].at = "matching"
  /\ Goes(p, [op[p] EXCEPT !.at = "filing", !.todo =
       {<<t, transactions[t].key>> : t \in
          {s \in Used(transactions) : transactions[s].category = None
             /\ Filing(op[p].rules, transactions[s].key) # {}}}])
  /\ UNCHANGED <<tables, undisturbed>>

\* The row is filed by what was read of it, whatever it is by now.
FileNext(p, t, key, c) ==
  /\ op[p].at = "filing" /\ <<t, key>> \in op[p].todo /\ \A next \in op[p].todo : t <= next[1]
  /\ c \in Filing(op[p].rules, key)
  /\ Goes(p, [op[p] EXCEPT !.todo = @ \ {<<t, key>>}])
  /\ transactions' = IF transactions[t] = None THEN transactions
                     ELSE [transactions EXCEPT ![t] = Filed(@, c)]
  /\ UNCHANGED <<accounts, chart, imports, rules, reconciled, spool, undisturbed>>

PassEnds(p) ==
  /\ op[p].at = "filing" /\ op[p].todo = {} /\ Done(p)
  /\ UNCHANGED <<tables, undisturbed>>

(* ------------------------------- people -------------------------------- *)

\* A person has a row before them and picks an active category.
PickCategory(p, t, c) ==
  /\ Begins(p, "review", [Idle EXCEPT !.at = "deciding", !.id = t, !.it = c])
  /\ transactions[t] # None /\ chart[c] = "active"
  /\ UNCHANGED <<tables, undisturbed>>

\* The row they meant, if it is there still: an id that names nothing is
\* updated without a word.
Touched(id, row) ==
  IF id \in Used(transactions) THEN [transactions EXCEPT ![id] = row] ELSE transactions

\* A rule and the id it gets.
RuleOf(pattern, c, priority) ==
  [pattern |-> pattern, category |-> c, priority |-> priority, active |-> TRUE]
AddsRule(r, rule) ==
  /\ r \in RuleIds /\ IsLast(rules, r - 1)
  /\ rules' = [rules EXCEPT ![r] = rule]

\* The review's decision, with a rule or without: one transaction. What it did
\* is kept for the way back. A batch recategorize does the same to each row.
ApplyReview(p) ==
  LET t == op[p].id  c == op[p].it
  IN  /\ op[p].at = "deciding"
      /\ transactions' = Touched(t, [transactions[t] EXCEPT !.category = c, !.flagged = FALSE, !.by = "person"])
      /\ \/ rules' = rules /\ Goes(p, [Idle EXCEPT !.at = "decided", !.id = t, !.it = 0])
         \/ \E r \in RuleIds, pattern \in Patterns :
              /\ AddsRule(r, RuleOf(pattern, c, 0))
              /\ Goes(p, [Idle EXCEPT !.at = "decided", !.id = t, !.it = r])
      /\ UNCHANGED <<accounts, chart, imports, reconciled, spool, undisturbed>>

\* Mutant: the row goes back without its flag.
UndoReviewUnflagged(p) ==
  LET t == op[p].id  r == op[p].it
  IN  /\ op[p].at = "decided" /\ Done(p)
      /\ transactions' = Touched(t, [transactions[t] EXCEPT !.category = None, !.by = "no one"])
      /\ rules' = IF r = 0 THEN rules ELSE [rules EXCEPT ![r] = None]
      /\ UNCHANGED <<accounts, chart, imports, reconciled, spool, undisturbed>>

\* The way back: the row to the queue, and the rule deleted by its id. The web
\* stops at a row that is gone, the terminal deletes the rule all the same.
UndoReview(p) ==
  LET t == op[p].id  r == op[p].it
  IN  /\ op[p].at = "decided" /\ Done(p)
      /\ transactions' =
           Touched(t, [transactions[t] EXCEPT !.category = None, !.flagged = TRUE, !.by = "no one"])
      /\ \/ rules' = IF r = 0 THEN rules ELSE [rules EXCEPT ![r] = None]
         \/ transactions[t] = None /\ rules' = rules
      /\ UNCHANGED <<accounts, chart, imports, reconciled, spool, undisturbed>>

\* The register's edit sets the category and leaves the flag.
EditCategory(p) ==
  LET t == op[p].id
  IN  /\ op[p].at = "deciding" /\ Done(p)
      /\ transactions' = Touched(t, [transactions[t] EXCEPT !.category = op[p].it, !.by = "person"])
      /\ UNCHANGED <<accounts, chart, imports, rules, reconciled, spool, undisturbed>>

\* A flag set or cleared by hand; one cleared before the row has a category
\* is a person's word that it needs none.
SetFlag(p, t, flag) ==
  /\ AtOnce(p, "review") /\ transactions[t] # None
  /\ transactions' = [transactions EXCEPT ![t].flagged = flag,
       ![t].by = IF transactions[t].category # None THEN @ ELSE IF flag THEN "no one" ELSE "waved"]
  /\ UNCHANGED <<accounts, chart, imports, rules, reconciled, spool, undisturbed>>

\* A rule is added or changed after its category was seen to be active; a
\* change may leave the category as it is.
CheckRule(p, r, c) ==
  /\ Begins(p, "rules", [Idle EXCEPT !.at = "ruling", !.id = r, !.it = c])
  /\ IF c = None THEN r # 0 ELSE chart[c] = "active"
  /\ r # 0 => r \in Used(rules) /\ rules[r].active
  /\ UNCHANGED <<tables, undisturbed>>

AddRule(p, pattern, priority) ==
  /\ op[p].at = "ruling" /\ op[p].id = 0 /\ Done(p)
  /\ \E r \in RuleIds : AddsRule(r, RuleOf(pattern, op[p].it, priority))
  /\ UNCHANGED <<accounts, chart, imports, transactions, reconciled, spool, undisturbed>>

UpdateRule(p, pattern, priority) ==
  LET r == op[p].id  c == IF op[p].it = None THEN rules[r].category ELSE op[p].it
  IN  /\ op[p].at = "ruling" /\ r # 0 /\ Done(p)
      /\ rules' = IF rules[r] = None THEN rules
                  ELSE [rules EXCEPT ![r] = [RuleOf(pattern, c, priority) EXCEPT !.active = rules[r].active]]
      /\ UNCHANGED <<accounts, chart, imports, transactions, reconciled, spool, undisturbed>>

DeactivateRule(p, r) ==
  /\ AtOnce(p, "rules") /\ r \in Used(rules) /\ rules[r].active
  /\ rules' = [rules EXCEPT ![r].active = FALSE]
  /\ UNCHANGED <<accounts, chart, imports, transactions, reconciled, spool, undisturbed>>

(* ----------------------- categories and accounts ----------------------- *)

AddCategory(p, c) ==
  /\ AtOnce(p, "chart") /\ chart[c] = "absent"
  /\ chart' = [chart EXCEPT ![c] = "active"]
  /\ UNCHANGED <<accounts, imports, transactions, rules, reconciled, spool, undisturbed>>

\* A category nothing uses is retired, in a statement after the counts.
CountUses(p, c) ==
  /\ Begins(p, "chart", [Idle EXCEPT !.at = "retiring", !.it = c])
  /\ \A t \in Used(transactions) : transactions[t].category # c
  /\ \A rule \in ActiveRules : rule.category # c
  /\ UNCHANGED <<tables, undisturbed>>

RetireCategory(p) ==
  LET c == op[p].it
  IN  /\ op[p].at = "retiring" /\ chart[c] = "active" /\ Done(p)
      /\ chart' = [chart EXCEPT ![c] = "retired"]
      /\ UNCHANGED <<accounts, imports, transactions, rules, reconciled, spool, undisturbed>>

\* An account's name is looked up before it is given, to a new account or to
\* one renamed.
CheckName(p, a, n) ==
  /\ Begins(p, "accounts", [Idle EXCEPT !.at = "naming", !.id = a, !.it = n])
  /\ a \in Used(accounts) \cup {0} /\ \A b \in Used(accounts) \ {a} : accounts[b] # n
  /\ UNCHANGED <<tables, undisturbed>>

AddAccount(p) ==
  /\ op[p].at = "naming" /\ op[p].id = 0 /\ Done(p)
  /\ \E a \in AccountIds : IsLast(accounts, a - 1) /\ accounts' = [accounts EXCEPT ![a] = op[p].it]
  /\ UNCHANGED <<chart, imports, transactions, rules, reconciled, spool, undisturbed>>

RenameAccount(p) ==
  LET a == op[p].id
  IN  /\ op[p].at = "naming" /\ a \in Used(accounts) /\ Done(p)
      /\ accounts' = [accounts EXCEPT ![a] = op[p].it]
      /\ UNCHANGED <<chart, imports, transactions, rules, reconciled, spool, undisturbed>>

\* An account without transactions goes, its reconciliations with it; its
\* imports stay, to know their files again.
DeleteAccount(p, a) ==
  /\ AtOnce(p, "accounts") /\ accounts[a] # None
  /\ \A t \in Used(transactions) : transactions[t].account # a
  /\ reconciled' = reconciled \ {a}
  /\ imports' = [i \in ImportIds |->
       IF imports[i] # None /\ imports[i].account = a THEN [imports[i] EXCEPT !.account = None] ELSE imports[i]]
  /\ accounts' = [accounts EXCEPT ![a] = None]
  /\ UNCHANGED <<chart, transactions, rules, spool, undisturbed>>

\* A month with transactions is summed; the record follows in a statement of
\* its own, and needs the account.
CountMonth(p, a) ==
  /\ Begins(p, "accounts", [Idle EXCEPT !.at = "balancing", !.id = a])
  /\ Named(a) /\ \E t \in Used(transactions) : transactions[t].account = a
  /\ UNCHANGED <<tables, undisturbed>>

\* Mutant: the foreign keys are not enforced.
ReconcileUnchecked(p) ==
  /\ op[p].at = "balancing" /\ Done(p)
  /\ reconciled' = reconciled \cup {op[p].id}
  /\ UNCHANGED <<accounts, chart, imports, transactions, rules, spool, undisturbed>>

Reconcile(p) ==
  /\ op[p].at = "balancing" /\ accounts[op[p].id] # None /\ Done(p)
  /\ reconciled' = reconciled \cup {op[p].id}
  /\ UNCHANGED <<accounts, chart, imports, transactions, rules, spool, undisturbed>>

(* --------------------------- the specification ------------------------- *)

ImportsNext(p) ==
  \/ \E f \in Files, a \in AccountIds : Import(p, f, a)
  \/ \E u \in Uploads, f \in Files : Upload(p, u, f)
  \/ \E u \in Uploads : ResolveUpload(p, u)
  \/ \E a \in AccountIds : ConfirmImport(p, a)
  \/ ConfirmKnown(p) \/ DeleteUpload(p)
  \/ \E i \in ImportIds : ShowImport(p, i)
  \/ DeleteImport(p)

FilingNext(p) ==
  \/ ReadRules(p) \/ ReadRows(p) \/ PassEnds(p)
  \/ \E t \in TransactionIds, key \in Keys, c \in Categories : FileNext(p, t, key, c)
  \/ \E t \in TransactionIds, c \in Categories : PickCategory(p, t, c)
  \/ ApplyReview(p) \/ UndoReview(p) \/ EditCategory(p)
  \/ \E t \in TransactionIds, flag \in BOOLEAN : SetFlag(p, t, flag)
  \/ \E r \in RuleIds \cup {0}, c \in Categories \cup {None} : CheckRule(p, r, c)
  \/ \E pattern \in Patterns, priority \in Priorities :
       AddRule(p, pattern, priority) \/ UpdateRule(p, pattern, priority)
  \/ \E r \in RuleIds : DeactivateRule(p, r)

ChartNext(p) ==
  \/ \E c \in Categories : AddCategory(p, c) \/ CountUses(p, c)
  \/ \E a \in AccountIds \cup {0}, n \in Names : CheckName(p, a, n)
  \/ RetireCategory(p) \/ AddAccount(p) \/ RenameAccount(p) \/ Reconcile(p)
  \/ \E a \in AccountIds : DeleteAccount(p, a) \/ CountMonth(p, a)

BooksNext ==
  \/ \E p \in Clerks : ImportsNext(p) \/ FilingNext(p) \/ ChartNext(p) \/ Abandon(p)
  \/ \E u \in Uploads : PurgeStale(u)

BooksSpec == BooksInit /\ [][BooksNext]_booksVars

(* ------------------------------ properties ----------------------------- *)

OpStages == {"idle", "confirming", "imported", "undoing", "matching", "filing", "deciding", "decided",
           "ruling", "retiring", "naming", "balancing"}

\* The tables hold rows of their kind, and a transaction's account and import,
\* an import's account and a reconciliation's account are on record whoever
\* deletes what in between (the foreign keys of db.rs).
BooksTypeOK ==
  /\ accounts \in [AccountIds -> Names \cup {None}]
  /\ chart \in [Categories -> {"absent", "active", "retired"}]
  /\ imports \in [ImportIds -> ImportRows \cup {None}]
  /\ transactions \in [TransactionIds -> Rows \cup {None}]
  /\ rules \in [RuleIds -> Rules \cup {None}]
  /\ spool \in [Uploads -> Files \cup {None}]
  /\ \A p \in Clerks : op[p].at \in OpStages
  /\ desk \in Desks /\ begun \in 0..MaxOps[desk]
  /\ undisturbed \subseteq Used(imports)
  /\ reconciled \subseteq Used(accounts)
  /\ \A t \in Used(transactions) :
       transactions[t].account \in Used(accounts) /\ transactions[t].import \in Used(imports)
  /\ \A i \in Used(imports) : imports[i].account \in Used(accounts) \cup {None}

\* No row of a statement is in the books of an account twice, however the
\* files overlap, are imported again or were undone (is_duplicate_row).
NoRowTwice ==
  \A t, u \in Used(transactions) :
    transactions[t].account = transactions[u].account /\ transactions[t].key = transactions[u].key => t = u

\* A file is on record once, though its account is deleted and it is confirmed
\* again from a second upload, by a retry or by another process (the checksum
\* lookup in import_file, and delete_account keeping the imports for it).
OneRecordPerFile ==
  \A i, j \in Used(imports) : imports[i].file = imports[j].file => i = j

\* Every row of a recorded file is in the books of its account, its own or an
\* older import's, unless an older import was undone since. Undoing the newest
\* import, as `nigel undo` offers, so never takes a row another one counts on.
RecordedRowsAreThere ==
  \A i \in undisturbed : \A key \in RowsOf[imports[i].file] : IsDuplicate(imports[i].account, key)

\* A row without a category is in the review queue, unless a person cleared
\* its flag: no import, pass, undo or edit drops one from both (the queue
\* lists flags, the passes look for missing categories).
NothingForgotten ==
  \A t \in Used(transactions) :
    transactions[t].category = None /\ ~transactions[t].flagged => transactions[t].by = "waved"

\* A person's category is never overwritten by an import's pass over the
\* ledger, and by a pass on its own only if the pass had read the row before
\* the person decided; a payroll export files the rows it lists regardless.
PersonDecides ==
  [][\A t \in TransactionIds :
       (/\ transactions[t] # None /\ transactions[t].by = "person"
        /\ transactions'[t] # None /\ transactions'[t].by = "rule")
       => \/ \E p \in Clerks : op[p].at = "filing" /\ \E key \in Keys : <<t, key>> \in op[p].todo
          \/ \E i \in Used(imports') \ Used(imports) :
               imports'[i].file \in GustoFiles /\ transactions[t].key \in RowsOf[imports'[i].file]]_booksVars

\* When an import commits, no row anywhere in the ledger is left without a
\* category that an active rule matches, and no row it filed has the category
\* of a rule that another matching one outranks.
SweptClean ==
  [][Used(imports') # Used(imports) /\ Used(imports) \subseteq Used(imports') =>
       \A t \in Used(transactions') :
         LET row == transactions'[t]
             rank(c) == {r.priority : r \in {s \in ActiveRules : s.category = c /\ row.key \in Fits[s.pattern]}}
         IN  /\ row.category = None => \A r \in ActiveRules : row.key \notin Fits[r.pattern]
             /\ row.by = "rule" /\ row.category # Payroll[row.key]
                  /\ (transactions[t] = None \/ transactions[t].category = None)
                  => \E best \in rank(row.category) :
                       \A r \in ActiveRules : row.key \in Fits[r.pattern] => r.priority <= best]_booksVars
=============================================================================
