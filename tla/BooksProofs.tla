---------------------------- MODULE BooksProofs ----------------------------
(***************************************************************************)
(* Proofs about Books, for any number of clerks, accounts, files, rows,    *)
(* rules and operations.                                                   *)
(***************************************************************************)
EXTENDS Books, FiniteSetTheorems, NaturalsInduction, WellFoundedInduction, TLAPS

(* ------------------------ the inductive invariant ----------------------- *)

\* What an operation holds between its steps.
OpIts == Uploads \cup Categories \cup Names \cup RuleIds \cup {0, None}
OpRecords ==
  [at : OpStages, id : Nat, it : OpIts, rules : SUBSET Rules, todo : SUBSET (TransactionIds \X Keys)]

\* The tables hold rows of their kind.
Typed ==
  /\ accounts \in [AccountIds -> Names \cup {None}]
  /\ chart \in [Categories -> {"absent", "active", "retired"}]
  /\ imports \in [ImportIds -> ImportRows \cup {None}]
  /\ transactions \in [TransactionIds -> Rows \cup {None}]
  /\ rules \in [RuleIds -> Rules \cup {None}]
  /\ spool \in [Uploads -> Files \cup {None}]

\* The operations hold what they may.
OpsTyped ==
  /\ op \in [Clerks -> OpRecords]
  /\ desk \in Desks /\ begun \in 0..MaxOps[desk]

\* What the ids an operation read stand for.
Meaning(o) ==
  /\ o.at \in {"deciding", "decided"} => o.id \in TransactionIds
  /\ o.at = "deciding" => o.it \in Categories
  /\ o.at = "decided" => o.it \in RuleIds \cup {0}
  /\ o.at = "undoing" => o.id \in ImportIds
  /\ o.at = "ruling" => (o.id \in RuleIds /\ o.it = None) \/ (o.id \in RuleIds \cup {0} /\ o.it \in Categories)
  /\ o.at = "naming" => o.id \in AccountIds \cup {0} /\ o.it \in Names
  /\ o.at = "balancing" => o.id \in AccountIds
  /\ o.at \in {"confirming", "imported"} => o.it \in Uploads
  /\ o.at = "retiring" => o.it \in Categories
OpsMeant == \A p \in Clerks : Meaning(op[p])

\* What the foreign keys promise: no row names one that is gone.
Referenced ==
  /\ reconciled \subseteq Used(accounts)
  /\ \A t \in Used(transactions) :
       transactions[t].account \in Used(accounts) /\ transactions[t].import \in Used(imports)
  /\ \A i \in Used(imports) : imports[i].account \in Used(accounts) \cup {None}

\* Every row of an undisturbed import was there when it was recorded: it is
\* the import's own or an older one's.
Backed ==
  /\ undisturbed \subseteq Used(imports)
  /\ \A i \in Used(imports) : RowsOf[imports[i].file] # {}
  /\ \A i \in undisturbed : \A key \in RowsOf[imports[i].file] :
       \E t \in Used(transactions) :
         transactions[t].account = imports[i].account /\ transactions[t].key = key /\ transactions[t].import <= i

\* Filing leaves a category, a person's and a rule's.
Filled ==
  \A t \in Used(transactions) : transactions[t].by \in {"person", "rule"} => transactions[t].category # None

\* What the tables keep among themselves, whoever writes them.
RowsInv == Referenced /\ NoRowTwice /\ OneRecordPerFile /\ Backed /\ NothingForgotten /\ Filled
\* The inductive invariant.
BooksInv == Typed /\ OpsTyped /\ OpsMeant /\ RowsInv

\* The rows of a file in some order: each once.
LEMMA SeqOfSet ==
  ASSUME NEW S, IsFiniteSet(S)
  PROVE  /\ Cardinality(S) \in Nat
         /\ SetToSeq(S) \in [1..Cardinality(S) -> S]
         /\ \A i, j \in 1..Cardinality(S) : SetToSeq(S)[i] = SetToSeq(S)[j] => i = j
         /\ \A x \in S : \E i \in 1..Cardinality(S) : SetToSeq(S)[i] = x
<1> DEFINE n == Cardinality(S)
           f == SetToSeq(S)
<1>1. n \in Nat /\ ExistsBijection(1..n, S)
  BY FS_CardinalityType
<1>2. \E g \in [1..n -> S] : IsInjective(g)
  BY <1>1 DEF ExistsBijection, Bijection, Injection
<1>3. f \in [1..n -> S] /\ IsInjective(f)
  BY <1>2 DEF SetToSeq
<1>4. f \in Injection(1..n, S)
  BY <1>3 DEF Injection
<1>5. PICK g : g \in Bijection(1..n, S)
  BY <1>1 DEF ExistsBijection
<1>6. g \in Injection(1..n, S) /\ g \in Surjection(1..n, S)
  BY <1>5 DEF Bijection
<1>7. IsFiniteSet(1..n)
  BY <1>6, FS_Injection
<1>8. Cardinality(S) = Cardinality(1..n)
  BY <1>6, <1>7, FS_Surjection
<1>9. f \in Surjection(1..n, S)
  BY <1>4, <1>8, FS_Injection
<1> HIDE DEF f, n
<1>10. \A i, j \in 1..n : f[i] = f[j] => i = j
  BY <1>3 DEF IsInjective
<1>11. \A x \in S : \E i \in 1..n : f[i] = x
  BY <1>9 DEF Surjection
<1> QED
  BY <1>1, <1>3, <1>10, <1>11 DEF n, f

\* A row changed in place is the same row of the same import.
SameRows ==
  \A t \in TransactionIds :
    /\ transactions'[t] = None <=> transactions[t] = None
    /\ transactions[t] # None =>
         /\ transactions'[t].account = transactions[t].account
         /\ transactions'[t].key = transactions[t].key
         /\ transactions'[t].import = transactions[t].import

\* Rows changed in place keep what is said of accounts, keys and imports.
LEMMA SameRowsKeep ==
  ASSUME Typed, Typed', RowsInv, SameRows, UNCHANGED <<accounts, imports, reconciled, undisturbed>>
  PROVE  Referenced' /\ NoRowTwice' /\ OneRecordPerFile' /\ Backed'
<1>1. Used(transactions') = Used(transactions)
  BY DEF Typed, SameRows, Used
<1>2. Referenced'
  BY <1>1 DEF RowsInv, Referenced, Typed, SameRows, Used
<1>3. NoRowTwice'
  BY <1>1 DEF RowsInv, NoRowTwice, Typed, SameRows, Used
<1>4. OneRecordPerFile'
  BY DEF RowsInv, OneRecordPerFile, Used
<1>5. Backed'
  BY <1>1 DEF RowsInv, Backed, Typed, SameRows, Used
<1> QED
  BY <1>2, <1>3, <1>4, <1>5

\* A clerk who is free holds nothing.
LEMMA IdleFine == Idle \in OpRecords /\ Meaning(Idle)
  BY DEF Idle, OpRecords, OpStages, OpIts, Meaning

\* An operation begins with ids of their kind.
LEMMA BeginsKeeps ==
  ASSUME OpsTyped, OpsMeant, NEW p \in Clerks, NEW kind, NEW next \in OpRecords, Meaning(next),
         Begins(p, kind, next)
  PROVE  OpsTyped' /\ OpsMeant'
<1>1. OpsTyped'
  BY BooksAssumption DEF OpsTyped, Begins
<1>2. OpsMeant'
  BY DEF OpsTyped, OpsMeant, Begins
<1> QED
  BY <1>1, <1>2

\* It goes on with ids of their kind.
LEMMA GoesKeeps ==
  ASSUME OpsTyped, OpsMeant, NEW p \in Clerks, NEW next \in OpRecords, Meaning(next), Goes(p, next)
  PROVE  OpsTyped' /\ OpsMeant'
<1>1. OpsTyped'
  BY DEF OpsTyped, Goes
<1>2. OpsMeant'
  BY DEF OpsTyped, OpsMeant, Goes
<1> QED
  BY <1>1, <1>2

\* It ends.
LEMMA DoneKeeps ==
  ASSUME OpsTyped, OpsMeant, NEW p \in Clerks, Done(p)
  PROVE  OpsTyped' /\ OpsMeant'
  BY GoesKeeps, IdleFine DEF Done

\* It is over in one step.
LEMMA AtOnceKeeps ==
  ASSUME OpsTyped, OpsMeant, NEW p \in Clerks, NEW kind, AtOnce(p, kind)
  PROVE  OpsTyped' /\ OpsMeant'
  BY BeginsKeeps, IdleFine DEF AtOnce

\* What the tables keep among themselves holds while they are left alone.
LEMMA RowsStay ==
  ASSUME RowsInv, UNCHANGED <<accounts, imports, transactions, reconciled, undisturbed>>
  PROVE  RowsInv'
  BY DEF RowsInv, Referenced, NoRowTwice, OneRecordPerFile, Backed, NothingForgotten, Filled, Used

\* The same with all of them left alone.
LEMMA TablesStay ==
  ASSUME Typed, RowsInv, UNCHANGED <<tables, undisturbed>>
  PROVE  Typed' /\ RowsInv'
  BY RowsStay DEF Typed, tables

\* A row of the transactions is changed in place, or nothing is.
LEMMA RowChanges ==
  ASSUME Typed, Typed', RowsInv, NEW id \in TransactionIds, NEW row,
         transactions[id] # None =>
           /\ row \in Rows /\ row.account = transactions[id].account
           /\ row.key = transactions[id].key /\ row.import = transactions[id].import
           /\ row.category = None /\ ~row.flagged => row.by = "waved"
           /\ row.by \in {"person", "rule"} => row.category # None,
         transactions' = Touched(id, row),
         UNCHANGED <<accounts, imports, reconciled, undisturbed>>
  PROVE  RowsInv'
<1>1. SameRows
  BY NoneAssumption DEF Typed, Touched, SameRows, Used
<1>2. Referenced' /\ NoRowTwice' /\ OneRecordPerFile' /\ Backed'
  BY <1>1, SameRowsKeep
<1>3. NothingForgotten'
  BY DEF Typed, RowsInv, NothingForgotten, Touched, Used
<1>4. Filled'
  BY DEF Typed, RowsInv, Filled, Touched, Used
<1> QED
  BY <1>2, <1>3, <1>4 DEF RowsInv

(* --------------------------- steps of an op ---------------------------- *)

\* A step of an operation that reads and writes nothing.
LEMMA OpOnly ==
  ASSUME BooksInv, OpsTyped', OpsMeant', UNCHANGED <<tables, undisturbed>>
  PROVE  BooksInv'
  BY TablesStay DEF BooksInv

\* A pass holds rules.
LEMMA ActiveRulesTyped ==
  ASSUME Typed
  PROVE  ActiveRules \subseteq Rules
  BY DEF Typed, ActiveRules, Used

\* Giving up, a file answered as known, and a pass's reads and end.
LEMMA StagesKeep ==
  ASSUME BooksInv, NEW p \in Clerks,
         Abandon(p) \/ ConfirmKnown(p) \/ PassEnds(p) \/ ReadRules(p) \/ ReadRows(p)
  PROVE  BooksInv'
<1> USE DEF BooksInv
<1>1. CASE Abandon(p)
  BY <1>1, DoneKeeps, OpOnly DEF Abandon
<1>2. CASE PassEnds(p)
  BY <1>2, DoneKeeps, OpOnly DEF PassEnds
<1>3. CASE ConfirmKnown(p)
  <2> DEFINE next == [op[p] EXCEPT !.at = "imported"]
  <2>1. op[p] \in OpRecords /\ Meaning(op[p]) /\ op[p].at = "confirming"
    BY <1>3 DEF OpsTyped, OpsMeant, ConfirmKnown
  <2>2. next \in OpRecords /\ next.at = "imported" /\ next.it = op[p].it
    BY <2>1 DEF OpRecords, OpStages
  <2>3. Meaning(next)
    BY <2>1, <2>2 DEF Meaning
  <2>4. Goes(p, next) /\ UNCHANGED <<tables, undisturbed>>
    BY <1>3 DEF ConfirmKnown
  <2> QED
    BY <2>2, <2>3, <2>4, GoesKeeps, OpOnly
<1>4. CASE ReadRules(p)
  <2> DEFINE next == [Idle EXCEPT !.at = "matching", !.rules = ActiveRules]
  <2>1. next \in OpRecords /\ next.at = "matching"
    BY ActiveRulesTyped DEF Idle, OpRecords, OpStages, OpIts
  <2>2. Meaning(next)
    BY <2>1 DEF Meaning
  <2>3. Begins(p, "categorize", next) /\ UNCHANGED <<tables, undisturbed>>
    BY <1>4 DEF ReadRules
  <2> HIDE DEF next
  <2> QED
    BY <2>1, <2>2, <2>3, BeginsKeeps, OpOnly
<1>5. CASE ReadRows(p)
  <2> DEFINE todo == {<<t, transactions[t].key>> : t \in
                {s \in Used(transactions) : transactions[s].category = None
                   /\ Filing(op[p].rules, transactions[s].key) # {}}}
             next == [op[p] EXCEPT !.at = "filing", !.todo = todo]
  <2>1. op[p] \in OpRecords
    BY DEF OpsTyped
  <2>2. todo \subseteq TransactionIds \X Keys
    <3>1. \A t \in Used(transactions) : t \in TransactionIds /\ transactions[t] \in Rows
      BY DEF Typed, Used
    <3>2. \A t \in Used(transactions) : transactions[t].key \in Keys
      BY <3>1 DEF Rows
    <3> QED
      BY <3>1, <3>2
  <2>3. Goes(p, next) /\ UNCHANGED <<tables, undisturbed>>
    BY <1>5 DEF ReadRows
  <2> HIDE DEF todo
  <2>4. next \in OpRecords /\ next.at = "filing"
    BY <2>1, <2>2 DEF OpRecords, OpStages
  <2>5. Meaning(next)
    BY <2>4 DEF Meaning
  <2> HIDE DEF next
  <2> QED
    BY <2>3, <2>4, <2>5, GoesKeeps, OpOnly
<1> QED
  BY <1>1, <1>2, <1>3, <1>4, <1>5

\* What is shown, resolved, counted or looked up before a write.
LEMMA LooksKeep ==
  ASSUME BooksInv, NEW p \in Clerks,
         \/ \E u \in Uploads : ResolveUpload(p, u)
         \/ \E i \in ImportIds : ShowImport(p, i)
         \/ \E t \in TransactionIds, c \in Categories : PickCategory(p, t, c)
         \/ \E r \in RuleIds \cup {0}, c \in Categories \cup {None} : CheckRule(p, r, c)
         \/ \E c \in Categories : CountUses(p, c)
         \/ \E a \in AccountIds \cup {0}, n \in Names : CheckName(p, a, n)
         \/ \E a \in AccountIds : CountMonth(p, a)
  PROVE  BooksInv'
<1> USE DEF BooksInv
<1>1. ASSUME NEW u \in Uploads, ResolveUpload(p, u)
      PROVE  BooksInv'
  <2> DEFINE next == [Idle EXCEPT !.at = "confirming", !.it = u]
  <2>4. 0 \in Nat /\ u \in OpIts /\ "confirming" \in OpStages
    BY BooksAssumption DEF OpIts, OpStages, TransactionIds, ImportIds, RuleIds, AccountIds
  <2>1. next \in OpRecords
    BY <2>4 DEF Idle, OpRecords, OpStages, OpIts
  <2>2. Meaning(next)
    BY <1>1 DEF Idle, Meaning, ResolveUpload
  <2>3. Begins(p, "upload", next) /\ UNCHANGED <<tables, undisturbed>>
    BY <1>1 DEF ResolveUpload
  <2> HIDE DEF next
  <2> QED
    BY <2>1, <2>2, <2>3, BeginsKeeps, OpOnly
<1>2. ASSUME NEW i \in ImportIds, ShowImport(p, i)
      PROVE  BooksInv'
  <2> DEFINE next == [Idle EXCEPT !.at = "undoing", !.id = i]
  <2>4. i \in Nat /\ None \in OpIts /\ "undoing" \in OpStages
    BY BooksAssumption DEF OpIts, OpStages, TransactionIds, ImportIds, RuleIds, AccountIds
  <2>1. next \in OpRecords
    BY <2>4 DEF Idle, OpRecords, OpStages, OpIts
  <2>2. Meaning(next)
    BY <1>2 DEF Idle, Meaning, ShowImport
  <2>3. Begins(p, "undo", next) /\ UNCHANGED <<tables, undisturbed>>
    BY <1>2 DEF ShowImport
  <2> HIDE DEF next
  <2> QED
    BY <2>1, <2>2, <2>3, BeginsKeeps, OpOnly
<1>3. ASSUME NEW t \in TransactionIds, NEW c \in Categories, PickCategory(p, t, c)
      PROVE  BooksInv'
  <2> DEFINE next == [Idle EXCEPT !.at = "deciding", !.id = t, !.it = c]
  <2>4. t \in Nat /\ c \in OpIts /\ "deciding" \in OpStages
    BY BooksAssumption DEF OpIts, OpStages, TransactionIds, ImportIds, RuleIds, AccountIds
  <2>1. next \in OpRecords
    BY <2>4 DEF Idle, OpRecords, OpStages, OpIts
  <2>2. Meaning(next)
    BY <1>3 DEF Idle, Meaning, PickCategory
  <2>3. Begins(p, "review", next) /\ UNCHANGED <<tables, undisturbed>>
    BY <1>3 DEF PickCategory
  <2> HIDE DEF next
  <2> QED
    BY <2>1, <2>2, <2>3, BeginsKeeps, OpOnly
<1>4. ASSUME NEW r \in RuleIds \cup {0}, NEW c \in Categories \cup {None}, CheckRule(p, r, c)
      PROVE  BooksInv'
  <2> DEFINE next == [Idle EXCEPT !.at = "ruling", !.id = r, !.it = c]
  <2>4. r \in Nat /\ c \in OpIts /\ "ruling" \in OpStages
    BY BooksAssumption DEF OpIts, OpStages, TransactionIds, ImportIds, RuleIds, AccountIds
  <2>1. next \in OpRecords
    BY <2>4 DEF Idle, OpRecords, OpStages, OpIts
  <2>2. Meaning(next)
    <3>1. c = None => r \in RuleIds
      BY <1>4 DEF CheckRule
    <3>2. next.at = "ruling" /\ next.id = r /\ next.it = c
      BY DEF Idle
    <3>3. (r \in RuleIds /\ c = None) \/ (r \in RuleIds \cup {0} /\ c \in Categories)
      BY <1>4, <3>1
    <3> HIDE DEF next
    <3> QED
      BY <3>2, <3>3 DEF Meaning
  <2>3. Begins(p, "rules", next) /\ UNCHANGED <<tables, undisturbed>>
    BY <1>4 DEF CheckRule
  <2> HIDE DEF next
  <2> QED
    BY <2>1, <2>2, <2>3, BeginsKeeps, OpOnly
<1>5. ASSUME NEW c \in Categories, CountUses(p, c)
      PROVE  BooksInv'
  <2> DEFINE next == [Idle EXCEPT !.at = "retiring", !.it = c]
  <2>4. 0 \in Nat /\ c \in OpIts /\ "retiring" \in OpStages
    BY BooksAssumption DEF OpIts, OpStages, TransactionIds, ImportIds, RuleIds, AccountIds
  <2>1. next \in OpRecords
    BY <2>4 DEF Idle, OpRecords, OpStages, OpIts
  <2>2. Meaning(next)
    BY <1>5 DEF Idle, Meaning, CountUses
  <2>3. Begins(p, "chart", next) /\ UNCHANGED <<tables, undisturbed>>
    BY <1>5 DEF CountUses
  <2> HIDE DEF next
  <2> QED
    BY <2>1, <2>2, <2>3, BeginsKeeps, OpOnly
<1>6. ASSUME NEW a \in AccountIds \cup {0}, NEW n \in Names, CheckName(p, a, n)
      PROVE  BooksInv'
  <2> DEFINE next == [Idle EXCEPT !.at = "naming", !.id = a, !.it = n]
  <2>4. a \in Nat /\ n \in OpIts /\ "naming" \in OpStages
    BY BooksAssumption DEF OpIts, OpStages, TransactionIds, ImportIds, RuleIds, AccountIds
  <2>1. next \in OpRecords
    BY <2>4 DEF Idle, OpRecords, OpStages, OpIts
  <2>2. Meaning(next)
    BY <1>6 DEF Idle, Meaning, CheckName
  <2>3. Begins(p, "accounts", next) /\ UNCHANGED <<tables, undisturbed>>
    BY <1>6 DEF CheckName
  <2> HIDE DEF next
  <2> QED
    BY <2>1, <2>2, <2>3, BeginsKeeps, OpOnly
<1>7. ASSUME NEW a \in AccountIds, CountMonth(p, a)
      PROVE  BooksInv'
  <2> DEFINE next == [Idle EXCEPT !.at = "balancing", !.id = a]
  <2>4. a \in Nat /\ None \in OpIts /\ "balancing" \in OpStages
    BY BooksAssumption DEF OpIts, OpStages, TransactionIds, ImportIds, RuleIds, AccountIds
  <2>1. next \in OpRecords
    BY <2>4 DEF Idle, OpRecords, OpStages, OpIts
  <2>2. Meaning(next)
    BY <1>7 DEF Idle, Meaning, CountMonth
  <2>3. Begins(p, "accounts", next) /\ UNCHANGED <<tables, undisturbed>>
    BY <1>7 DEF CountMonth
  <2> HIDE DEF next
  <2> QED
    BY <2>1, <2>2, <2>3, BeginsKeeps, OpOnly
<1> QED
  BY <1>1, <1>2, <1>3, <1>4, <1>5, <1>6, <1>7

(* ------------------- steps that leave the rows alone ------------------- *)

\* A write to the spool, the chart or the rules leaves the rows' tables alone.
LEMMA ElsewhereKeeps ==
  ASSUME BooksInv, OpsTyped', OpsMeant', Typed',
         UNCHANGED <<accounts, imports, transactions, reconciled, undisturbed>>
  PROVE  BooksInv'
  BY RowsStay DEF BooksInv

\* A rule made of its parts is a rule.
LEMMA RuleOfTyped ==
  ASSUME NEW pattern \in Patterns, NEW c \in Categories, NEW priority \in Priorities
  PROVE  RuleOf(pattern, c, priority) \in Rules
  BY DEF RuleOf, Rules

\* An upload is stored, purged or deleted.
LEMMA SpoolKeeps ==
  ASSUME BooksInv, NEW p \in Clerks,
         \/ \E u \in Uploads, f \in Files : Upload(p, u, f)
         \/ \E u \in Uploads : PurgeStale(u)
         \/ DeleteUpload(p)
  PROVE  BooksInv'
<1> USE DEF BooksInv
<1>1. ASSUME NEW u \in Uploads, NEW f \in Files, Upload(p, u, f)
      PROVE  BooksInv'
  <2>1. Typed'
    BY <1>1 DEF Typed, Upload
  <2> QED
    BY <1>1, <2>1, AtOnceKeeps, ElsewhereKeeps DEF Upload
<1>2. ASSUME NEW u \in Uploads, PurgeStale(u)
      PROVE  BooksInv'
  <2>1. Typed'
    BY <1>2 DEF Typed, PurgeStale
  <2>2. OpsTyped' /\ OpsMeant'
    BY <1>2 DEF OpsTyped, OpsMeant, PurgeStale
  <2> QED
    BY <1>2, <2>1, <2>2, ElsewhereKeeps DEF PurgeStale
<1>3. CASE DeleteUpload(p)
  <2>1. Typed'
    BY <1>3 DEF Typed, DeleteUpload
  <2> QED
    BY <1>3, <2>1, DoneKeeps, ElsewhereKeeps DEF DeleteUpload
<1> QED
  BY <1>1, <1>2, <1>3

\* A category is added or retired.
LEMMA ChartKeeps ==
  ASSUME BooksInv, NEW p \in Clerks, (\E c \in Categories : AddCategory(p, c)) \/ RetireCategory(p)
  PROVE  BooksInv'
<1> USE DEF BooksInv
<1>1. ASSUME NEW c \in Categories, AddCategory(p, c)
      PROVE  BooksInv'
  <2>1. Typed'
    BY <1>1 DEF Typed, AddCategory
  <2> QED
    BY <1>1, <2>1, AtOnceKeeps, ElsewhereKeeps DEF AddCategory
<1>2. CASE RetireCategory(p)
  <2>1. Typed'
    BY <1>2 DEF Typed, RetireCategory
  <2> QED
    BY <1>2, <2>1, DoneKeeps, ElsewhereKeeps DEF RetireCategory
<1> QED
  BY <1>1, <1>2

\* A rule is added, changed or deactivated.
LEMMA RulesKeep ==
  ASSUME BooksInv, NEW p \in Clerks,
         \/ \E pattern \in Patterns, priority \in Priorities :
              AddRule(p, pattern, priority) \/ UpdateRule(p, pattern, priority)
         \/ \E r \in RuleIds : DeactivateRule(p, r)
  PROVE  BooksInv'
<1> USE DEF BooksInv
<1>1. op[p].at = "ruling" =>
        (op[p].id \in RuleIds /\ op[p].it = None) \/ (op[p].id \in RuleIds \cup {0} /\ op[p].it \in Categories)
  BY DEF OpsMeant, Meaning
<1>2. 0 \notin RuleIds
  BY BooksAssumption DEF RuleIds
<1>3. ASSUME NEW pattern \in Patterns, NEW priority \in Priorities, AddRule(p, pattern, priority)
      PROVE  BooksInv'
  <2>1. op[p].it \in Categories
    BY <1>1, <1>2, <1>3 DEF AddRule
  <2>2. RuleOf(pattern, op[p].it, priority) \in Rules
    BY <2>1, RuleOfTyped
  <2>3. Typed'
    BY <1>3, <2>2 DEF Typed, AddRule, AddsRule
  <2> QED
    BY <1>3, <2>3, DoneKeeps, ElsewhereKeeps DEF AddRule
<1>4. ASSUME NEW pattern \in Patterns, NEW priority \in Priorities, UpdateRule(p, pattern, priority)
      PROVE  BooksInv'
  <2> DEFINE r == op[p].id
             c == IF op[p].it = None THEN rules[r].category ELSE op[p].it
             rule == [RuleOf(pattern, c, priority) EXCEPT !.active = rules[r].active]
  <2>1. r \in RuleIds
    BY <1>1, <1>4 DEF UpdateRule
  <2>2. ASSUME rules[r] # None
        PROVE  rule \in Rules
    <3>1. rules[r] \in Rules
      BY <2>1, <2>2 DEF Typed
    <3>2. rules[r].category \in Categories /\ rules[r].active \in BOOLEAN
      BY <3>1 DEF Rules
    <3>3. c \in Categories
      BY <1>1, <1>4, <3>2 DEF UpdateRule
    <3>4. rule = [pattern |-> pattern, category |-> c, priority |-> priority, active |-> rules[r].active]
      BY DEF RuleOf
    <3> HIDE DEF c, rule
    <3> QED
      BY <1>4, <3>2, <3>3, <3>4 DEF Rules
  <2>3. rules' = IF rules[r] = None THEN rules ELSE [rules EXCEPT ![r] = rule]
    BY <1>4 DEF UpdateRule
  <2>4. UNCHANGED <<accounts, chart, imports, transactions, reconciled, spool, undisturbed>> /\ Done(p)
    BY <1>4 DEF UpdateRule
  <2> HIDE DEF r, c, rule
  <2>5. Typed'
    BY <2>1, <2>2, <2>3, <2>4 DEF Typed
  <2> QED
    BY <2>4, <2>5, DoneKeeps, ElsewhereKeeps
<1>5. ASSUME NEW r \in RuleIds, DeactivateRule(p, r)
      PROVE  BooksInv'
  <2>1. rules[r] \in Rules
    BY <1>5 DEF Typed, DeactivateRule, Used
  <2>2. [rules[r] EXCEPT !.active = FALSE] \in Rules
    BY <2>1 DEF Rules
  <2>3. Typed'
    BY <1>5, <2>2 DEF Typed, DeactivateRule
  <2> QED
    BY <1>5, <2>3, AtOnceKeeps, ElsewhereKeeps DEF DeactivateRule
<1> QED
  BY <1>3, <1>4, <1>5

\* An account is added or renamed, a month reconciled: no account goes.
LEMMA NamedKeep ==
  ASSUME BooksInv, NEW p \in Clerks, AddAccount(p) \/ RenameAccount(p) \/ Reconcile(p)
  PROVE  BooksInv'
<1> USE DEF BooksInv
<1>1. op[p].at = "naming" => op[p].it \in Names
  BY DEF OpsMeant, Meaning
<1>2. ASSUME NEW a \in AccountIds, op[p].at = "naming", accounts' = [accounts EXCEPT ![a] = op[p].it],
             UNCHANGED <<chart, imports, transactions, rules, reconciled, spool, undisturbed>>
      PROVE  Typed' /\ RowsInv'
  <2>1. Typed'
    BY <1>1, <1>2 DEF Typed
  <2>2. op[p].it # None
    BY <1>1, <1>2, NoneAssumption
  <2>3. Used(accounts) \subseteq Used(accounts')
    BY <1>2, <2>2 DEF Typed, Used
  <2>4. Referenced'
    BY <1>2, <2>3 DEF RowsInv, Referenced
  <2>5. NoRowTwice' /\ OneRecordPerFile' /\ Backed' /\ NothingForgotten' /\ Filled'
    BY <1>2 DEF RowsInv, NoRowTwice, OneRecordPerFile, Backed, NothingForgotten, Filled
  <2> QED
    BY <2>1, <2>4, <2>5 DEF RowsInv
<1>3. CASE AddAccount(p)
  BY <1>2, <1>3, DoneKeeps DEF AddAccount
<1>4. CASE RenameAccount(p)
  <2>1. op[p].id \in AccountIds
    BY <1>4 DEF RenameAccount, Used, Typed
  <2> QED
    BY <1>2, <1>4, <2>1, DoneKeeps DEF RenameAccount
<1>5. CASE Reconcile(p)
  <2>1. op[p].id \in AccountIds
    BY <1>5 DEF Reconcile, OpsMeant, Meaning
  <2>2. Typed'
    BY <1>5 DEF Typed, Reconcile
  <2>3. Referenced'
    BY <1>5, <2>1 DEF Typed, RowsInv, Referenced, Reconcile, Used
  <2>4. NoRowTwice' /\ OneRecordPerFile' /\ Backed' /\ NothingForgotten' /\ Filled'
    BY <1>5 DEF RowsInv, NoRowTwice, OneRecordPerFile, Backed, NothingForgotten, Filled, Reconcile
  <2> QED
    BY <1>5, <2>2, <2>3, <2>4, DoneKeeps DEF RowsInv, Reconcile
<1> QED
  BY <1>3, <1>4, <1>5

\* An undisturbed import's rows are in its account: one with transactions is
\* not deleted.
LEMMA DeleteAccountKeeps ==
  ASSUME BooksInv, NEW p \in Clerks, NEW a \in AccountIds, DeleteAccount(p, a)
  PROVE  BooksInv'
<1> USE DEF BooksInv
<1> DEFINE Kept(i) == IF imports[i] # None /\ imports[i].account = a
                      THEN [imports[i] EXCEPT !.account = None] ELSE imports[i]
<1>1. /\ AtOnce(p, "accounts")
      /\ \A t \in Used(transactions) : transactions[t].account # a
      /\ reconciled' = reconciled \ {a}
      /\ imports' = [i \in ImportIds |-> Kept(i)]
      /\ accounts' = [accounts EXCEPT ![a] = None]
      /\ UNCHANGED <<chart, transactions, rules, spool, undisturbed>>
  BY DEF DeleteAccount
<1>2. \A i \in ImportIds : imports[i] # None =>
        /\ imports[i] \in ImportRows /\ Kept(i) \in ImportRows
        /\ Kept(i).file = imports[i].file
        /\ Kept(i).account = IF imports[i].account = a THEN None ELSE imports[i].account
  <2> TAKE i \in ImportIds
  <2> HAVE imports[i] # None
  <2>1. imports[i] \in ImportRows
    BY DEF Typed
  <2> QED
    BY <2>1 DEF ImportRows
<1>3. \A i \in ImportIds : imports[i] = None => Kept(i) = None
  OBVIOUS
<1>4. \A i \in ImportIds : imports[i] # None => Kept(i) # None
  BY <1>2, NoneAssumption
<1> HIDE DEF Kept
<1>5. Typed'
  BY <1>1, <1>2, <1>3 DEF Typed
<1>6. Used(imports') = Used(imports) /\ Used(accounts') = Used(accounts) \ {a}
  BY <1>1, <1>3, <1>4 DEF Typed, Used
<1>11. \A i \in Used(imports) : i \in ImportIds /\ imports[i] # None /\ imports'[i] = Kept(i)
  BY <1>1 DEF Typed, Used
<1>7. Referenced'
  <2>1. reconciled' \subseteq Used(accounts')
    BY <1>1, <1>6 DEF RowsInv, Referenced
  <2>2. \A t \in Used(transactions') :
          transactions'[t].account \in Used(accounts') /\ transactions'[t].import \in Used(imports')
    BY <1>1, <1>6 DEF RowsInv, Referenced
  <2>3. \A i \in Used(imports') : imports'[i].account \in Used(accounts') \cup {None}
    BY <1>2, <1>6, <1>11 DEF RowsInv, Referenced
  <2> QED
    BY <2>1, <2>2, <2>3 DEF Referenced
<1>8. OneRecordPerFile'
  BY <1>2, <1>6, <1>11 DEF RowsInv, OneRecordPerFile
<1>9. Backed'
  <2>2. \A i \in Used(imports') : RowsOf[imports'[i].file] # {}
    BY <1>2, <1>6, <1>11 DEF RowsInv, Backed
  <2>3. ASSUME NEW i \in undisturbed
        PROVE  imports'[i].account = imports[i].account /\ imports'[i].file = imports[i].file
    <3>1. i \in Used(imports)
      BY DEF RowsInv, Backed
    <3>2. PICK key \in RowsOf[imports[i].file] : TRUE
      BY <3>1 DEF RowsInv, Backed
    <3>3. imports[i].account # a
      BY <1>1, <3>1, <3>2 DEF RowsInv, Backed
    <3> QED
      BY <1>2, <1>11, <3>1, <3>3
  <2> QED
    BY <1>1, <1>6, <2>2, <2>3 DEF RowsInv, Backed
<1>10. NoRowTwice' /\ NothingForgotten' /\ Filled'
  BY <1>1 DEF RowsInv, NoRowTwice, NothingForgotten, Filled
<1> QED
  BY <1>1, <1>5, <1>7, <1>8, <1>9, <1>10, AtOnceKeeps DEF RowsInv

(* ------------------- steps that change a row in place ------------------- *)

\* A row changed in place is a row.
LEMMA TouchedTyped ==
  ASSUME Typed, NEW id \in TransactionIds, NEW row, transactions[id] # None => row \in Rows,
         transactions' = Touched(id, row)
  PROVE  transactions' \in [TransactionIds -> Rows \cup {None}]
  BY DEF Typed, Touched, Used

\* A pass on its own files a row.
LEMMA FilesKeep ==
  ASSUME BooksInv, NEW p \in Clerks, NEW t \in TransactionIds, NEW key \in Keys, NEW c \in Categories,
         FileNext(p, t, key, c)
  PROVE  BooksInv'
<1> USE DEF BooksInv
<1> DEFINE row == Filed(transactions[t], c)
           next == [op[p] EXCEPT !.todo = @ \ {<<t, key>>}]
<1>1. Goes(p, next) /\ op[p].at = "filing"
      /\ UNCHANGED <<accounts, chart, imports, rules, reconciled, spool, undisturbed>>
  BY DEF FileNext
<1>2. transactions' = Touched(t, row)
  BY DEF FileNext, Touched, Used, Typed
<1>3. ASSUME transactions[t] # None
      PROVE  /\ row \in Rows /\ row.account = transactions[t].account
             /\ row.key = transactions[t].key /\ row.import = transactions[t].import
             /\ row.category = c /\ row.by = "rule"
  <2>1. transactions[t] \in Rows
    BY <1>3 DEF Typed
  <2> QED
    BY <2>1 DEF Rows, Filed
<1>4. op[p] \in OpRecords
  BY DEF OpsTyped
<1>5. next \in OpRecords /\ next.at = "filing"
  BY <1>1, <1>4 DEF OpRecords
<1>6. Meaning(next)
  BY <1>5 DEF Meaning
<1> HIDE DEF row, next
<1>7. Typed'
  BY <1>1, <1>2, <1>3, TouchedTyped DEF Typed
<1>8. RowsInv'
  BY <1>1, <1>2, <1>3, <1>7, RowChanges, BooksAssumption
<1> QED
  BY <1>1, <1>5, <1>6, <1>7, <1>8, GoesKeeps

\* A step by a person on a row, and perhaps the rules.
LEMMA DecisionKeeps ==
  ASSUME BooksInv, OpsTyped', OpsMeant', NEW t \in TransactionIds, NEW row,
         transactions[t] # None =>
           /\ row \in Rows /\ row.account = transactions[t].account
           /\ row.key = transactions[t].key /\ row.import = transactions[t].import
           /\ row.category = None /\ ~row.flagged => row.by = "waved"
           /\ row.by \in {"person", "rule"} => row.category # None,
         transactions' = Touched(t, row),
         rules' \in [RuleIds -> Rules \cup {None}],
         UNCHANGED <<accounts, chart, imports, reconciled, spool, undisturbed>>
  PROVE  BooksInv'
<1> USE DEF BooksInv
<1>1. transactions' \in [TransactionIds -> Rows \cup {None}]
  BY TouchedTyped
<1>2. Typed'
  BY <1>1 DEF Typed
<1>3. RowsInv'
  BY <1>2, RowChanges
<1> QED
  BY <1>2, <1>3

\* The review's decision, with a rule or without.
LEMMA ReviewKeeps ==
  ASSUME BooksInv, NEW p \in Clerks, ApplyReview(p)
  PROVE  BooksInv'
<1> USE DEF BooksInv
<1> DEFINE t == op[p].id
           c == op[p].it
           row == [transactions[t] EXCEPT !.category = c, !.flagged = FALSE, !.by = "person"]
           next(r) == [Idle EXCEPT !.at = "decided", !.id = t, !.it = r]
<1>1. t \in TransactionIds /\ c \in Categories
  BY DEF ApplyReview, OpsMeant, Meaning
<1>2. ASSUME transactions[t] # None
      PROVE  /\ row \in Rows /\ row.account = transactions[t].account
             /\ row.key = transactions[t].key /\ row.import = transactions[t].import
             /\ row.category = c /\ row.flagged = FALSE /\ row.by = "person"
  <2>1. transactions[t] \in Rows
    BY <1>1, <1>2 DEF Typed
  <2> QED
    BY <1>1, <2>1 DEF Rows
<1>3. /\ transactions' = Touched(t, row)
      /\ UNCHANGED <<accounts, chart, imports, reconciled, spool, undisturbed>>
      /\ \/ rules' = rules /\ Goes(p, next(0))
         \/ \E r \in RuleIds, pattern \in Patterns : AddsRule(r, RuleOf(pattern, c, 0)) /\ Goes(p, next(r))
  BY DEF ApplyReview
<1>4. ASSUME NEW r \in RuleIds \cup {0}
      PROVE  next(r) \in OpRecords /\ Meaning(next(r))
  <2>1. t \in Nat /\ r \in OpIts
    BY <1>1, BooksAssumption DEF TransactionIds, OpIts
  <2>2. next(r) \in OpRecords
    BY <2>1 DEF Idle, OpRecords, OpStages, OpIts
  <2>3. next(r).at = "decided" /\ next(r).id = t /\ next(r).it = r
    BY DEF Idle
  <2>4. Meaning(next(r))
    <3> HIDE DEF next
    <3> QED
      BY <1>1, <1>4, <2>3 DEF Meaning
  <2> QED
    BY <2>2, <2>4
<1> HIDE DEF row, next
<1>5. OpsTyped' /\ OpsMeant'
  BY <1>3, <1>4, GoesKeeps
<1>6. \A pattern \in Patterns : RuleOf(pattern, c, 0) \in Rules
  BY <1>1, RuleOfTyped, BooksAssumption
<1>7. rules' \in [RuleIds -> Rules \cup {None}]
  BY <1>3, <1>6 DEF Typed, AddsRule
<1> HIDE DEF t, c
<1>8. transactions[t] # None =>
           /\ row \in Rows /\ row.account = transactions[t].account
           /\ row.key = transactions[t].key /\ row.import = transactions[t].import
           /\ row.category = None /\ ~row.flagged => row.by = "waved"
           /\ row.by \in {"person", "rule"} => row.category # None
  BY <1>1, <1>2, BooksAssumption
<1> QED
  BY <1>1, <1>3, <1>5, <1>7, <1>8, DecisionKeeps

\* The way back from it.
LEMMA UndoReviewKeeps ==
  ASSUME BooksInv, NEW p \in Clerks, UndoReview(p)
  PROVE  BooksInv'
<1> USE DEF BooksInv
<1> DEFINE t == op[p].id
           r == op[p].it
           row == [transactions[t] EXCEPT !.category = None, !.flagged = TRUE, !.by = "no one"]
<1>1. t \in TransactionIds /\ r \in RuleIds \cup {0}
  BY DEF UndoReview, OpsMeant, Meaning
<1>2. ASSUME transactions[t] # None
      PROVE  /\ row \in Rows /\ row.account = transactions[t].account
             /\ row.key = transactions[t].key /\ row.import = transactions[t].import
             /\ row.flagged /\ row.by = "no one"
  <2>1. transactions[t] \in Rows
    BY <1>1, <1>2 DEF Typed
  <2> QED
    BY <1>1, <2>1 DEF Rows
<1>3. /\ transactions' = Touched(t, row) /\ Done(p)
      /\ UNCHANGED <<accounts, chart, imports, reconciled, spool, undisturbed>>
      /\ rules' = rules \/ rules' = [rules EXCEPT ![r] = None]
  BY DEF UndoReview
<1> HIDE DEF row, t, r
<1>4. rules' \in [RuleIds -> Rules \cup {None}]
  BY <1>1, <1>3 DEF Typed
<1>5. OpsTyped' /\ OpsMeant'
  BY <1>3, DoneKeeps
<1>6. transactions[t] # None => (row.by \in {"person", "rule"} => row.category # None)
  BY <1>2
<1> QED
  BY <1>1, <1>2, <1>3, <1>4, <1>5, <1>6, DecisionKeeps

\* An edit, and a flag set or cleared by hand.
LEMMA EditKeeps ==
  ASSUME BooksInv, NEW p \in Clerks,
         EditCategory(p) \/ \E t \in TransactionIds, flag \in BOOLEAN : SetFlag(p, t, flag)
  PROVE  BooksInv'
<1> USE DEF BooksInv
<1>1. CASE EditCategory(p)
  <2> DEFINE t == op[p].id
             row == [transactions[t] EXCEPT !.category = op[p].it, !.by = "person"]
  <2>1. t \in TransactionIds /\ op[p].it \in Categories
    BY <1>1 DEF EditCategory, OpsMeant, Meaning
  <2>2. ASSUME transactions[t] # None
        PROVE  /\ row \in Rows /\ row.account = transactions[t].account
               /\ row.key = transactions[t].key /\ row.import = transactions[t].import
               /\ row.category # None
    <3>1. transactions[t] \in Rows
      BY <2>1, <2>2 DEF Typed
    <3> QED
      BY <2>1, <3>1, BooksAssumption DEF Rows
  <2>3. /\ transactions' = Touched(t, row) /\ Done(p)
        /\ UNCHANGED <<accounts, chart, imports, rules, reconciled, spool, undisturbed>>
    BY <1>1 DEF EditCategory
  <2>4. rules' \in [RuleIds -> Rules \cup {None}]
    BY <2>3 DEF Typed
  <2> HIDE DEF row, t
  <2>5. OpsTyped' /\ OpsMeant'
    BY <2>3, DoneKeeps
  <2> QED
    BY <2>1, <2>2, <2>3, <2>4, <2>5, DecisionKeeps
<1>2. ASSUME NEW t \in TransactionIds, NEW flag \in BOOLEAN, SetFlag(p, t, flag)
      PROVE  BooksInv'
  <2> DEFINE old == transactions[t]
             by == IF old.category # None THEN old.by ELSE IF flag THEN "no one" ELSE "waved"
             row == [old EXCEPT !.flagged = flag, !.by = by]
  <2>1. /\ AtOnce(p, "review") /\ old # None
        /\ transactions' = [transactions EXCEPT ![t].flagged = flag,
             ![t].by = IF transactions[t].category # None THEN @ ELSE IF flag THEN "no one" ELSE "waved"]
        /\ UNCHANGED <<accounts, chart, imports, rules, reconciled, spool, undisturbed>>
    BY <1>2 DEF SetFlag
  <2>2. old \in Rows
    BY <2>1 DEF Typed
  <2>3. transactions' = Touched(t, row)
    BY <2>1, <2>2 DEF Touched, Used, Typed, Rows
  <2>4. old.by \in {"no one", "waved", "rule", "person"}
    BY <2>2 DEF Rows
  <2>5. /\ by \in {"no one", "waved", "rule", "person"}
        /\ old.category = None => by = IF flag THEN "no one" ELSE "waved"
    BY <2>4
  <2>6. /\ row.account = old.account /\ row.key = old.key /\ row.import = old.import
        /\ row.category = old.category /\ row.flagged = flag /\ row.by = by
    BY <2>2 DEF Rows
  <2> HIDE DEF by
  <2>7. row \in Rows
    BY <1>2, <2>2, <2>5 DEF Rows
  <2>8. rules' \in [RuleIds -> Rules \cup {None}]
    BY <2>1 DEF Typed
  <2>9. OpsTyped' /\ OpsMeant'
    BY <2>1, AtOnceKeeps
  <2> HIDE DEF row
  <2>10. /\ row.category = None /\ ~row.flagged => row.by = "waved"
         /\ row.by \in {"person", "rule"} => row.category # None
    BY <2>5, <2>6
  <2> QED
    BY <2>1, <2>3, <2>6, <2>7, <2>8, <2>9, <2>10, DecisionKeeps
<1> QED
  BY <1>1, <1>2

(* ---------------------------- imports and undo -------------------------- *)

\* What filing a row leaves as it is.
Carries(row, old) ==
  /\ row = None <=> old = None
  /\ old # None =>
       /\ row \in Rows
       /\ row.account = old.account /\ row.key = old.key /\ row.import = old.import
       /\ row.category = None => old.category = None /\ row.flagged = old.flagged /\ row.by = old.by
       /\ row.by = "person" => row.category = old.category /\ old.by = "person"

\* A rule's filing leaves the row's account, key and import.
LEMMA FiledCarries ==
  ASSUME NEW row \in Rows, NEW c \in Categories
  PROVE  Carries(Filed(row, c), row) /\ Filed(row, c).category = c
<1>1. /\ Filed(row, c) \in Rows
      /\ Filed(row, c).account = row.account /\ Filed(row, c).key = row.key
      /\ Filed(row, c).import = row.import /\ Filed(row, c).category = c /\ Filed(row, c).by = "rule"
  BY DEF Rows, Filed
<1>2. Filed(row, c) # None /\ row # None /\ c # None
  BY <1>1, NoneAssumption, BooksAssumption
<1> QED
  BY <1>1, <1>2 DEF Carries

\* The rows an import inserts: the file's keys the account lacks, one each, in
\* ids that were free.
LEMMA InsertedRows ==
  ASSUME Typed, NEW f \in Files, NEW a \in AccountIds, NEW i \in ImportIds,
         NEW last \in 0..MaxTransactions, IsLast(transactions, last)
  PROVE  LET new == NewRows(a, f)
             keys == SetToSeq(new)
             n == Cardinality(new)
             table == Inserted(a, i, new, last)
         IN  /\ n \in Nat /\ keys \in [1..n -> Keys]
             /\ \A k \in 1..n : ~IsDuplicate(a, keys[k])
             /\ \A k, l \in 1..n : keys[k] = keys[l] => k = l
             /\ \A key \in RowsOf[f] : IsDuplicate(a, key) \/ \E k \in 1..n : keys[k] = key
             /\ table \in [TransactionIds -> Rows \cup {None}]
             /\ \A t \in TransactionIds :
                  /\ t - last \in 1..n => table[t] = Row(a, i, keys[t - last]) /\ transactions[t] = None
                  /\ t - last \notin 1..n => table[t] = transactions[t]
<1> DEFINE new == NewRows(a, f)
           keys == SetToSeq(new)
           n == Cardinality(new)
           table == Inserted(a, i, new, last)
<1>1. new \subseteq RowsOf[f] /\ RowsOf[f] \subseteq Keys /\ IsFiniteSet(RowsOf[f])
  BY BooksAssumption DEF NewRows
<1>2. IsFiniteSet(new)
  BY <1>1, FS_Subset
<1>3. /\ n \in Nat /\ keys \in [1..n -> new]
      /\ \A k, l \in 1..n : keys[k] = keys[l] => k = l
      /\ \A key \in new : \E k \in 1..n : keys[k] = key
  BY <1>2, SeqOfSet
<1>4. \A key \in new : ~IsDuplicate(a, key)
  BY DEF NewRows
<1>5. \A key \in RowsOf[f] : IsDuplicate(a, key) \/ key \in new
  BY DEF NewRows
<1>6. table = [t \in TransactionIds |->
         IF t - last \in 1..n THEN Row(a, i, keys[t - last]) ELSE transactions[t]]
  BY DEF Inserted
<1> HIDE DEF new, keys, n, table
<1>7. keys \in [1..n -> Keys]
  BY <1>1, <1>3
<1>8. \A k \in 1..n : Row(a, i, keys[k]) \in Rows
  <2> TAKE k \in 1..n
  <2>1. keys[k] \in Keys
    BY <1>7
  <2> QED
    BY <2>1 DEF Row, Rows
<1>9. table \in [TransactionIds -> Rows \cup {None}]
  BY <1>6, <1>8 DEF Typed
<1>10. ASSUME NEW t \in TransactionIds, t - last \in 1..n
       PROVE  transactions[t] = None
  <2>1. t \in Int /\ last \in Int
    BY BooksAssumption DEF TransactionIds
  <2>2. ~(t <= last)
    BY <1>3, <1>10, <2>1
  <2> QED
    BY <2>2 DEF Typed, IsLast, Used
<1>11. \A t \in TransactionIds :
         /\ t - last \in 1..n => table[t] = Row(a, i, keys[t - last]) /\ transactions[t] = None
         /\ t - last \notin 1..n => table[t] = transactions[t]
  BY <1>6, <1>10
<1>12. \A k \in 1..n : ~IsDuplicate(a, keys[k])
  BY <1>3, <1>4
<1>13. \A key \in RowsOf[f] : IsDuplicate(a, key) \/ \E k \in 1..n : keys[k] = key
  BY <1>3, <1>5
<1> QED
  BY <1>3, <1>7, <1>9, <1>11, <1>12, <1>13 DEF new, keys, n, table

\* A payroll export and the pass file rows, and do nothing else to them.
LEMMA PassCarries ==
  ASSUME NEW table \in [TransactionIds -> Rows \cup {None}], NEW f \in Files, NEW a \in AccountIds,
         NEW filed,
         LET gusto == PayrollFiled(table, a, f)
         IN  /\ filed \in [Fileable(gusto) -> Categories]
             /\ transactions' = [t \in TransactionIds |->
                  IF t \in Fileable(gusto) THEN Filed(gusto[t], filed[t]) ELSE gusto[t]]
  PROVE  /\ transactions' \in [TransactionIds -> Rows \cup {None}]
         /\ \A t \in TransactionIds : Carries(transactions'[t], table[t])
<1> DEFINE gusto == PayrollFiled(table, a, f)
<1>1. ASSUME NEW t \in TransactionIds
      PROVE  Carries(gusto[t], table[t]) /\ gusto[t] \in Rows \cup {None}
  <2>1. CASE gusto[t] = table[t]
    <3>1. table[t] # None => table[t] \in Rows
      OBVIOUS
    <3> QED
      BY <2>1, <3>1 DEF Carries
  <2>2. CASE gusto[t] # table[t]
    <3>1. /\ gusto[t] = Filed(table[t], Payroll[table[t].key])
          /\ table[t] # None /\ table[t].key \in RowsOf[f] /\ Payroll[table[t].key] # None
      BY <2>2 DEF PayrollFiled
    <3>2. table[t] \in Rows
      BY <3>1
    <3>3. Payroll[table[t].key] \in Categories
      BY <3>1, <3>2, BooksAssumption DEF Rows
    <3>4. Carries(gusto[t], table[t])
      BY <3>1, <3>2, <3>3, FiledCarries
    <3> QED
      BY <3>1, <3>4 DEF Carries
  <2> QED
    BY <2>1, <2>2
<1>2. gusto \in [TransactionIds -> Rows \cup {None}]
  <2>1. gusto = [t \in TransactionIds |-> gusto[t]]
    BY DEF PayrollFiled
  <2> HIDE DEF gusto
  <2> QED
    BY <1>1, <2>1
<1>3. /\ filed \in [Fileable(gusto) -> Categories]
      /\ transactions' = [t \in TransactionIds |->
           IF t \in Fileable(gusto) THEN Filed(gusto[t], filed[t]) ELSE gusto[t]]
  OBVIOUS
<1> HIDE DEF gusto
<1>4. ASSUME NEW t \in TransactionIds
      PROVE  Carries(transactions'[t], gusto[t]) /\ transactions'[t] \in Rows \cup {None}
  <2>1. CASE t \in Fileable(gusto)
    <3>1. gusto[t] \in Rows /\ filed[t] \in Categories
      BY <1>2, <1>3, <2>1 DEF Fileable, Used
    <3>2. transactions'[t] = Filed(gusto[t], filed[t]) /\ gusto[t] # None
      BY <1>3, <2>1, <3>1, NoneAssumption
    <3>3. Carries(transactions'[t], gusto[t])
      BY <3>1, <3>2, FiledCarries
    <3> QED
      BY <3>2, <3>3 DEF Carries
  <2>2. CASE t \notin Fileable(gusto)
    <3>1. transactions'[t] = gusto[t] /\ (gusto[t] # None => gusto[t] \in Rows)
      BY <1>2, <1>3, <2>2
    <3> QED
      BY <3>1 DEF Carries
  <2> QED
    BY <2>1, <2>2
<1>5. \A t \in TransactionIds : Carries(transactions'[t], table[t])
  BY <1>1, <1>4 DEF Carries
<1>6. transactions' = [t \in TransactionIds |-> transactions'[t]]
  BY <1>3
<1> QED
  BY <1>4, <1>5, <1>6

\* An import committed: its rows, and a pass over the ledger.
LEMMA RecordedKeeps ==
  ASSUME Typed, RowsInv, NEW f \in Files, NEW a \in AccountIds, Recorded(f, a), UNCHANGED spool
  PROVE  Typed' /\ RowsInv'
<1>1. PICK lastImport \in 0..MaxImports, last \in 0..MaxTransactions :
         LET i == lastImport + 1
             new == NewRows(a, f)
             table == PayrollFiled(Inserted(a, i, new, last), a, f)
         IN  /\ IsLast(imports, lastImport) /\ IsLast(transactions, last)
             /\ i <= MaxImports /\ last + Cardinality(new) <= MaxTransactions
             /\ imports' = [imports EXCEPT ![i] = [file |-> f, account |-> a]]
             /\ \E filed \in [Fileable(table) -> Categories] :
                  /\ \A t \in Fileable(table) : filed[t] \in Filing(ActiveRules, table[t].key)
                  /\ transactions' = [t \in TransactionIds |->
                       IF t \in Fileable(table) THEN Filed(table[t], filed[t]) ELSE table[t]]
             /\ undisturbed' = undisturbed \cup {i}
  BY DEF Recorded
<1> DEFINE i == lastImport + 1
           new == NewRows(a, f)
           keys == SetToSeq(new)
           n == Cardinality(new)
           old == Inserted(a, i, new, last)
<1>2. /\ IsLast(imports, lastImport) /\ IsLast(transactions, last)
      /\ i \in ImportIds /\ last + n <= MaxTransactions
      /\ imports' = [imports EXCEPT ![i] = [file |-> f, account |-> a]]
      /\ undisturbed' = undisturbed \cup {i}
      /\ Named(a) /\ ~KnownFile(f) /\ RowsOf[f] # {}
      /\ UNCHANGED <<accounts, chart, rules, reconciled, spool>>
  <2>1. i <= MaxImports
    BY <1>1
  <2>2. i \in ImportIds
    <3>1. lastImport \in Nat /\ MaxImports \in Nat
      BY BooksAssumption
    <3> QED
      BY <2>1, <3>1 DEF ImportIds
  <2>3. /\ IsLast(imports, lastImport) /\ IsLast(transactions, last)
        /\ last + n <= MaxTransactions
        /\ imports' = [imports EXCEPT ![i] = [file |-> f, account |-> a]]
        /\ undisturbed' = undisturbed \cup {i}
    BY <1>1
  <2>4. /\ Named(a) /\ ~KnownFile(f) /\ RowsOf[f] # {}
        /\ UNCHANGED <<accounts, chart, rules, reconciled, spool>>
    BY DEF Recorded
  <2> QED
    BY <2>2, <2>3, <2>4
<1>3. /\ n \in Nat /\ keys \in [1..n -> Keys]
      /\ \A k \in 1..n : ~IsDuplicate(a, keys[k])
      /\ \A k, l \in 1..n : keys[k] = keys[l] => k = l
      /\ \A key \in RowsOf[f] : IsDuplicate(a, key) \/ \E k \in 1..n : keys[k] = key
      /\ old \in [TransactionIds -> Rows \cup {None}]
      /\ \A t \in TransactionIds :
           /\ t - last \in 1..n => old[t] = Row(a, i, keys[t - last]) /\ transactions[t] = None
           /\ t - last \notin 1..n => old[t] = transactions[t]
  BY <1>2, InsertedRows
<1>4. /\ transactions' \in [TransactionIds -> Rows \cup {None}]
      /\ \A t \in TransactionIds : Carries(transactions'[t], old[t])
  BY <1>1, <1>3, PassCarries
<1> HIDE DEF i, new, keys, n, old
<1>5. Typed'
  <2>1. [file |-> f, account |-> a] \in ImportRows
    BY DEF ImportRows
  <2> QED
    BY <1>2, <1>4, <2>1 DEF Typed
<1>6. /\ [file |-> f, account |-> a] # None
      /\ \A k \in 1..n : Row(a, i, keys[k]) # None
  <2>1. [file |-> f, account |-> a] \in ImportRows
    BY DEF ImportRows
  <2>2. ASSUME NEW k \in 1..n
        PROVE  Row(a, i, keys[k]) \in Rows
    <3>1. keys[k] \in Keys
      BY <1>3
    <3> QED
      BY <1>2, <3>1 DEF Row, Rows
  <2> QED
    BY <2>1, <2>2, NoneAssumption
<1>7. /\ i \notin Used(imports) /\ \A j \in Used(imports) : j < i
      /\ Used(imports') = Used(imports) \cup {i}
      /\ imports'[i].file = f /\ imports'[i].account = a
      /\ \A j \in Used(imports) : imports'[j] = imports[j]
  <2>1. \A j \in Used(imports) : j \in Int /\ j <= lastImport /\ j < i
    BY <1>2, BooksAssumption DEF IsLast, Used, Typed, ImportIds, i
  <2>2. i \notin Used(imports)
    BY <1>2, <2>1 DEF ImportIds
  <2> QED
    BY <1>2, <1>6, <2>1, <2>2 DEF Used, Typed
<1>8. \A t \in Used(transactions') : t \in TransactionIds /\ old[t] # None /\ Carries(transactions'[t], old[t])
  BY <1>4 DEF Used, Carries
<1>9. \A t \in Used(transactions) : t \in Used(transactions') /\ old[t] = transactions[t]
  BY <1>3, <1>4 DEF Used, Carries, Typed
<1> DEFINE New(t) == /\ t - last \in 1..n
                     /\ old[t].account = a /\ old[t].import = i /\ old[t].key = keys[t - last]
                     /\ old[t].flagged = TRUE /\ old[t].by = "no one"
<1>10. \A t \in Used(transactions') : (t \in Used(transactions) /\ old[t] = transactions[t]) \/ New(t)
  <2> TAKE t \in Used(transactions')
  <2>1. t \in TransactionIds /\ old[t] # None
    BY <1>8
  <2>2. CASE t - last \in 1..n
    <3>1. old[t] = Row(a, i, keys[t - last])
      BY <1>3, <2>1, <2>2
    <3>2. LET row == Row(a, i, keys[t - last])
          IN  /\ row.account = a /\ row.import = i /\ row.key = keys[t - last]
              /\ row.flagged = TRUE /\ row.by = "no one"
      BY DEF Row
    <3> QED
      BY <2>2, <3>1, <3>2
  <2>3. CASE t - last \notin 1..n
    BY <1>3, <2>1, <2>3 DEF Used, Typed
  <2> QED
    BY <2>2, <2>3
<1>11. Referenced'
  <2>1. \A t \in Used(transactions') :
          transactions'[t].account \in Used(accounts') /\ transactions'[t].import \in Used(imports')
    <3> TAKE t \in Used(transactions')
    <3>1. transactions'[t].account = old[t].account /\ transactions'[t].import = old[t].import
      BY <1>8 DEF Carries
    <3>2. CASE t \in Used(transactions) /\ old[t] = transactions[t]
      BY <1>2, <1>7, <3>1, <3>2 DEF RowsInv, Referenced
    <3>3. CASE New(t)
      BY <1>2, <1>7, <3>1, <3>3 DEF Named
    <3> QED
      BY <1>10, <3>2, <3>3
  <2>2. \A j \in Used(imports') : imports'[j].account \in Used(accounts') \cup {None}
    BY <1>2, <1>7 DEF RowsInv, Referenced, Named
  <2>3. reconciled' \subseteq Used(accounts')
    BY <1>2 DEF RowsInv, Referenced
  <2> QED
    BY <2>1, <2>2, <2>3 DEF Referenced
<1>12. NoRowTwice'
  <2> SUFFICES ASSUME NEW t \in Used(transactions'), NEW u \in Used(transactions'),
                      transactions'[t].account = transactions'[u].account,
                      transactions'[t].key = transactions'[u].key
               PROVE  t = u
    BY DEF NoRowTwice
  <2>1. old[t].account = old[u].account /\ old[t].key = old[u].key
    BY <1>8 DEF Carries
  <2>2. ASSUME NEW v \in Used(transactions), NEW k \in 1..n
        PROVE  transactions[v].account # a \/ transactions[v].key # keys[k]
    BY <1>3 DEF IsDuplicate
  <2>3. CASE t \in Used(transactions) /\ old[t] = transactions[t]
    <3>1. u \in Used(transactions) /\ old[u] = transactions[u]
      BY <1>10, <2>1, <2>2, <2>3
    <3> QED
      BY <2>1, <2>3, <3>1 DEF RowsInv, NoRowTwice
  <2>4. CASE New(t)
    <3>1. New(u)
      BY <1>10, <2>1, <2>2, <2>4
    <3>2. keys[t - last] = keys[u - last]
      BY <2>1, <2>4, <3>1
    <3>3. t - last = u - last
      BY <1>3, <2>4, <3>1, <3>2
    <3> QED
      BY <1>8, <3>3, BooksAssumption DEF TransactionIds
  <2> QED
    BY <1>10, <2>3, <2>4
<1>13. OneRecordPerFile'
  <2>1. \A j \in Used(imports) : imports[j].file # f
    BY <1>2 DEF KnownFile
  <2> QED
    BY <1>7, <2>1 DEF RowsInv, OneRecordPerFile
<1>14. Backed'
  <2>1. undisturbed' \subseteq Used(imports')
    BY <1>2, <1>7 DEF RowsInv, Backed
  <2>2. \A j \in Used(imports') : RowsOf[imports'[j].file] # {}
    BY <1>2, <1>7 DEF RowsInv, Backed
  <2>3. ASSUME NEW t \in Used(transactions)
        PROVE  /\ t \in Used(transactions') /\ transactions'[t].account = transactions[t].account
               /\ transactions'[t].key = transactions[t].key /\ transactions'[t].import = transactions[t].import
    BY <1>8, <1>9 DEF Carries
  <2>4. ASSUME NEW j \in undisturbed, NEW key \in RowsOf[imports'[j].file]
        PROVE  \E t \in Used(transactions') : transactions'[t].account = imports'[j].account
                 /\ transactions'[t].key = key /\ transactions'[t].import <= j
    <3>1. j \in Used(imports) /\ imports'[j] = imports[j]
      BY <1>7 DEF RowsInv, Backed
    <3> QED
      BY <2>3, <2>4, <3>1 DEF RowsInv, Backed
  <2>5. ASSUME NEW key \in RowsOf[f]
        PROVE  \E t \in Used(transactions') : transactions'[t].account = a
                 /\ transactions'[t].key = key /\ transactions'[t].import <= i
    <3>1. CASE IsDuplicate(a, key)
      <4>1. PICK t \in Used(transactions) : transactions[t].account = a /\ transactions[t].key = key
        BY <3>1 DEF IsDuplicate
      <4>2. transactions[t].import \in Used(imports)
        BY DEF RowsInv, Referenced
      <4>3. transactions[t].import < i /\ transactions[t].import \in Int /\ i \in Int
        BY <1>2, <1>7, <4>2, BooksAssumption DEF ImportIds, Used, Typed
      <4> QED
        BY <2>3, <4>1, <4>3
    <3>2. CASE \E k \in 1..n : keys[k] = key
      <4>1. PICK k \in 1..n : keys[k] = key
        BY <3>2
      <4>2. last + k \in TransactionIds /\ (last + k) - last = k
        BY <1>2, <1>3, BooksAssumption DEF TransactionIds
      <4>3. old[last + k] = Row(a, i, key)
        BY <1>3, <4>1, <4>2
      <4>4. old[last + k] # None
        BY <1>6, <4>1, <4>3
      <4>8. Carries(transactions'[last + k], old[last + k])
        BY <1>4, <4>2
      <4>9. old[last + k].account = a /\ old[last + k].key = key /\ old[last + k].import = i
        <5>1. LET row == Row(a, i, key) IN row.account = a /\ row.key = key /\ row.import = i
          BY DEF Row
        <5> QED
          BY <4>3, <5>1
      <4>5. transactions'[last + k] # None /\ transactions'[last + k].account = a
            /\ transactions'[last + k].key = key /\ transactions'[last + k].import = i
        BY <4>4, <4>8, <4>9 DEF Carries
      <4>6. last + k \in Used(transactions')
        BY <1>4, <4>2, <4>5 DEF Used
      <4>7. i <= i
        BY <1>2, BooksAssumption DEF ImportIds
      <4> QED
        BY <4>5, <4>6, <4>7
    <3> QED
      BY <1>3, <3>1, <3>2
  <2>6. \A j \in undisturbed' : j \in undisturbed \/ j = i
    BY <1>2
  <2> QED
    BY <1>7, <2>1, <2>2, <2>4, <2>5, <2>6 DEF Backed
<1>15. NothingForgotten' /\ Filled'
  <2>1. ASSUME NEW t \in Used(transactions')
        PROVE  /\ transactions'[t].category = None /\ ~transactions'[t].flagged =>
                    transactions'[t].by = "waved"
               /\ transactions'[t].by \in {"person", "rule"} => transactions'[t].category # None
    <3>1. Carries(transactions'[t], old[t]) /\ old[t] # None
      BY <1>8
    <3>2. CASE t \in Used(transactions) /\ old[t] = transactions[t]
      BY <3>1, <3>2 DEF Carries, RowsInv, NothingForgotten, Filled
    <3>3. CASE New(t)
      BY <3>1, <3>3 DEF Carries
    <3> QED
      BY <1>10, <3>2, <3>3
  <2> QED
    BY <2>1 DEF NothingForgotten, Filled
<1> QED
  BY <1>5, <1>11, <1>12, <1>13, <1>14, <1>15 DEF RowsInv

\* The command's import and the web's confirm.
LEMMA ImportsKeep ==
  ASSUME BooksInv, NEW p \in Clerks,
         \E a \in AccountIds : (\E f \in Files : Import(p, f, a)) \/ ConfirmImport(p, a)
  PROVE  BooksInv'
<1> USE DEF BooksInv
<1>1. ASSUME NEW f \in Files, NEW a \in AccountIds, Import(p, f, a)
      PROVE  BooksInv'
  BY <1>1, AtOnceKeeps, RecordedKeeps DEF Import
<1>2. ASSUME NEW a \in AccountIds, ConfirmImport(p, a)
      PROVE  BooksInv'
  <2> DEFINE u == op[p].it
             next == [op[p] EXCEPT !.at = "imported"]
  <2>1. /\ op[p].at = "confirming" /\ spool[u] # None /\ Recorded(spool[u], a)
        /\ Goes(p, next) \/ Done(p)
        /\ UNCHANGED spool
    BY <1>2 DEF ConfirmImport
  <2>2. op[p] \in OpRecords /\ Meaning(op[p])
    BY DEF OpsTyped, OpsMeant
  <2>3. u \in Uploads
    BY <2>1, <2>2 DEF Meaning
  <2>4. spool[u] \in Files
    BY <2>1, <2>3 DEF Typed
  <2>5. next \in OpRecords /\ next.at = "imported" /\ next.it = u
    BY <2>2 DEF OpRecords, OpStages
  <2> HIDE DEF next
  <2>6. Meaning(next)
    BY <2>3, <2>5 DEF Meaning
  <2>7. OpsTyped' /\ OpsMeant'
    BY <2>1, <2>5, <2>6, GoesKeeps, DoneKeeps
  <2> QED
    BY <2>1, <2>4, <2>7, RecordedKeeps
<1> QED
  BY <1>1, <1>2

\* An import takes its own rows with it; an older import has none of them.
LEMMA DeleteImportKeeps ==
  ASSUME BooksInv, NEW p \in Clerks, DeleteImport(p)
  PROVE  BooksInv'
<1> USE DEF BooksInv
<1> DEFINE i == op[p].id
<1>1. /\ i \in ImportIds /\ Done(p)
      /\ imports' = [imports EXCEPT ![i] = None]
      /\ transactions' = [t \in TransactionIds |->
           IF transactions[t] # None /\ transactions[t].import = i THEN None ELSE transactions[t]]
      /\ undisturbed' = IF imports[i] = None THEN undisturbed ELSE {j \in undisturbed : j < i}
      /\ UNCHANGED <<accounts, chart, rules, reconciled, spool>>
  BY DEF DeleteImport, OpsMeant, Meaning
<1> HIDE DEF i
<1>2. Typed'
  BY <1>1 DEF Typed
<1>3. Used(imports') = Used(imports) \ {i} /\ \A j \in Used(imports') : imports'[j] = imports[j]
  BY <1>1 DEF Typed, Used
<1>4. \A t \in TransactionIds :
        t \in Used(transactions') <=> t \in Used(transactions) /\ transactions[t].import # i
  BY <1>1 DEF Typed, Used
<1>5. \A t \in Used(transactions') : transactions'[t] = transactions[t] /\ t \in Used(transactions)
                                       /\ transactions[t].import # i
  BY <1>1 DEF Typed, Used
<1>6. Referenced'
  <2>1. reconciled' \subseteq Used(accounts')
    BY <1>1 DEF RowsInv, Referenced
  <2>2. \A t \in Used(transactions') :
          transactions'[t].account \in Used(accounts') /\ transactions'[t].import \in Used(imports')
    BY <1>1, <1>3, <1>5 DEF RowsInv, Referenced
  <2>3. \A j \in Used(imports') : imports'[j].account \in Used(accounts') \cup {None}
    BY <1>1, <1>3 DEF RowsInv, Referenced
  <2> QED
    BY <2>1, <2>2, <2>3 DEF Referenced
<1>7. NoRowTwice'
  BY <1>5 DEF RowsInv, NoRowTwice
<1>8. OneRecordPerFile'
  BY <1>3 DEF RowsInv, OneRecordPerFile
<1>9. NothingForgotten' /\ Filled'
  BY <1>5 DEF RowsInv, NothingForgotten, Filled
<1>10. \A j \in undisturbed' : j \in undisturbed /\ j \in Used(imports) /\ j # i /\ (j < i \/ i \notin Used(imports))
  <2>1. undisturbed \subseteq Used(imports) /\ \A j \in Used(imports) : j \in Int
    BY BooksAssumption DEF RowsInv, Backed, Used, Typed, ImportIds
  <2>2. CASE imports[i] = None
    BY <1>1, <2>1, <2>2 DEF Used
  <2>3. CASE imports[i] # None
    <3>1. i \in Int
      BY <1>1, BooksAssumption DEF ImportIds
    <3> QED
      BY <1>1, <2>1, <2>3, <3>1
  <2> QED
    BY <2>2, <2>3
<1>11. Backed'
  <2>1. undisturbed' \subseteq Used(imports')
    BY <1>3, <1>10
  <2>2. \A j \in Used(imports') : RowsOf[imports'[j].file] # {}
    BY <1>3 DEF RowsInv, Backed
  <2>3. ASSUME NEW j \in undisturbed', NEW key \in RowsOf[imports'[j].file]
        PROVE  \E t \in Used(transactions') : transactions'[t].account = imports'[j].account
                 /\ transactions'[t].key = key /\ transactions'[t].import <= j
    <3>1. imports'[j] = imports[j] /\ j \in undisturbed
      BY <1>3, <1>10
    <3>2. PICK t \in Used(transactions) : transactions[t].account = imports[j].account
            /\ transactions[t].key = key /\ transactions[t].import <= j
      BY <2>3, <3>1 DEF RowsInv, Backed
    <3>3. transactions[t].import \in Used(imports)
      BY DEF RowsInv, Referenced
    <3>4. transactions[t].import # i
      <4>1. transactions[t].import \in Int /\ i \in Int /\ j \in Int
        BY <1>1, <1>10, <2>3, <3>3, BooksAssumption DEF Used, Typed, ImportIds
      <4> QED
        BY <1>10, <2>3, <3>2, <3>3, <4>1
    <3>5. t \in TransactionIds
      BY DEF Used, Typed
    <3>6. t \in Used(transactions') /\ transactions'[t] = transactions[t]
      BY <1>4, <1>5, <3>4, <3>5
    <3> QED
      BY <3>1, <3>2, <3>6
  <2> QED
    BY <2>1, <2>2, <2>3 DEF Backed
<1>12. OpsTyped' /\ OpsMeant'
  BY <1>1, DoneKeeps
<1> QED
  BY <1>2, <1>6, <1>7, <1>8, <1>9, <1>11, <1>12 DEF RowsInv

(* ------------------------------ the theorems ---------------------------- *)

\* The books start empty but for their accounts.
LEMMA BooksStart == BooksInit => BooksInv
<1> SUFFICES ASSUME BooksInit PROVE BooksInv
  OBVIOUS
<1> USE DEF BooksInit
<1>1. Typed
  BY BooksAssumption DEF Typed, Empty, AccountIds
<1>2. OpsTyped
  BY IdleFine, BooksAssumption DEF OpsTyped
<1>3. OpsMeant
  BY IdleFine DEF OpsMeant
<1>4. Used(transactions) = {} /\ Used(imports) = {}
  BY DEF Used, Empty
<1>5. RowsInv
  BY <1>4 DEF RowsInv, Referenced, NoRowTwice, OneRecordPerFile, Backed, NothingForgotten, Filled
<1> QED
  BY <1>1, <1>2, <1>3, <1>5 DEF BooksInv

\* Every step keeps the invariant.
LEMMA BooksStep == BooksInv /\ [BooksNext]_booksVars => BooksInv'
<1> SUFFICES ASSUME BooksInv, [BooksNext]_booksVars PROVE BooksInv'
  OBVIOUS
<1>1. ASSUME NEW p \in Clerks, ImportsNext(p)
      PROVE  BooksInv'
  BY <1>1, ImportsKeep, SpoolKeeps, LooksKeep, StagesKeep, DeleteImportKeeps DEF ImportsNext
<1>2. ASSUME NEW p \in Clerks, FilingNext(p)
      PROVE  BooksInv'
  BY <1>2, StagesKeep, FilesKeep, LooksKeep, ReviewKeeps, UndoReviewKeeps, EditKeeps, RulesKeep
     DEF FilingNext
<1>3. ASSUME NEW p \in Clerks, ChartNext(p)
      PROVE  BooksInv'
  BY <1>3, ChartKeeps, LooksKeep, NamedKeep, DeleteAccountKeeps DEF ChartNext
<1>4. ASSUME NEW p \in Clerks, Abandon(p)
      PROVE  BooksInv'
  BY <1>4, StagesKeep
<1>5. ASSUME NEW u \in Uploads, PurgeStale(u)
      PROVE  BooksInv'
  <2>1. Typed'
    BY <1>5 DEF BooksInv, Typed, PurgeStale
  <2>2. OpsTyped' /\ OpsMeant'
    BY <1>5 DEF BooksInv, OpsTyped, OpsMeant, PurgeStale
  <2> QED
    BY <1>5, <2>1, <2>2, ElsewhereKeeps DEF PurgeStale
<1>6. CASE UNCHANGED booksVars
  <2>1. UNCHANGED <<tables, undisturbed>> /\ UNCHANGED <<op, desk, begun>>
    BY <1>6 DEF booksVars, tables
  <2>2. OpsTyped' /\ OpsMeant'
    BY <2>1 DEF BooksInv, OpsTyped, OpsMeant
  <2> QED
    BY <2>1, <2>2, OpOnly
<1> QED
  BY <1>1, <1>2, <1>3, <1>4, <1>5, <1>6 DEF BooksNext

\* The inductive invariant holds: every operation's every step keeps it, given
\* up between any two.
THEOREM BooksInvariant == BooksSpec => []BooksInv
  BY BooksStart, BooksStep, PTL DEF BooksSpec

\* The invariant holds BooksTypeOK.
LEMMA BooksTypes == BooksInv => BooksTypeOK
<1> SUFFICES ASSUME BooksInv PROVE BooksTypeOK
  OBVIOUS
<1>1. \A p \in Clerks : op[p].at \in OpStages
  BY DEF BooksInv, OpsTyped, OpRecords
<1> QED
  BY <1>1 DEF BooksInv, BooksTypeOK, Typed, OpsTyped, RowsInv, Referenced, Backed

\* The tables keep their kinds and their references, whoever deletes what between
\* a check and a write.
THEOREM BooksTyped == BooksSpec => []BooksTypeOK
  BY BooksInvariant, BooksTypes, PTL

\* No statement row is in an account's books twice (is_duplicate_row, inside the
\* import's transaction).
THEOREM NeverTwice == BooksSpec => []NoRowTwice
<1>1. BooksInv => NoRowTwice
  BY DEF BooksInv, RowsInv
<1> QED
  BY <1>1, BooksInvariant, PTL

\* No file is on record twice, its account deleted or not (the checksum lookup).
THEOREM FilesOnce == BooksSpec => []OneRecordPerFile
<1>1. BooksInv => OneRecordPerFile
  BY DEF BooksInv, RowsInv
<1> QED
  BY <1>1, BooksInvariant, PTL

\* A recorded file's rows are in its account's books until an older import is
\* undone: each is the file's own or an older one's, which `Backed` adds.
THEOREM RowsThere == BooksSpec => []RecordedRowsAreThere
<1>1. BooksInv => RecordedRowsAreThere
  BY DEF BooksInv, RowsInv, Backed, RecordedRowsAreThere, IsDuplicate
<1> QED
  BY <1>1, BooksInvariant, PTL

\* A row without a category is flagged for review, unless a person cleared it.
THEOREM Queued == BooksSpec => []NothingForgotten
<1>1. BooksInv => NothingForgotten
  BY DEF BooksInv, RowsInv
<1> QED
  BY <1>1, BooksInvariant, PTL

\* A row a person filed, filed by a rule in this step.
Overruled(t) ==
  /\ transactions[t] # None /\ transactions[t].by = "person"
  /\ transactions'[t] # None /\ transactions'[t].by = "rule"

\* The two ways PersonDecides allows.
Answered(t) ==
  \/ \E p \in Clerks : op[p].at = "filing" /\ \E key \in Keys : <<t, key>> \in op[p].todo
  \/ \E i \in Used(imports') \ Used(imports) :
       imports'[i].file \in GustoFiles /\ transactions[t].key \in RowsOf[imports'[i].file]

\* A row changed in place by a person is not overruled.
LEMMA TouchOverrules ==
  ASSUME Typed, NEW id \in TransactionIds, NEW row,
         transactions[id] # None => row.by # "rule" \/ transactions[id].by # "person",
         transactions' = Touched(id, row), NEW t \in TransactionIds
  PROVE  ~Overruled(t)
  BY DEF Typed, Touched, Used, Overruled

\* A person's row has a category, so only a payroll export can refile it when
\* an import commits.
LEMMA ImportAnswers ==
  ASSUME Typed, RowsInv, NEW f \in Files, NEW a \in AccountIds, Recorded(f, a), UNCHANGED spool,
         NEW t \in TransactionIds, Overruled(t)
  PROVE  Answered(t)
<1>1. PICK lastImport \in 0..MaxImports, last \in 0..MaxTransactions :
         LET i == lastImport + 1
             new == NewRows(a, f)
             table == PayrollFiled(Inserted(a, i, new, last), a, f)
         IN  /\ IsLast(imports, lastImport) /\ IsLast(transactions, last)
             /\ i <= MaxImports /\ last + Cardinality(new) <= MaxTransactions
             /\ imports' = [imports EXCEPT ![i] = [file |-> f, account |-> a]]
             /\ \E filed \in [Fileable(table) -> Categories] :
                  /\ \A u \in Fileable(table) : filed[u] \in Filing(ActiveRules, table[u].key)
                  /\ transactions' = [u \in TransactionIds |->
                       IF u \in Fileable(table) THEN Filed(table[u], filed[u]) ELSE table[u]]
             /\ undisturbed' = undisturbed \cup {i}
  BY DEF Recorded
<1> DEFINE i == lastImport + 1
           old == Inserted(a, i, NewRows(a, f), last)
           gusto == PayrollFiled(old, a, f)
<1>2. i \in ImportIds /\ i \notin Used(imports)
  <2>1. lastImport \in Nat /\ MaxImports \in Nat /\ i <= MaxImports /\ IsLast(imports, lastImport)
    BY <1>1, BooksAssumption
  <2> QED
    BY <2>1 DEF ImportIds, IsLast
<1>3. /\ IsLast(transactions, last)
      /\ imports' = [imports EXCEPT ![i] = [file |-> f, account |-> a]]
      /\ t \notin Fileable(gusto) => transactions'[t] = gusto[t]
  BY <1>1
<1>4. /\ t - last \in 1..Cardinality(NewRows(a, f)) => transactions[t] = None
      /\ t - last \notin 1..Cardinality(NewRows(a, f)) => old[t] = transactions[t]
  BY <1>2, <1>3, InsertedRows
<1>5. old[t] = transactions[t] /\ transactions[t] \in Rows
  BY <1>4 DEF Overruled, Typed
<1> HIDE DEF i, old
<1>6. transactions[t].category # None
  BY <1>5, NoneAssumption DEF RowsInv, Filled, Used, Typed, Overruled
<1>7. CASE gusto[t] = old[t]
  <2>1. t \notin Fileable(gusto)
    BY <1>5, <1>6, <1>7 DEF Fileable
  <2>2. transactions'[t] = transactions[t]
    BY <1>3, <1>5, <1>7, <2>1
  <2> QED
    BY <2>2 DEF Overruled
<1>8. CASE gusto[t] # old[t]
  <2>1. f \in GustoFiles /\ old[t].key \in RowsOf[f]
    BY <1>8 DEF PayrollFiled
  <2>2. [file |-> f, account |-> a] \in ImportRows
    BY DEF ImportRows
  <2>3. i \in Used(imports') \ Used(imports) /\ imports'[i].file = f
    BY <1>2, <1>3, <2>2, NoneAssumption DEF Used, Typed
  <2> QED
    BY <1>5, <2>1, <2>3 DEF Answered
<1> QED
  BY <1>7, <1>8

\* Only a pass that had read the row, or a payroll export, overrules a person.
LEMMA StepAnswers ==
  ASSUME BooksInv, BooksNext, NEW t \in TransactionIds, Overruled(t)
  PROVE  Answered(t)
<1> USE DEF BooksInv
<1>1. transactions' # transactions
  BY DEF Overruled
<1>2. ASSUME NEW p \in Clerks, ImportsNext(p)
      PROVE  Answered(t)
  <2>1. CASE \E f \in Files, a \in AccountIds : Import(p, f, a)
    BY <2>1, ImportAnswers DEF Import
  <2>2. ASSUME NEW a \in AccountIds, ConfirmImport(p, a)
        PROVE  Answered(t)
    <3>1. spool[op[p].it] \in Files
      BY <2>2 DEF ConfirmImport, OpsMeant, Meaning, Typed
    <3> QED
      BY <2>2, <3>1, ImportAnswers DEF ConfirmImport
  <2>3. CASE DeleteImport(p)
    BY <2>3 DEF DeleteImport, Overruled
  <2> QED
    BY <1>1, <1>2, <2>1, <2>2, <2>3
    DEF ImportsNext, Upload, ResolveUpload, ConfirmKnown, DeleteUpload, ShowImport, tables
<1>3. ASSUME NEW p \in Clerks, FilingNext(p)
      PROVE  Answered(t)
  <2>1. ASSUME NEW id \in TransactionIds, NEW key \in Keys, NEW c \in Categories, FileNext(p, id, key, c)
        PROVE  Answered(t)
    <3>1. op[p].at = "filing" /\ <<id, key>> \in op[p].todo
      BY <2>1 DEF FileNext
    <3>2. id = t
      BY <2>1 DEF FileNext, Overruled, Typed
    <3> QED
      BY <3>1, <3>2 DEF Answered
  <2>2. CASE ApplyReview(p)
    <3> DEFINE id == op[p].id
               row == [transactions[id] EXCEPT !.category = op[p].it, !.flagged = FALSE, !.by = "person"]
    <3>1. id \in TransactionIds /\ transactions' = Touched(id, row)
      BY <2>2 DEF ApplyReview, OpsMeant, Meaning
    <3>2. transactions[id] # None => row.by = "person"
      <4>1. transactions[id] # None => transactions[id] \in Rows
        BY <3>1 DEF Typed
      <4> QED
        BY <4>1 DEF Rows
    <3> HIDE DEF id, row
    <3> QED
      BY <3>1, <3>2, TouchOverrules
  <2>3. CASE UndoReview(p)
    <3> DEFINE id == op[p].id
               row == [transactions[id] EXCEPT !.category = None, !.flagged = TRUE, !.by = "no one"]
    <3>1. id \in TransactionIds /\ transactions' = Touched(id, row)
      BY <2>3 DEF UndoReview, OpsMeant, Meaning
    <3>2. transactions[id] # None => row.by = "no one"
      <4>1. transactions[id] # None => transactions[id] \in Rows
        BY <3>1 DEF Typed
      <4> QED
        BY <4>1 DEF Rows
    <3> HIDE DEF id, row
    <3> QED
      BY <3>1, <3>2, TouchOverrules
  <2>4. CASE EditCategory(p)
    <3> DEFINE id == op[p].id
               row == [transactions[id] EXCEPT !.category = op[p].it, !.by = "person"]
    <3>1. id \in TransactionIds /\ transactions' = Touched(id, row)
      BY <2>4 DEF EditCategory, OpsMeant, Meaning
    <3>2. transactions[id] # None => row.by = "person"
      <4>1. transactions[id] # None => transactions[id] \in Rows
        BY <3>1 DEF Typed
      <4> QED
        BY <4>1 DEF Rows
    <3> HIDE DEF id, row
    <3> QED
      BY <3>1, <3>2, TouchOverrules
  <2>5. ASSUME NEW id \in TransactionIds, NEW flag \in BOOLEAN, SetFlag(p, id, flag)
        PROVE  FALSE
    <3>1. transactions[t] \in Rows /\ transactions[t].by = "person" /\ transactions'[t].by = "rule"
      BY DEF Overruled, Typed
    <3>2. transactions[t].category # None
      BY <3>1, NoneAssumption DEF RowsInv, Filled, Used, Typed
    <3>3. transactions'[t].by = transactions[t].by
      BY <2>5, <3>1, <3>2 DEF SetFlag, Typed, Rows
    <3> QED
      BY <3>1, <3>3
  <2> QED
    BY <1>1, <1>3, <2>1, <2>2, <2>3, <2>4, <2>5
    DEF FilingNext, ReadRules, ReadRows, PassEnds, PickCategory, CheckRule, AddRule, UpdateRule,
        DeactivateRule, tables
<1>4. ASSUME NEW p \in Clerks, ChartNext(p)
      PROVE  FALSE
  BY <1>1, <1>4 DEF ChartNext, AddCategory, CountUses, CheckName, RetireCategory, AddAccount,
       RenameAccount, Reconcile, DeleteAccount, CountMonth, tables
<1>5. ASSUME NEW p \in Clerks, Abandon(p)
      PROVE  FALSE
  BY <1>1, <1>5 DEF Abandon, tables
<1>6. ASSUME NEW u \in Uploads, PurgeStale(u)
      PROVE  FALSE
  BY <1>1, <1>6 DEF PurgeStale
<1> QED
  BY <1>2, <1>3, <1>4, <1>5, <1>6 DEF BooksNext

\* A person's category gives way only to a pass that had read the row before, or
\* to a payroll export that lists it.
THEOREM PeopleDecide == BooksSpec => PersonDecides
<1>1. BooksInv /\ [BooksNext]_booksVars =>
        [\A t \in TransactionIds : Overruled(t) => Answered(t)]_booksVars
  BY StepAnswers
<1>2. [\A t \in TransactionIds : Overruled(t) => Answered(t)]_booksVars =>
      [\A t \in TransactionIds :
        (/\ transactions[t] # None /\ transactions[t].by = "person"
         /\ transactions'[t] # None /\ transactions'[t].by = "rule")
        => \/ \E p \in Clerks : op[p].at = "filing" /\ \E key \in Keys : <<t, key>> \in op[p].todo
           \/ \E i \in Used(imports') \ Used(imports) :
                imports'[i].file \in GustoFiles /\ transactions[t].key \in RowsOf[imports'[i].file]]_booksVars
  BY DEF Overruled, Answered
<1> QED
  BY <1>1, <1>2, BooksInvariant, PTL DEF BooksSpec, PersonDecides

(* ------------------------ the pass of an import ------------------------- *)

\* Of the ids up to a number, each with a rank, some given ones hold a highest:
\* else there is a least number to which it fails, and its own id decides it.
LEMMA HighestRank ==
  ASSUME NEW top \in Nat, NEW rank \in [1..top -> Int], NEW S \in SUBSET (1..top), S # {}
  PROVE  \E n \in S : \A k \in S : rank[k] <= rank[n]
<1> DEFINE R == {ss \in Nat \X Nat : ss[1] < ss[2]}
           Fails(n) == \E P \in SUBSET (1..n) :
                         P # {} /\ P \subseteq 1..top /\ ~\E m \in P : \A k \in P : rank[k] <= rank[m]
           Bad == {n \in Nat : Fails(n)}
<1>1. IsWellFoundedOn(R, Nat)
  BY NatLessThanWellFounded DEF OpToRel
<1>2. \A k, n \in Nat : k < n => <<k, n>> \in R
  OBVIOUS
<1>3. Bad \in SUBSET Nat
  OBVIOUS
<1>4. SUFFICES ASSUME Bad # {}
               PROVE  FALSE
  <2>1. top \notin Bad
    BY <1>4
  <2> QED
    BY <2>1
<1> HIDE DEF R, Bad
<1>5. \E n \in Bad : \A k \in Bad : ~(<<k, n>> \in R)
  BY <1>1, <1>3, <1>4, WFMin, Zenon
<1>6. PICK n \in Bad : \A k \in Bad : ~(<<k, n>> \in R)
  BY <1>5
<1>7. n \in Nat /\ \A k \in Nat : k < n => k \notin Bad
  BY <1>2, <1>3, <1>6
<1>8. PICK P \in SUBSET (1..n) : P # {} /\ P \subseteq 1..top /\ ~\E m \in P : \A k \in P : rank[k] <= rank[m]
  BY <1>6 DEF Bad
<1>9. n > 0
  <2>1. PICK k \in P : k \in 1..n
    BY <1>8
  <2> QED
    BY <1>7, <2>1
<1>10. n - 1 \in Nat /\ n - 1 \notin Bad
  BY <1>7, <1>9
<1>11. ~Fails(n - 1)
  BY <1>10 DEF Bad
<1>12. P \ {n} \in SUBSET (1..n - 1) /\ P \ {n} \subseteq 1..top
  BY <1>7, <1>8
<1>13. n \in P
  <2> SUFFICES ASSUME n \notin P
               PROVE  FALSE
    OBVIOUS
  <2>1. P \in SUBSET (1..n - 1)
    BY <1>12
  <2> QED
    BY <1>8, <1>11, <2>1
<1>14. CASE P \ {n} = {}
  BY <1>8, <1>13, <1>14
<1>15. CASE P \ {n} # {}
  <2>1. PICK m \in P \ {n} : \A k \in P \ {n} : rank[k] <= rank[m]
    BY <1>11, <1>12, <1>15
  <2>2. rank[m] \in Int /\ rank[n] \in Int /\ \A k \in P : rank[k] \in Int
    BY <1>8, <1>13, <2>1
  <2>3. CASE rank[n] <= rank[m]
    BY <1>8, <2>1, <2>3
  <2>4. CASE rank[m] <= rank[n]
    <3>1. \A k \in P : rank[k] <= rank[n]
      BY <2>1, <2>2, <2>4
    <3> QED
      BY <1>8, <1>13, <3>1
  <2> QED
    BY <2>2, <2>3, <2>4
<1> QED
  BY <1>14, <1>15

\* A key that an active rule matches has a category to be filed under.
LEMMA SomethingFiles ==
  ASSUME Typed, NEW key \in Keys, NEW r \in ActiveRules, key \in Fits[r.pattern]
  PROVE  Filing(ActiveRules, key) # {}
<1> DEFINE rank == [s \in RuleIds |-> IF rules[s] = None THEN 0 ELSE rules[s].priority]
           S == {s \in Used(rules) : rules[s].active /\ key \in Fits[rules[s].pattern]}
<1>1. \A s \in RuleIds : rules[s] # None => rules[s] \in Rules
  BY DEF Typed
<1>2. \A s \in RuleIds : rules[s] # None => rules[s].priority \in Int
  BY <1>1, BooksAssumption DEF Rules
<1>3. rank \in [1..MaxRules -> Int] /\ MaxRules \in Nat
  BY <1>2, BooksAssumption DEF RuleIds
<1>4. S \in SUBSET (1..MaxRules) /\ S # {}
  BY DEF ActiveRules, Used, RuleIds, Typed
<1> HIDE DEF S
<1>5. PICK n \in S : \A k \in S : rank[k] <= rank[n]
  BY <1>3, <1>4, HighestRank
<1>6. n \in RuleIds /\ rules[n] # None /\ rules[n].active /\ key \in Fits[rules[n].pattern]
  BY <1>5 DEF S, Used, Typed
<1>7. \A k \in S : rules[k].priority <= rules[n].priority
  BY <1>5, <1>6 DEF S, Used, Typed
<1>8. rules[n] \in ActiveRules
  BY <1>6 DEF ActiveRules, Used, Typed
<1>9. ASSUME NEW o \in ActiveRules, key \in Fits[o.pattern]
      PROVE  o.priority <= rules[n].priority
  <2>1. PICK k \in S : o = rules[k]
    BY <1>9 DEF ActiveRules, S
  <2> QED
    BY <1>7, <2>1
<1>10. rules[n].category \in Filing(ActiveRules, key)
  BY <1>6, <1>8, <1>9 DEF Filing
<1> QED
  BY <1>10

\* What SweptClean says of a row.
Swept(t) ==
  LET row == transactions'[t]
      rank(c) == {r.priority : r \in {s \in ActiveRules : s.category = c /\ row.key \in Fits[s.pattern]}}
  IN  /\ row.category = None => \A r \in ActiveRules : row.key \notin Fits[r.pattern]
      /\ row.by = "rule" /\ row.category # Payroll[row.key]
           /\ (transactions[t] = None \/ transactions[t].category = None)
           => \E best \in rank(row.category) :
                \A r \in ActiveRules : row.key \in Fits[r.pattern] => r.priority <= best

\* What is filed under a category Filing gives is filed by a highest rule.
LEMMA FiledByTheBest ==
  ASSUME NEW key, NEW c \in Filing(ActiveRules, key)
  PROVE  \E best \in {r.priority : r \in {s \in ActiveRules : s.category = c /\ key \in Fits[s.pattern]}} :
           \A r \in ActiveRules : key \in Fits[r.pattern] => r.priority <= best
<1>1. PICK s \in ActiveRules :
         /\ key \in Fits[s.pattern] /\ c = s.category
         /\ \A o \in ActiveRules : key \in Fits[o.pattern] => o.priority <= s.priority
  BY DEF Filing
<1> QED
  BY <1>1

\* The pass of an import leaves each row in the books swept.
LEMMA ImportSweeps ==
  ASSUME Typed, Typed', RowsInv, NEW f \in Files, NEW a \in AccountIds, Recorded(f, a),
         NEW t \in Used(transactions')
  PROVE  Swept(t)
<1>1. PICK lastImport \in 0..MaxImports, last \in 0..MaxTransactions :
         LET i == lastImport + 1
             new == NewRows(a, f)
             table == PayrollFiled(Inserted(a, i, new, last), a, f)
         IN  /\ IsLast(imports, lastImport) /\ IsLast(transactions, last)
             /\ i <= MaxImports /\ last + Cardinality(new) <= MaxTransactions
             /\ imports' = [imports EXCEPT ![i] = [file |-> f, account |-> a]]
             /\ \E filed \in [Fileable(table) -> Categories] :
                  /\ \A u \in Fileable(table) : filed[u] \in Filing(ActiveRules, table[u].key)
                  /\ transactions' = [u \in TransactionIds |->
                       IF u \in Fileable(table) THEN Filed(table[u], filed[u]) ELSE table[u]]
             /\ undisturbed' = undisturbed \cup {i}
  BY DEF Recorded
<1> DEFINE i == lastImport + 1
           n == Cardinality(NewRows(a, f))
           old == Inserted(a, i, NewRows(a, f), last)
           gusto == PayrollFiled(old, a, f)
<1>2. i \in ImportIds
  <2>1. lastImport \in Nat /\ MaxImports \in Nat /\ i <= MaxImports
    BY <1>1, BooksAssumption
  <2> QED
    BY <2>1 DEF ImportIds
<1>3. PICK filed \in [Fileable(gusto) -> Categories] :
         /\ \A u \in Fileable(gusto) : filed[u] \in Filing(ActiveRules, gusto[u].key)
         /\ transactions' = [u \in TransactionIds |->
              IF u \in Fileable(gusto) THEN Filed(gusto[u], filed[u]) ELSE gusto[u]]
  BY <1>1
<1>4. t \in TransactionIds /\ transactions'[t] \in Rows
  BY DEF Used, Typed
<1>5. IsLast(transactions, last)
  BY <1>1
<1>6. /\ old \in [TransactionIds -> Rows \cup {None}]
      /\ t - last \in 1..n =>
           \E key \in Keys : old[t] = Row(a, i, key)
      /\ t - last \notin 1..n => old[t] = transactions[t]
  BY <1>2, <1>4, <1>5, InsertedRows
<1>7. gusto[t] = old[t] \/
        /\ old[t] # None /\ Payroll[old[t].key] # None
        /\ gusto[t] = Filed(old[t], Payroll[old[t].key])
  BY <1>4 DEF PayrollFiled
<1> HIDE DEF i, n, old
<1>8. CASE t \in Fileable(gusto)
  <2> DEFINE key == gusto[t].key
  <2>1. filed[t] \in Filing(ActiveRules, key) /\ filed[t] \in Categories
    BY <1>3, <1>8
  <2>2. transactions'[t] = Filed(gusto[t], filed[t])
    BY <1>3, <1>4, <1>8
  <2>3. gusto[t] \in Rows
    <3>1. old[t] # None => old[t] \in Rows
      BY <1>4, <1>6
    <3>2. old[t] # None => Payroll[old[t].key] \in Categories \cup {None}
      BY <3>1, BooksAssumption DEF Rows
    <3>3. gusto[t] # None
      BY <1>8 DEF Fileable, Used
    <3> QED
      BY <1>7, <3>1, <3>2, <3>3, FiledCarries DEF Carries
  <2>4. transactions'[t].category = filed[t] /\ transactions'[t].key = key
    BY <2>1, <2>2, <2>3 DEF Filed, Rows
  <2>5. filed[t] # None
    BY <2>1, BooksAssumption
  <2>6. \E best \in {r.priority : r \in {s \in ActiveRules : s.category = filed[t] /\ key \in Fits[s.pattern]}} :
           \A r \in ActiveRules : key \in Fits[r.pattern] => r.priority <= best
    BY <2>1, FiledByTheBest
  <2> QED
    BY <2>4, <2>5, <2>6 DEF Swept
<1>9. CASE t \notin Fileable(gusto)
  <2> PICK row : row = transactions'[t]
    OBVIOUS
  <2>1. row = gusto[t] /\ row \in Rows
    BY <1>3, <1>4, <1>9
  <2>2. t \in Used(gusto)
    BY <1>4, <2>1, NoneAssumption DEF Used, PayrollFiled
  <2>3. row.category = None => Filing(ActiveRules, row.key) = {}
    BY <1>9, <2>1, <2>2 DEF Fileable
  <2>4. row.category = None => \A r \in ActiveRules : row.key \notin Fits[r.pattern]
    <3>1. row.key \in Keys
      BY <2>1 DEF Rows
    <3> QED
      BY <2>3, <3>1, SomethingFiles
  <2>5. ~(/\ row.by = "rule" /\ row.category # Payroll[row.key]
          /\ transactions[t] = None \/ transactions[t].category = None)
    <3>1. CASE gusto[t] # old[t]
      <4>1. old[t] \in Rows /\ Payroll[old[t].key] # None
        BY <1>4, <1>6, <1>7, <3>1
      <4>2. row.category = Payroll[old[t].key] /\ row.key = old[t].key
        BY <1>7, <2>1, <3>1, <4>1 DEF Filed, Rows
      <4> QED
        BY <4>2
    <3>2. CASE gusto[t] = old[t] /\ old[t] = transactions[t]
      <4>1. t \in Used(transactions) /\ row = transactions[t]
        BY <1>4, <2>1, <3>2, NoneAssumption DEF Used, Typed
      <4> QED
        BY <2>1, <4>1, NoneAssumption DEF RowsInv, Filled, Used
    <3>3. CASE gusto[t] = old[t] /\ \E key \in Keys : old[t] = Row(a, i, key)
      <4>1. PICK key \in Keys : row = Row(a, i, key)
        BY <2>1, <3>3
      <4>2. Row(a, i, key).by = "no one"
        BY DEF Row
      <4> QED
        BY <4>1, <4>2
    <3> QED
      BY <1>6, <3>1, <3>2, <3>3
  <2> QED
    BY <2>4, <2>5 DEF Swept
<1> QED
  BY <1>8, <1>9

\* Only an import's commit adds to the imports on record.
LEMMA StepSweeps ==
  ASSUME BooksInv, BooksInv', BooksNext, Used(imports') # Used(imports),
         Used(imports) \subseteq Used(imports'), NEW t \in Used(transactions')
  PROVE  Swept(t)
<1> USE DEF BooksInv
<1>1. imports' # imports
  OBVIOUS
<1>2. ASSUME NEW p \in Clerks, ImportsNext(p)
      PROVE  Swept(t)
  <2>1. CASE \E f \in Files, a \in AccountIds : Import(p, f, a)
    BY <2>1, ImportSweeps DEF Import
  <2>2. ASSUME NEW a \in AccountIds, ConfirmImport(p, a)
        PROVE  Swept(t)
    <3>1. spool[op[p].it] \in Files
      BY <2>2 DEF ConfirmImport, OpsMeant, Meaning, Typed
    <3> QED
      BY <2>2, <3>1, ImportSweeps DEF ConfirmImport
  <2>3. CASE DeleteImport(p)
    BY <2>3 DEF DeleteImport, Used, Typed
  <2> QED
    BY <1>1, <1>2, <2>1, <2>2, <2>3
    DEF ImportsNext, Upload, ResolveUpload, ConfirmKnown, DeleteUpload, ShowImport, tables
<1>3. ASSUME NEW p \in Clerks, FilingNext(p)
      PROVE  FALSE
  BY <1>1, <1>3 DEF FilingNext, ReadRules, ReadRows, FileNext, PassEnds, PickCategory, ApplyReview, UndoReview,
       EditCategory, SetFlag, CheckRule, AddRule, UpdateRule, DeactivateRule, tables
<1>4. ASSUME NEW p \in Clerks, ChartNext(p)
      PROVE  FALSE
  BY <1>1, <1>4 DEF ChartNext, AddCategory, CountUses, CheckName, RetireCategory, AddAccount,
       RenameAccount, Reconcile, DeleteAccount, CountMonth, tables, Used, Typed
<1>5. ASSUME NEW p \in Clerks, Abandon(p)
      PROVE  FALSE
  BY <1>1, <1>5 DEF Abandon, tables
<1>6. ASSUME NEW u \in Uploads, PurgeStale(u)
      PROVE  FALSE
  BY <1>1, <1>6 DEF PurgeStale
<1> QED
  BY <1>2, <1>3, <1>4, <1>5, <1>6 DEF BooksNext

\* When an import commits, no row an active rule matches is left without a
\* category, and what the pass filed was filed by a rule none outranks.
THEOREM ImportsSweep == BooksSpec => SweptClean
<1>1. BooksInv /\ BooksInv' /\ [BooksNext]_booksVars =>
        [Used(imports') # Used(imports) /\ Used(imports) \subseteq Used(imports') =>
           \A t \in Used(transactions') : Swept(t)]_booksVars
  BY StepSweeps
<1>2. [Used(imports') # Used(imports) /\ Used(imports) \subseteq Used(imports') =>
         \A t \in Used(transactions') : Swept(t)]_booksVars =>
      [Used(imports') # Used(imports) /\ Used(imports) \subseteq Used(imports') =>
         \A t \in Used(transactions') :
           LET row == transactions'[t]
               rank(c) == {r.priority : r \in {s \in ActiveRules : s.category = c /\ row.key \in Fits[s.pattern]}}
           IN  /\ row.category = None => \A r \in ActiveRules : row.key \notin Fits[r.pattern]
               /\ row.by = "rule" /\ row.category # Payroll[row.key]
                    /\ (transactions[t] = None \/ transactions[t].category = None)
                    => \E best \in rank(row.category) :
                         \A r \in ActiveRules : row.key \in Fits[r.pattern] => r.priority <= best]_booksVars
  BY DEF Swept
<1> QED
  BY <1>1, <1>2, BooksInvariant, PTL DEF BooksSpec, SweptClean
=============================================================================
