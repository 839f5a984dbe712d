--------------------------- MODULE DocumentFiles ---------------------------
(***************************************************************************)
(* Where the PDFs of filed documents are: the rows of documents and their  *)
(* versions, the files beside the database, and the copies of both that    *)
(* backups and restores make (documents/store.rs, documents/record.rs,     *)
(* backup.rs, cli/backup.rs, cli/restore.rs).                              *)
(*                                                                         *)
(* The database and the folder are two things, and no transaction spans    *)
(* them: every command is cut between its steps on one and on the other.   *)
(* What a document's status allows is in DocumentSigning, whether its      *)
(* client is archived in Clients; here any document not closed is revised. *)
(***************************************************************************)
EXTENDS Integers, Sequences, FiniteSets

CONSTANTS
  Filers,        \* processes with the data directory open
  Pdfs,          \* what a PDF holds; same content, same checksum
  Gone,          \* no file, no folder, no backup
  MaxDocs, MaxVersions,  \* bounds: documents, versions of each
  Crews,         \* bound: the sets of processes at work in one behaviour
  MaxFilings, MaxBackups, MaxRestores, MaxMishaps  \* bounds, for each crew

ASSUME FilesAssumption ==
  /\ MaxDocs \in Nat \ {0} /\ MaxVersions \in Nat \ {0}
  /\ Crews \subseteq SUBSET Filers
  /\ MaxFilings \in [Crews -> Nat] /\ MaxBackups \in [Crews -> Nat]
  /\ MaxRestores \in [Crews -> Nat] /\ MaxMishaps \in [Crews -> Nat]

DocIds == 1..MaxDocs
Paths == DocIds \X (1..MaxVersions)        \* documents/<id>/v<number>.pdf
Ledgers == [versions : [DocIds -> Seq(Pdfs)], closed : SUBSET DocIds]
Folders == [Paths -> Pdfs \cup {Gone}] \cup {Gone}
\* A backup: its database, the folder next to it, whether the command that
\* made it ended well, and the files that were missing when it began.
Copies == [ledger : Ledgers, folder : Folders, ended : BOOLEAN, lacked : SUBSET Paths]

ASSUME GoneAssumption == Gone \notin Pdfs \cup Copies \cup [Paths -> Pdfs \cup {Gone}]

VARIABLES
  ledger,    \* the documents and document_versions tables
  live,      \* the documents folder
  staged,    \* documents.restoring
  replaced,  \* documents.replaced
  backup,    \* what is at the path the operator backs up to
  safeties,  \* the copies restores made of what they replaced
  task,      \* what each process is in the middle of
  crew,      \* bound: the processes at work
  filed,     \* history: every version filed and its content
  mishaps, backups  \* bounds: writes that failed and processes killed, backups begun

filesVars == <<ledger, live, staged, replaced, backup, safeties, task, crew, filed, mishaps, backups>>

NoTask == [at |-> "none", path |-> <<1, 1>>, pdf |-> Gone, temp |-> Gone, to |-> 0, from |-> -1]
EmptyFolder == [f \in Paths |-> Gone]

FilesInit ==
  /\ ledger = [versions |-> [d \in DocIds |-> <<>>], closed |-> {}]
  /\ live = Gone /\ staged = Gone /\ replaced = Gone
  /\ backup = Gone /\ safeties = <<>>
  /\ task = [p \in Filers |-> NoTask]
  /\ crew \in Crews
  /\ filed = {} /\ mishaps = 0 /\ backups = 0

copies == <<staged, replaced, backup, safeties>>
counts == <<crew, mishaps, backups>>

Free(p) == p \in crew /\ task[p] = NoTask
In(p, step) == task[p].at = step
Turns(p, next) == task' = [task EXCEPT ![p] = next]
Steps(p, step) == Turns(p, [task[p] EXCEPT !.at = step])
Stops(p) == Turns(p, NoTask)

\* A transaction that inserted holds the database's one write lock.
Writing == \E p \in Filers : task[p].at \in {"writing", "committing"}

HasVersion(l, f) == f[2] \in 1..Len(l.versions[f[1]])
IsFiled(d) == ledger.versions[d] # <<>>
Holds(folder, f, pdf) == folder # Gone /\ folder[f] = pdf

(* ------------------------- filing and revising ------------------------- *)

\* Filing inserts the rows before it writes the file, in one transaction. A
\* document that is withdrawn or declined no longer holds its PDF.
InsertDocument(p, pdf) ==
  /\ Free(p) /\ ~Writing /\ Cardinality(filed) < MaxFilings[crew]
  /\ \A d \in DocIds \ ledger.closed : \A n \in 1..Len(ledger.versions[d]) : ledger.versions[d][n] # pdf
  /\ \E d \in DocIds : /\ ~IsFiled(d) /\ \A e \in 1 .. d - 1 : IsFiled(e)
                       /\ Turns(p, [NoTask EXCEPT !.at = "writing", !.path = <<d, 1>>, !.pdf = pdf])
  /\ UNCHANGED <<ledger, live, copies, filed, counts>>

\* The status is read before the transaction that revises.
CheckRevision(p, d, pdf) ==
  /\ Free(p) /\ IsFiled(d) /\ d \notin ledger.closed /\ Cardinality(filed) < MaxFilings[crew]
  /\ Turns(p, [NoTask EXCEPT !.at = "revising", !.path = <<d, 1>>, !.pdf = pdf])
  /\ UNCHANGED <<ledger, live, copies, filed, counts>>

InsertVersion(p) ==
  LET d == task[p].path[1]
      n == Len(ledger.versions[d])
  IN  /\ In(p, "revising") /\ ~Writing
      /\ IF n \in 1 .. MaxVersions - 1 /\ \A i \in 1..n : ledger.versions[d][i] # task[p].pdf
         THEN Turns(p, [task[p] EXCEPT !.at = "writing", !.path = <<d, n + 1>>])
         ELSE Stops(p)
      /\ UNCHANGED <<ledger, live, copies, filed, counts>>

Folder == IF live = Gone THEN EmptyFolder ELSE live

WriteFile(p) ==
  /\ In(p, "writing") /\ Steps(p, "committing")
  /\ live' = [Folder EXCEPT ![task[p].path] = task[p].pdf]
  /\ UNCHANGED <<ledger, copies, filed, counts>>

Committed(l, f, pdf) == [l EXCEPT !.versions[f[1]] = Append(@, pdf)]

CommitVersion(p) ==
  /\ In(p, "committing") /\ Stops(p)
  /\ ledger' = Committed(ledger, task[p].path, task[p].pdf)
  /\ filed' = filed \cup {<<task[p].path, task[p].pdf>>}
  /\ UNCHANGED <<live, copies, counts>>

Mishap == mishaps < MaxMishaps[crew] /\ mishaps' = mishaps + 1
calm == <<crew, backups>>

\* The disk refuses: what was written is removed, the rows rolled back.
WriteFails(p) ==
  /\ In(p, "writing") /\ Mishap /\ Stops(p)
  /\ \/ live' = [Folder EXCEPT ![task[p].path] = Gone]
     \/ live' = live
  /\ UNCHANGED <<ledger, copies, filed, calm>>

\* A commit that fails has rolled back and let go of the lock before the file
\* is removed.
CommitFails(p) ==
  /\ In(p, "committing") /\ Mishap /\ Steps(p, "removing")
  /\ UNCHANGED <<ledger, live, copies, filed, calm>>

RemoveFile(p) ==
  /\ In(p, "removing") /\ Stops(p)
  /\ live' = IF live = Gone THEN Gone ELSE [live EXCEPT ![task[p].path] = Gone]
  /\ UNCHANGED <<ledger, copies, filed, counts>>

\* Withdrawn or declined.
CloseDocument(p, d) ==
  /\ Free(p) /\ ~Writing /\ IsFiled(d) /\ d \notin ledger.closed
  /\ ledger' = [ledger EXCEPT !.closed = @ \cup {d}]
  /\ UNCHANGED <<live, copies, task, filed, counts>>

(* ------------------------------- backups ------------------------------- *)

Lacking == {f \in Paths : HasVersion(ledger, f) /\ ~Holds(live, f, ledger.versions[f[1]][f[2]])}
Snapshot(folder) == [ledger |-> ledger, folder |-> folder, ended |-> FALSE, lacked |-> Lacking]

\* The copy being made: the backup, or a restore's safety copy.
Target(k) == IF k = 0 THEN backup ELSE safeties[k]
SetTarget(k, copy) ==
  IF k = 0 THEN backup' = copy /\ safeties' = safeties
  ELSE safeties' = [safeties EXCEPT ![k] = copy] /\ backup' = backup

\* The database first: whatever it lists has its file by now. A backup to the
\* same path replaces its database at once and its folder later. The walk of
\* the folder begins, and remembers what is there.
StartBackup(p) ==
  /\ Free(p) /\ backups < MaxBackups[crew] /\ backups' = backups + 1
  /\ backup' = Snapshot(IF backup = Gone THEN Gone ELSE backup.folder)
  /\ Turns(p, [NoTask EXCEPT !.at = "copying", !.temp = live])
  /\ UNCHANGED <<ledger, live, staged, replaced, safeties, filed, crew, mishaps>>

\* What a copy is for: a backup is done, a restore goes on.
AfterCopy(p) == IF task[p].from = -1 THEN Stops(p) ELSE Turns(p, [task[p] EXCEPT !.at = "replacing", !.temp = Gone])

\* Without a documents folder nothing is copied, and a folder left by an
\* earlier backup to this path stays.
CopyNothing(p) ==
  /\ In(p, "copying") /\ live = Gone /\ AfterCopy(p)
  /\ SetTarget(task[p].to, [Target(task[p].to) EXCEPT !.ended = TRUE])
  /\ UNCHANGED <<ledger, live, staged, replaced, filed, counts>>

\* The files are copied one by one: each as it was when the walk began or as
\* it is by the end.
Walked(before, late) ==
  [f \in Paths |-> IF f \in late THEN live[f] ELSE IF before = Gone THEN Gone ELSE before[f]]

CopyTree(p) ==
  /\ In(p, "copying") /\ live # Gone
  /\ \E late \in SUBSET Paths :
       Turns(p, [task[p] EXCEPT !.at = "clearing", !.temp = Walked(@, late)])
  /\ UNCHANGED <<ledger, live, copies, filed, counts>>

ClearOldCopy(p) ==
  /\ In(p, "clearing") /\ Steps(p, "placing")
  /\ SetTarget(task[p].to, [Target(task[p].to) EXCEPT !.folder = Gone])
  /\ UNCHANGED <<ledger, live, staged, replaced, filed, counts>>

PlaceCopy(p) ==
  /\ In(p, "placing") /\ AfterCopy(p)
  /\ SetTarget(task[p].to, [Target(task[p].to) EXCEPT !.folder = task[p].temp, !.ended = TRUE])
  /\ UNCHANGED <<ledger, live, staged, replaced, filed, counts>>

\* Mutant: a copy that failed is not reported.
CopyFailsQuietly(p) ==
  /\ task[p].at \in {"copying", "clearing", "placing"} /\ Mishap /\ AfterCopy(p)
  /\ SetTarget(task[p].to, [Target(task[p].to) EXCEPT !.ended = TRUE])
  /\ UNCHANGED <<ledger, live, staged, replaced, filed, calm>>

CopyFails(p) ==
  /\ task[p].at \in {"copying", "clearing", "placing"} /\ Mishap /\ Stops(p)
  /\ UNCHANGED <<ledger, live, copies, filed, calm>>

(* ------------------------------- restores ------------------------------ *)

\* Mutant: only the database is copied before it is replaced.
StartRestoreDatabaseOnly(p, k) ==
  /\ Free(p) /\ Len(safeties) < MaxRestores[crew]
  /\ k \in 0..Len(safeties) /\ Target(k) # Gone
  /\ safeties' = Append(safeties, [Snapshot(Gone) EXCEPT !.ended = TRUE])
  /\ Turns(p, [NoTask EXCEPT !.at = "replacing", !.to = Len(safeties) + 1, !.from = k])
  /\ UNCHANGED <<ledger, live, staged, replaced, backup, filed, counts>>

\* A restore first copies what it is about to replace, database and folder.
StartRestore(p, k) ==
  /\ Free(p) /\ Len(safeties) < MaxRestores[crew]
  /\ k \in 0..Len(safeties) /\ Target(k) # Gone
  /\ safeties' = Append(safeties, Snapshot(Gone))
  /\ Turns(p, [NoTask EXCEPT !.at = "copying", !.temp = live, !.to = Len(safeties) + 1, !.from = k])
  /\ UNCHANGED <<ledger, live, staged, replaced, backup, filed, counts>>

\* The database is replaced whole; a backup without a folder leaves the files.
ReplaceLedger(p) ==
  LET copy == Target(task[p].from)
  IN  /\ In(p, "replacing") /\ ledger' = copy.ledger
      /\ IF copy.folder = Gone THEN Stops(p) ELSE Steps(p, "staging")
      /\ UNCHANGED <<live, copies, filed, counts>>

\* What an earlier restore left behind goes before the copy is staged.
StageCopy(p) ==
  /\ In(p, "staging") /\ Steps(p, "swapping")
  /\ replaced' = Gone /\ staged' = Target(task[p].from).folder
  /\ UNCHANGED <<ledger, live, backup, safeties, filed, counts>>

StageFails(p) ==
  /\ In(p, "staging") /\ Mishap /\ Stops(p)
  /\ replaced' = Gone /\ staged' = Gone
  /\ UNCHANGED <<ledger, live, backup, safeties, filed, calm>>

MoveLiveAside(p) ==
  /\ In(p, "swapping") /\ Steps(p, "swapped")
  /\ replaced' = live /\ live' = Gone
  /\ UNCHANGED <<ledger, staged, backup, safeties, filed, counts>>

MoveLiveFails(p) ==
  /\ In(p, "swapping") /\ live # Gone /\ Mishap /\ Stops(p)
  /\ staged' = Gone
  /\ UNCHANGED <<ledger, live, replaced, backup, safeties, filed, calm>>

MoveStagedIn(p) ==
  /\ In(p, "swapped") /\ Steps(p, "dropping")
  /\ live' = staged /\ staged' = Gone
  /\ UNCHANGED <<ledger, replaced, backup, safeties, filed, counts>>

\* The swap is taken back.
MoveStagedFails(p) ==
  /\ In(p, "swapped") /\ Mishap /\ Stops(p)
  /\ live' = replaced /\ replaced' = Gone /\ staged' = Gone
  /\ UNCHANGED <<ledger, backup, safeties, filed, calm>>

DropReplaced(p) ==
  /\ In(p, "dropping") /\ Stops(p)
  /\ replaced' = Gone
  /\ UNCHANGED <<ledger, live, staged, backup, safeties, filed, counts>>

(* --------------------------- the specification ------------------------- *)

\* A process dies; its transaction is rolled back, its folders stay.
Kill(p) ==
  /\ task[p] # NoTask /\ Mishap /\ Stops(p)
  /\ UNCHANGED <<ledger, live, copies, filed, calm>>

FilesNext ==
  \E p \in Filers :
    \/ \E pdf \in Pdfs : InsertDocument(p, pdf) \/ \E d \in DocIds : CheckRevision(p, d, pdf)
    \/ \E d \in DocIds : CloseDocument(p, d)
    \/ InsertVersion(p) \/ WriteFile(p) \/ CommitVersion(p)
    \/ WriteFails(p) \/ CommitFails(p) \/ RemoveFile(p)
    \/ StartBackup(p) \/ CopyNothing(p) \/ CopyTree(p) \/ ClearOldCopy(p) \/ PlaceCopy(p) \/ CopyFails(p)
    \/ \E k \in 0..Len(safeties) : StartRestore(p, k)
    \/ ReplaceLedger(p) \/ StageCopy(p) \/ StageFails(p)
    \/ MoveLiveAside(p) \/ MoveLiveFails(p) \/ MoveStagedIn(p) \/ MoveStagedFails(p) \/ DropReplaced(p)
    \/ Kill(p)

FilesSpec == FilesInit /\ [][FilesNext]_filesVars

(* ------------------------------ properties ----------------------------- *)

FileSteps == {"none", "revising", "writing", "committing", "removing", "copying", "clearing", "placing",
              "replacing", "staging", "swapping", "swapped", "dropping"}

\* Tables, folders and copies are what they are named for, and one process at
\* most is inside a write transaction.
FilesTypeOK ==
  /\ ledger \in Ledgers /\ {live, staged, replaced} \subseteq Folders
  /\ backup \in Copies \cup {Gone} /\ safeties \in Seq(Copies)
  /\ crew \in Crews /\ filed \subseteq Paths \X Pdfs
  /\ \A p \in Filers :
       /\ task[p].at \in FileSteps /\ task[p].path \in Paths
       /\ task[p].pdf \in Pdfs \cup {Gone} /\ task[p].temp \in Folders
       /\ task[p].to \in 0..Len(safeties) /\ task[p].from \in -1..Len(safeties)
  /\ \A p, q \in Filers : {task[p].at, task[q].at} \subseteq {"writing", "committing"} => p = q

\* A database and a folder that list and hold a version's very content.
Keeps(l, folder, version) ==
  LET f == version[1]
  IN  HasVersion(l, f) /\ l.versions[f[1]][f[2]] = version[2] /\ Holds(folder, f, version[2])

\* A PDF that was filed can be had again, with its row: it is in the books and
\* the folder, or in a safety copy, whatever was restored, killed or refused on
\* the way.
NothingFiledIsLost ==
  \A version \in filed :
    \/ Keeps(ledger, live, version)
    \/ \E k \in DOMAIN safeties : Keeps(safeties[k].ledger, safeties[k].folder, version)

\* A backup that ended well has the file of every version it lists, though
\* documents were filed and revised while it was made, unless the file was
\* missing before.
BackupIsWhole ==
  \A copy \in {backup} \cup {safeties[k] : k \in DOMAIN safeties} :
    (copy # Gone /\ copy.ended) =>
      \A f \in Paths \ copy.lacked :
        HasVersion(copy.ledger, f) => Holds(copy.folder, f, copy.ledger.versions[f[1]][f[2]])
=============================================================================
