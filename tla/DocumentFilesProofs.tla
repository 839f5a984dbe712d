------------------------ MODULE DocumentFilesProofs ------------------------
(***************************************************************************)
(* Proofs about DocumentFiles, for any number of processes, documents,     *)
(* versions, backups, restores and mishaps: variables keep their kinds;    *)
(* and, where nothing that refuses or restores has company, no version     *)
(* filed is lost and every backup that ended well is whole.                *)
(***************************************************************************)
EXTENDS DocumentFiles, TLAPS

-----------------------------------------------------------------------------
(* Tables, folders and copies are what they are named for *)

Tasks == [at : FileSteps, path : Paths, pdf : Pdfs \cup {Gone}, temp : Folders,
          to : Nat, from : Nat \cup {-1}]

Inside   == {"writing", "committing"}
CopySteps == {"copying", "clearing", "placing"}

\* What a process holds is there: its PDF, the copy it makes, the copy it
\* restores from.
TaskFits(t) ==
  /\ t.at \in {"revising", "writing", "committing", "removing"} => t.pdf \in Pdfs
  /\ t.to \in 0..Len(safeties) /\ t.from \in -1..Len(safeties)
  /\ t.at \in CopySteps /\ t.to = 0 => backup # Gone
  /\ t.at \in CopySteps \cup {"replacing", "staging"} /\ t.from = 0 => backup # Gone
  /\ t.at \in {"replacing", "staging", "swapping", "swapped", "dropping"} => t.from # -1

OneWriter == \A p, q \in Filers : {task[p].at, task[q].at} \subseteq Inside => p = q

FilesKinds ==
  /\ ledger \in Ledgers /\ live \in Folders /\ staged \in Folders /\ replaced \in Folders
  /\ backup \in Copies \cup {Gone} /\ safeties \in Seq(Copies)
  /\ crew \in Crews /\ filed \subseteq Paths \X Pdfs
  /\ task \in [Filers -> Tasks]
  /\ \A p \in Filers : TaskFits(task[p])
  /\ OneWriter

LEMMA NoTaskTyped == NoTask \in Tasks /\ NoTask.at = "none" /\ (FilesKinds => TaskFits(NoTask))
<1>1. <<1, 1>> \in Paths
  BY FilesAssumption DEF Paths, DocIds
<1>2. NoTask \in Tasks
  BY <1>1 DEF NoTask, Tasks, Folders, FileSteps
<1>3. ASSUME FilesKinds PROVE TaskFits(NoTask)
  <2>1. Len(safeties) \in Nat
    BY <1>3 DEF FilesKinds
  <2> QED
    BY <2>1 DEF TaskFits, NoTask, CopySteps
<1> QED
  BY <1>2, <1>3 DEF NoTask

\* A step of one process: the others hold what they held.
LEMMA OneTaskTyped ==
  ASSUME FilesKinds, NEW p \in Filers, NEW t \in Tasks, task' = [task EXCEPT ![p] = t],
         TaskFits(t)', safeties' \in Seq(Copies), Len(safeties) <= Len(safeties'),
         backup # Gone => backup' # Gone,
         t.at \in Inside => task[p].at \in Inside \/ ~Writing
  PROVE  task' \in [Filers -> Tasks] /\ (\A q \in Filers : TaskFits(task[q])') /\ OneWriter'
<1>1. task' \in [Filers -> Tasks]
  BY DEF FilesKinds
<1>2. ASSUME NEW q \in Filers PROVE TaskFits(task[q])'
  <2>1. CASE q = p
    BY <2>1 DEF FilesKinds
  <2>2. CASE q # p
    <3>1. PICK u : u = task[q]
      OBVIOUS
    <3>2. TaskFits(u) /\ u \in Tasks /\ Len(safeties) \in Nat /\ Len(safeties') \in Nat
      BY <3>1 DEF FilesKinds
    <3>3. TaskFits(u)'
      BY <3>2 DEF TaskFits, Tasks
    <3>4. task'[q] = u
      BY <2>2, <3>1 DEF FilesKinds
    <3> QED
      BY <3>3, <3>4
  <2> QED
    BY <2>1, <2>2
<1>3. OneWriter'
  <2>1. \A q \in Filers : task'[q] = IF q = p THEN t ELSE task[q]
    BY DEF FilesKinds
  <2> QED
    BY <2>1 DEF FilesKinds, OneWriter, Writing, Inside
<1> QED
  BY <1>1, <1>2, <1>3

\* Most steps leave the copies alone.
LEMMA TaskMoves ==
  ASSUME FilesKinds, NEW p \in Filers, NEW t \in Tasks, task' = [task EXCEPT ![p] = t],
         TaskFits(t), UNCHANGED <<safeties, backup>>,
         t.at \in Inside => task[p].at \in Inside \/ ~Writing
  PROVE  task' \in [Filers -> Tasks] /\ (\A q \in Filers : TaskFits(task[q])') /\ OneWriter'
<1>1. TaskFits(t)'
  BY DEF TaskFits
<1>2. Len(safeties) <= Len(safeties') /\ safeties' \in Seq(Copies)
  BY DEF FilesKinds
<1> QED
  BY <1>1, <1>2, OneTaskTyped

\* A process that stops holds nothing.
LEMMA TaskStops ==
  ASSUME FilesKinds, NEW p \in Filers, Stops(p), UNCHANGED <<safeties, backup>>
  PROVE  task' \in [Filers -> Tasks] /\ (\A q \in Filers : TaskFits(task[q])') /\ OneWriter'
BY NoTaskTyped, TaskMoves DEF Stops, Turns, Inside

\* One that only moves on holds the same.
LEMMA TaskGoesOn ==
  ASSUME FilesKinds, NEW p \in Filers, NEW step \in FileSteps, Steps(p, step),
         UNCHANGED <<safeties, backup>>,
         step \in {"revising", "writing", "committing", "removing"} =>
           task[p].at \in {"revising", "writing", "committing", "removing"},
         step \in Inside => task[p].at \in Inside \/ ~Writing,
         step \in CopySteps => task[p].at \in CopySteps,
         step \in {"replacing", "staging"} => task[p].at \in CopySteps \cup {"replacing", "staging"},
         step \in {"replacing", "staging", "swapping", "swapped", "dropping"} =>
           task[p].at \in {"replacing", "staging", "swapping", "swapped", "dropping"}
  PROVE  task' \in [Filers -> Tasks] /\ (\A q \in Filers : TaskFits(task[q])') /\ OneWriter'
<1>1. PICK c : c = task[p]
  OBVIOUS
<1>2. c \in Tasks /\ TaskFits(c)
  BY <1>1 DEF FilesKinds
<1>3. PICK t : t = [c EXCEPT !.at = step]
  OBVIOUS
<1>4. /\ t \in Tasks /\ t.at = step /\ t.pdf = c.pdf /\ t.to = c.to /\ t.from = c.from
      /\ task' = [task EXCEPT ![p] = t]
  BY <1>1, <1>2, <1>3 DEF Tasks, Steps, Turns
<1>5. TaskFits(t)
  BY <1>1, <1>2, <1>4 DEF TaskFits
<1> QED
  BY <1>1, <1>4, <1>5, TaskMoves

-----------------------------------------------------------------------------
(* The same, action by action: filing and revising *)

LEMMA InsertDocumentKinds ==
  ASSUME FilesKinds, NEW p \in Filers, NEW pdf \in Pdfs, InsertDocument(p, pdf)
  PROVE  FilesKinds'
<1>1. PICK d \in DocIds : task' = [task EXCEPT ![p] = [NoTask EXCEPT !.at = "writing", !.path = <<d, 1>>, !.pdf = pdf]]
  BY DEF InsertDocument, Turns
<1>2. PICK t : t = [NoTask EXCEPT !.at = "writing", !.path = <<d, 1>>, !.pdf = pdf]
  OBVIOUS
<1>3. <<d, 1>> \in Paths
  BY FilesAssumption DEF Paths
<1>4. t \in Tasks /\ t.at = "writing" /\ t.pdf = pdf /\ t.to = 0 /\ t.from = -1
  BY <1>2, <1>3, NoTaskTyped DEF Tasks, NoTask, FileSteps
<1>5. TaskFits(t)
  BY <1>4, NoTaskTyped DEF TaskFits, NoTask, CopySteps
<1>6. UNCHANGED <<ledger, live, staged, replaced, backup, safeties, crew, filed>> /\ ~Writing
  BY DEF InsertDocument, copies, counts
<1>7. task' \in [Filers -> Tasks] /\ (\A q \in Filers : TaskFits(task[q])') /\ OneWriter'
  BY <1>1, <1>2, <1>4, <1>5, <1>6, TaskMoves
<1> QED
  BY <1>6, <1>7 DEF FilesKinds

LEMMA CheckRevisionKinds ==
  ASSUME FilesKinds, NEW p \in Filers, NEW d \in DocIds, NEW pdf \in Pdfs, CheckRevision(p, d, pdf)
  PROVE  FilesKinds'
<1>1. PICK t : t = [NoTask EXCEPT !.at = "revising", !.path = <<d, 1>>, !.pdf = pdf]
  OBVIOUS
<1>2. <<d, 1>> \in Paths
  BY FilesAssumption DEF Paths
<1>3. t \in Tasks /\ t.at = "revising" /\ t.pdf = pdf /\ t.to = 0 /\ t.from = -1
  BY <1>1, <1>2, NoTaskTyped DEF Tasks, NoTask, FileSteps
<1>4. TaskFits(t)
  BY <1>3, NoTaskTyped DEF TaskFits, NoTask, CopySteps
<1>5. /\ UNCHANGED <<ledger, live, staged, replaced, backup, safeties, crew, filed>>
      /\ task' = [task EXCEPT ![p] = t]
  BY <1>1 DEF CheckRevision, Turns, copies, counts
<1>6. task' \in [Filers -> Tasks] /\ (\A q \in Filers : TaskFits(task[q])') /\ OneWriter'
  BY <1>3, <1>4, <1>5, TaskMoves DEF Inside
<1> QED
  BY <1>5, <1>6 DEF FilesKinds

LEMMA InsertVersionKinds ==
  ASSUME FilesKinds, NEW p \in Filers, InsertVersion(p)
  PROVE  FilesKinds'
<1>1. PICK c : c = task[p]
  OBVIOUS
<1>2. PICK n : n = Len(ledger.versions[c.path[1]])
  OBVIOUS
<1>3. /\ c.at = "revising" /\ ~Writing /\ c \in Tasks /\ TaskFits(c)
      /\ UNCHANGED <<ledger, live, staged, replaced, backup, safeties, crew, filed>>
      /\ \/ Stops(p)
         \/ n \in 1 .. MaxVersions - 1 /\ Turns(p, [c EXCEPT !.at = "writing", !.path = <<c.path[1], n + 1>>])
  BY <1>1, <1>2 DEF InsertVersion, In, FilesKinds, copies, counts
<1>4. CASE Stops(p)
  BY <1>3, <1>4, TaskStops DEF FilesKinds
<1>5. CASE n \in 1 .. MaxVersions - 1 /\ Turns(p, [c EXCEPT !.at = "writing", !.path = <<c.path[1], n + 1>>])
  <2>1. PICK t : t = [c EXCEPT !.at = "writing", !.path = <<c.path[1], n + 1>>]
    OBVIOUS
  <2>2. <<c.path[1], n + 1>> \in Paths
    BY <1>3, <1>5, FilesAssumption DEF Tasks, Paths
  <2>3. t \in Tasks /\ t.at = "writing" /\ t.pdf = c.pdf /\ t.to = c.to /\ t.from = c.from
    BY <1>3, <2>1, <2>2 DEF Tasks, FileSteps
  <2>4. TaskFits(t)
    BY <1>3, <2>3 DEF TaskFits, CopySteps
  <2>5. task' \in [Filers -> Tasks] /\ (\A q \in Filers : TaskFits(task[q])') /\ OneWriter'
    BY <1>3, <1>5, <2>1, <2>3, <2>4, TaskMoves DEF Turns
  <2> QED
    BY <1>3, <2>5 DEF FilesKinds
<1> QED
  BY <1>3, <1>4, <1>5

\* A file put into a folder, or taken out of it, leaves a folder.
LEMMA FolderTyped ==
  ASSUME FilesKinds, NEW f \in Paths, NEW x \in Pdfs \cup {Gone}
  PROVE  [Folder EXCEPT ![f] = x] \in Folders /\ (live # Gone => [live EXCEPT ![f] = x] \in Folders)
BY DEF FilesKinds, Folder, EmptyFolder, Folders

LEMMA WriteFileKinds ==
  ASSUME FilesKinds, NEW p \in Filers, WriteFile(p)
  PROVE  FilesKinds'
<1>1. /\ task[p].at = "writing" /\ Steps(p, "committing")
      /\ UNCHANGED <<ledger, staged, replaced, backup, safeties, crew, filed>>
  BY DEF WriteFile, In, copies, counts
<1>2. task[p].path \in Paths /\ task[p].pdf \in Pdfs \cup {Gone}
  BY DEF FilesKinds, Tasks
<1>3. live' \in Folders
  BY <1>2, FolderTyped DEF WriteFile
<1>4. task' \in [Filers -> Tasks] /\ (\A q \in Filers : TaskFits(task[q])') /\ OneWriter'
  BY <1>1, TaskGoesOn DEF FileSteps, Inside, CopySteps
<1> QED
  BY <1>1, <1>3, <1>4 DEF FilesKinds

LEMMA CommitVersionKinds ==
  ASSUME FilesKinds, NEW p \in Filers, CommitVersion(p)
  PROVE  FilesKinds'
<1>1. PICK c : c = task[p]
  OBVIOUS
<1>2. /\ c.at = "committing" /\ c \in Tasks /\ TaskFits(c) /\ Stops(p)
      /\ ledger' = Committed(ledger, c.path, c.pdf) /\ filed' = filed \cup {<<c.path, c.pdf>>}
      /\ UNCHANGED <<live, staged, replaced, backup, safeties, crew>>
  BY <1>1 DEF CommitVersion, In, FilesKinds, copies, counts
<1>3. c.path \in Paths /\ c.path[1] \in DocIds /\ c.pdf \in Pdfs
  BY <1>2 DEF TaskFits, Tasks, Paths
<1>4. ledger' \in Ledgers
  <2>1. ledger.versions[c.path[1]] \in Seq(Pdfs)
    BY <1>3 DEF FilesKinds, Ledgers
  <2>2. Append(ledger.versions[c.path[1]], c.pdf) \in Seq(Pdfs)
    BY <1>3, <2>1
  <2> QED
    BY <1>2, <1>3, <2>2 DEF FilesKinds, Ledgers, Committed
<1>5. filed' \subseteq Paths \X Pdfs
  BY <1>2, <1>3 DEF FilesKinds
<1>6. task' \in [Filers -> Tasks] /\ (\A q \in Filers : TaskFits(task[q])') /\ OneWriter'
  BY <1>2, TaskStops
<1> QED
  BY <1>2, <1>4, <1>5, <1>6 DEF FilesKinds

LEMMA FilingFailsKinds ==
  ASSUME FilesKinds, NEW p \in Filers, WriteFails(p) \/ CommitFails(p) \/ RemoveFile(p)
  PROVE  FilesKinds'
<1>1. UNCHANGED <<ledger, staged, replaced, backup, safeties, crew, filed>>
  BY DEF WriteFails, CommitFails, RemoveFile, copies, counts, calm
<1>2. task[p].path \in Paths
  BY DEF FilesKinds, Tasks
<1>3. live' \in Folders
  <2>1. live \in Folders /\ Gone \in Folders
    BY DEF FilesKinds, Folders
  <2>2. [Folder EXCEPT ![task[p].path] = Gone] \in Folders
    BY <1>2, FolderTyped
  <2>3. live # Gone => [live EXCEPT ![task[p].path] = Gone] \in Folders
    BY <1>2, FolderTyped
  <2> QED
    BY <2>1, <2>2, <2>3 DEF WriteFails, CommitFails, RemoveFile
<1>4. task' \in [Filers -> Tasks] /\ (\A q \in Filers : TaskFits(task[q])') /\ OneWriter'
  <2>1. CASE CommitFails(p)
    BY <1>1, <2>1, TaskGoesOn DEF CommitFails, In, FileSteps, Inside, CopySteps
  <2>2. CASE WriteFails(p) \/ RemoveFile(p)
    BY <1>1, <2>2, TaskStops DEF WriteFails, RemoveFile
  <2> QED
    BY <2>1, <2>2
<1> QED
  BY <1>1, <1>3, <1>4 DEF FilesKinds

LEMMA CloseDocumentKinds ==
  ASSUME FilesKinds, NEW p \in Filers, NEW d \in DocIds, CloseDocument(p, d)
  PROVE  FilesKinds'
<1>1. UNCHANGED <<live, staged, replaced, backup, safeties, crew, filed, task>>
  BY DEF CloseDocument, copies, counts
<1>2. ledger' \in Ledgers
  BY DEF CloseDocument, FilesKinds, Ledgers
<1> QED
  BY <1>1, <1>2 DEF FilesKinds, TaskFits, OneWriter

-----------------------------------------------------------------------------
(* Backups and restores *)

LEMMA SnapshotTyped ==
  ASSUME FilesKinds, NEW folder \in Folders
  PROVE  Snapshot(folder) \in Copies /\ Snapshot(folder) # Gone
<1>1. Snapshot(folder) \in Copies
  BY DEF Snapshot, Copies, FilesKinds, Lacking
<1> QED
  BY <1>1, GoneAssumption

\* The copy being made, and the one restored from, are copies.
LEMMA TargetTyped ==
  ASSUME FilesKinds, NEW k \in 0..Len(safeties), k = 0 => backup # Gone
  PROVE  Target(k) \in Copies
<1>1. CASE k = 0
  BY <1>1 DEF Target, FilesKinds
<1>2. CASE k # 0
  <2>1. k \in 1..Len(safeties)
    BY <1>2 DEF FilesKinds
  <2> QED
    BY <1>2, <2>1 DEF Target, FilesKinds
<1> QED
  BY <1>1, <1>2

LEMMA SetTargetTyped ==
  ASSUME FilesKinds, NEW k \in 0..Len(safeties), NEW copy \in Copies, SetTarget(k, copy)
  PROVE  /\ backup' \in Copies \cup {Gone} /\ safeties' \in Seq(Copies)
         /\ Len(safeties') = Len(safeties)
         /\ backup # Gone => backup' # Gone
<1>1. CASE k = 0
  BY <1>1, GoneAssumption DEF SetTarget, FilesKinds
<1>2. CASE k # 0
  BY <1>2 DEF SetTarget, FilesKinds
<1> QED
  BY <1>1, <1>2

LEMMA StartBackupKinds ==
  ASSUME FilesKinds, NEW p \in Filers, StartBackup(p)
  PROVE  FilesKinds'
<1>1. PICK t : t = [NoTask EXCEPT !.at = "copying", !.temp = live]
  OBVIOUS
<1>2. t \in Tasks /\ t.at = "copying" /\ t.to = 0 /\ t.from = -1
  BY <1>1, NoTaskTyped DEF Tasks, NoTask, FileSteps, FilesKinds
<1>3. backup' \in Copies /\ backup' # Gone
  <2>1. (IF backup = Gone THEN Gone ELSE backup.folder) \in Folders
    BY DEF FilesKinds, Copies, Folders
  <2> QED
    BY <2>1, SnapshotTyped DEF StartBackup
<1>4. /\ UNCHANGED <<ledger, live, staged, replaced, safeties, crew, filed>>
      /\ task' = [task EXCEPT ![p] = t]
  BY <1>1 DEF StartBackup, Turns
<1>5. TaskFits(t)'
  BY <1>2, <1>3, <1>4 DEF TaskFits, FilesKinds, CopySteps
<1>6. task' \in [Filers -> Tasks] /\ (\A q \in Filers : TaskFits(task[q])') /\ OneWriter'
  <2>1. safeties' \in Seq(Copies) /\ Len(safeties) <= Len(safeties')
    BY <1>4 DEF FilesKinds
  <2>2. t.at \in Inside => task[p].at \in Inside \/ ~Writing
    BY <1>2 DEF Inside
  <2> QED
    BY <1>2, <1>3, <1>4, <1>5, <2>1, <2>2, OneTaskTyped
<1> QED
  BY <1>3, <1>4, <1>6 DEF FilesKinds

\* A copy is at an end: the backup is done, or the restore goes on.
LEMMA AfterCopyKinds ==
  ASSUME FilesKinds, NEW p \in Filers, task[p].at \in CopySteps, AfterCopy(p),
         NEW copy \in Copies, SetTarget(task[p].to, copy),
         UNCHANGED <<ledger, live, staged, replaced, filed, crew>>
  PROVE  FilesKinds'
<1>1. PICK c : c = task[p]
  OBVIOUS
<1>2. c \in Tasks /\ TaskFits(c) /\ c.at \in CopySteps
  BY <1>1 DEF FilesKinds
<1>3. /\ backup' \in Copies \cup {Gone} /\ safeties' \in Seq(Copies)
      /\ Len(safeties') = Len(safeties) /\ Len(safeties) \in Nat
      /\ backup # Gone => backup' # Gone
  BY <1>1, <1>2, SetTargetTyped DEF TaskFits, FilesKinds
<1>4. PICK t \in Tasks : task' = [task EXCEPT ![p] = t] /\ TaskFits(t)' /\ t.at \notin Inside
  <2>1. CASE c.from = -1
    <3>1. TaskFits(NoTask)'
      BY <1>3 DEF TaskFits, NoTask, CopySteps
    <3> QED
      BY <1>1, <2>1, <3>1, NoTaskTyped DEF AfterCopy, Stops, Turns, Inside
  <2>2. CASE c.from # -1
    <3>1. PICK t : t = [c EXCEPT !.at = "replacing", !.temp = Gone]
      OBVIOUS
    <3>2. t \in Tasks /\ t.at = "replacing" /\ t.to = c.to /\ t.from = c.from
      BY <1>2, <3>1 DEF Tasks, FileSteps, Folders
    <3>3. TaskFits(t)'
      BY <1>2, <1>3, <2>2, <3>2 DEF TaskFits, CopySteps
    <3> QED
      BY <1>1, <2>2, <3>1, <3>2, <3>3 DEF AfterCopy, Turns, Inside
  <2> QED
    BY <2>1, <2>2
<1>5. task' \in [Filers -> Tasks] /\ (\A q \in Filers : TaskFits(task[q])') /\ OneWriter'
  <2>1. safeties' \in Seq(Copies) /\ Len(safeties) <= Len(safeties')
    BY <1>3
  <2>2. t.at \in Inside => task[p].at \in Inside \/ ~Writing
    BY <1>4
  <2> QED
    BY <1>3, <1>4, <2>1, <2>2, OneTaskTyped
<1> QED
  BY <1>3, <1>5 DEF FilesKinds

\* A walk makes a folder, the very one when nothing changed meanwhile, with the
\* files that were there all along.
LEMMA WalkedTyped ==
  ASSUME FilesKinds, live # Gone, NEW before \in Folders, NEW late \in SUBSET Paths
  PROVE  /\ Walked(before, late) \in Folders
         /\ before = live => Walked(before, late) = live
         /\ Walked(before, late) # Gone
         /\ \A f \in Paths : before # Gone /\ before[f] = live[f] => Walked(before, late)[f] = live[f]
<1>1. live \in [Paths -> Pdfs \cup {Gone}]
  BY DEF FilesKinds, Folders
<1>2. before = Gone \/ before \in [Paths -> Pdfs \cup {Gone}]
  BY DEF Folders
<1>3. Walked(before, late) \in [Paths -> Pdfs \cup {Gone}]
  BY <1>1, <1>2 DEF Walked
<1>4. Walked(before, late) # Gone
  BY <1>3, GoneAssumption
<1>5. before = live => Walked(before, late) = live
  BY <1>1 DEF Walked
<1>6. \A f \in Paths : before # Gone /\ before[f] = live[f] => Walked(before, late)[f] = live[f]
  BY DEF Walked
<1> QED
  BY <1>3, <1>4, <1>5, <1>6 DEF Folders

LEMMA CopyKinds ==
  ASSUME FilesKinds, NEW p \in Filers,
         CopyNothing(p) \/ CopyTree(p) \/ ClearOldCopy(p) \/ PlaceCopy(p) \/ CopyFails(p)
  PROVE  FilesKinds'
<1>1. PICK c : c = task[p]
  OBVIOUS
<1>2. c \in Tasks /\ TaskFits(c) /\ c.at \in CopySteps
  BY <1>1 DEF FilesKinds, CopyNothing, CopyTree, ClearOldCopy, PlaceCopy, CopyFails, In, CopySteps
<1>3. PICK made : made = Target(c.to)
  OBVIOUS
<1>4. c.to \in 0..Len(safeties) /\ made \in Copies
  BY <1>2, <1>3, TargetTyped DEF TaskFits
<1>5. UNCHANGED <<ledger, live, staged, replaced, filed, crew>>
  BY DEF CopyNothing, CopyTree, ClearOldCopy, PlaceCopy, CopyFails, copies, counts, calm
<1>6. CASE CopyNothing(p) \/ PlaceCopy(p)
  <2>1. PICK copy \in Copies : SetTarget(c.to, copy)
    <3>1. /\ [made EXCEPT !.ended = TRUE] \in Copies
          /\ [made EXCEPT !.folder = c.temp, !.ended = TRUE] \in Copies
      BY <1>2, <1>4 DEF Copies, Tasks
    <3> QED
      BY <1>1, <1>3, <1>6, <3>1 DEF CopyNothing, PlaceCopy
  <2> QED
    BY <1>1, <1>2, <1>5, <1>6, <2>1, AfterCopyKinds DEF CopyNothing, PlaceCopy
<1>7. CASE ClearOldCopy(p)
  <2>1. PICK copy \in Copies : SetTarget(c.to, copy)
    <3>1. [made EXCEPT !.folder = Gone] \in Copies
      BY <1>4 DEF Copies, Folders
    <3> QED
      BY <1>1, <1>3, <1>7, <3>1 DEF ClearOldCopy
  <2>2. /\ backup' \in Copies \cup {Gone} /\ safeties' \in Seq(Copies)
        /\ Len(safeties') = Len(safeties) /\ Len(safeties) \in Nat
        /\ backup # Gone => backup' # Gone
    BY <1>4, <2>1, SetTargetTyped DEF FilesKinds
  <2>3. PICK t : t = [c EXCEPT !.at = "placing"]
    OBVIOUS
  <2>4. t \in Tasks /\ t.at = "placing" /\ t.to = c.to /\ t.from = c.from
    BY <1>2, <2>3 DEF Tasks, FileSteps
  <2>5. TaskFits(t)'
    BY <1>2, <2>2, <2>4 DEF TaskFits, CopySteps
  <2>6. task' = [task EXCEPT ![p] = t]
    BY <1>1, <1>7, <2>3 DEF ClearOldCopy, Steps, Turns
  <2>7. task' \in [Filers -> Tasks] /\ (\A q \in Filers : TaskFits(task[q])') /\ OneWriter'
    <3>1. safeties' \in Seq(Copies) /\ Len(safeties) <= Len(safeties')
      BY <2>2
    <3>2. t.at \in Inside => task[p].at \in Inside \/ ~Writing
      BY <2>4 DEF Inside
    <3> QED
      BY <2>2, <2>4, <2>5, <2>6, <3>1, <3>2, OneTaskTyped
  <2> QED
    BY <1>5, <2>2, <2>7 DEF FilesKinds
<1>8. CASE CopyTree(p)
  <2>0a. PICK late \in SUBSET Paths : Turns(p, [c EXCEPT !.at = "clearing", !.temp = Walked(c.temp, late)])
    BY <1>1, <1>8 DEF CopyTree
  <2>0. PICK t : t = [c EXCEPT !.at = "clearing", !.temp = Walked(c.temp, late)]
    OBVIOUS
  <2>1. Walked(c.temp, late) \in Folders
    <3>1. c.temp \in Folders /\ live # Gone
      BY <1>2, <1>8 DEF Tasks, CopyTree
    <3> QED
      BY <3>1, WalkedTyped
  <2>2. t \in Tasks /\ t.at = "clearing" /\ t.to = c.to /\ t.from = c.from
    BY <1>2, <2>0, <2>1 DEF Tasks, FileSteps
  <2>3. TaskFits(t)
    BY <1>2, <2>2 DEF TaskFits, CopySteps
  <2>4. task' = [task EXCEPT ![p] = t] /\ UNCHANGED <<safeties, backup>>
    BY <1>8, <2>0a, <2>0 DEF CopyTree, Turns, copies
  <2>5. task' \in [Filers -> Tasks] /\ (\A q \in Filers : TaskFits(task[q])') /\ OneWriter'
    BY <2>2, <2>3, <2>4, TaskMoves DEF Inside
  <2> QED
    BY <1>5, <2>4, <2>5 DEF FilesKinds
<1>9. CASE CopyFails(p)
  <2>1. Stops(p) /\ UNCHANGED <<safeties, backup>>
    BY <1>9 DEF CopyFails, copies
  <2> QED
    BY <1>5, <2>1, TaskStops DEF FilesKinds
<1> QED
  BY <1>6, <1>7, <1>8, <1>9

LEMMA StartRestoreKinds ==
  ASSUME FilesKinds, NEW p \in Filers, NEW k \in 0..Len(safeties), StartRestore(p, k)
  PROVE  FilesKinds'
<1>1. PICK t : t = [NoTask EXCEPT !.at = "copying", !.temp = live, !.to = Len(safeties) + 1, !.from = k]
  OBVIOUS
<1>2. Len(safeties) \in Nat /\ safeties \in Seq(Copies)
  BY DEF FilesKinds
<1>3. t \in Tasks /\ t.at = "copying" /\ t.to = Len(safeties) + 1 /\ t.from = k
  <2>1. k \in Nat /\ Len(safeties) + 1 \in Nat
    BY <1>2
  <2> QED
    BY <1>1, <2>1, NoTaskTyped DEF Tasks, NoTask, FileSteps, FilesKinds
<1>4. /\ safeties' \in Seq(Copies) /\ Len(safeties') = Len(safeties) + 1
  <2>1. Snapshot(Gone) \in Copies
    BY SnapshotTyped DEF Folders
  <2> QED
    BY <1>2, <2>1 DEF StartRestore
<1>5. /\ UNCHANGED <<ledger, live, staged, replaced, backup, crew, filed>>
      /\ task' = [task EXCEPT ![p] = t] /\ (k = 0 => backup # Gone)
  BY <1>1 DEF StartRestore, Turns, counts, Target
<1>6. TaskFits(t)'
  BY <1>2, <1>3, <1>4, <1>5 DEF TaskFits, CopySteps
<1>7. task' \in [Filers -> Tasks] /\ (\A q \in Filers : TaskFits(task[q])') /\ OneWriter'
  <2>1. safeties' \in Seq(Copies) /\ Len(safeties) <= Len(safeties')
    BY <1>2, <1>4
  <2>2. t.at \in Inside => task[p].at \in Inside \/ ~Writing
    BY <1>3 DEF Inside
  <2> QED
    BY <1>3, <1>5, <1>6, <2>1, <2>2, OneTaskTyped
<1> QED
  BY <1>4, <1>5, <1>7 DEF FilesKinds

LEMMA ReplaceLedgerKinds ==
  ASSUME FilesKinds, NEW p \in Filers, ReplaceLedger(p)
  PROVE  FilesKinds'
<1>1. /\ task[p].at = "replacing" /\ TaskFits(task[p])
      /\ UNCHANGED <<live, staged, replaced, backup, safeties, crew, filed>>
      /\ ledger' = Target(task[p].from).ledger
      /\ Stops(p) \/ Steps(p, "staging")
  BY DEF ReplaceLedger, In, FilesKinds, copies, counts
<1>2. task[p].from \in 0..Len(safeties) /\ (task[p].from = 0 => backup # Gone)
  BY <1>1 DEF TaskFits, CopySteps, FilesKinds, Tasks
<1>3. ledger' \in Ledgers
  <2>1. Target(task[p].from) \in Copies
    BY <1>2, TargetTyped
  <2> QED
    BY <1>1, <2>1 DEF Copies
<1>4. task' \in [Filers -> Tasks] /\ (\A q \in Filers : TaskFits(task[q])') /\ OneWriter'
  <2>1. CASE Stops(p)
    BY <1>1, <2>1, TaskStops
  <2>2. CASE Steps(p, "staging")
    BY <1>1, <2>2, TaskGoesOn DEF FileSteps, Inside, CopySteps
  <2> QED
    BY <1>1, <2>1, <2>2
<1> QED
  BY <1>1, <1>3, <1>4 DEF FilesKinds

LEMMA SwapKinds ==
  ASSUME FilesKinds, NEW p \in Filers,
         \/ StageCopy(p) \/ StageFails(p) \/ MoveLiveAside(p) \/ MoveLiveFails(p)
         \/ MoveStagedIn(p) \/ MoveStagedFails(p) \/ DropReplaced(p)
  PROVE  FilesKinds'
<1>1. UNCHANGED <<ledger, backup, safeties, crew, filed>>
  BY DEF StageCopy, StageFails, MoveLiveAside, MoveLiveFails, MoveStagedIn, MoveStagedFails,
         DropReplaced, counts, calm
<1>2. Gone \in Folders /\ live \in Folders /\ staged \in Folders /\ replaced \in Folders
  BY DEF FilesKinds, Folders
<1>3. StageCopy(p) => Target(task[p].from).folder \in Folders
  <2> SUFFICES ASSUME StageCopy(p) PROVE Target(task[p].from).folder \in Folders
    OBVIOUS
  <2>1. task[p].at = "staging" /\ TaskFits(task[p]) /\ task[p] \in Tasks
    BY DEF StageCopy, In, FilesKinds
  <2>2. task[p].from \in 0..Len(safeties) /\ (task[p].from = 0 => backup # Gone)
    BY <2>1 DEF TaskFits, CopySteps, FilesKinds, Tasks
  <2> QED
    BY <2>2, TargetTyped DEF Copies
<1>4. live' \in Folders /\ staged' \in Folders /\ replaced' \in Folders
  BY <1>2, <1>3 DEF StageCopy, StageFails, MoveLiveAside, MoveLiveFails, MoveStagedIn, MoveStagedFails,
         DropReplaced
<1>5. task' \in [Filers -> Tasks] /\ (\A q \in Filers : TaskFits(task[q])') /\ OneWriter'
  <2>1. CASE StageFails(p) \/ MoveLiveFails(p) \/ MoveStagedFails(p) \/ DropReplaced(p)
    BY <1>1, <2>1, TaskStops DEF StageFails, MoveLiveFails, MoveStagedFails, DropReplaced
  <2>2. CASE StageCopy(p) \/ MoveLiveAside(p) \/ MoveStagedIn(p)
    BY <1>1, <2>2, TaskGoesOn DEF StageCopy, MoveLiveAside, MoveStagedIn, In, FileSteps, Inside, CopySteps
  <2> QED
    BY <2>1, <2>2
<1> QED
  BY <1>1, <1>4, <1>5 DEF FilesKinds

LEMMA KillKinds ==
  ASSUME FilesKinds, NEW p \in Filers, Kill(p)
  PROVE  FilesKinds'
<1>1. Stops(p) /\ UNCHANGED <<ledger, live, staged, replaced, backup, safeties, crew, filed>>
  BY DEF Kill, copies, calm
<1> QED
  BY <1>1, TaskStops DEF FilesKinds

LEMMA KindsInit == FilesInit => FilesKinds
<1> SUFFICES ASSUME FilesInit PROVE FilesKinds
  OBVIOUS
<1>1. ledger \in Ledgers
  BY DEF FilesInit, Ledgers
<1>2. safeties = <<>> /\ Len(safeties) = 0 /\ \A p \in Filers : task[p] = NoTask
  BY DEF FilesInit
<1>3. NoTask.at = "none" /\ NoTask \in Tasks /\ TaskFits(NoTask)
  BY <1>2, NoTaskTyped DEF TaskFits, NoTask, CopySteps
<1>4. OneWriter
  BY <1>2, <1>3 DEF OneWriter, Inside
<1> QED
  BY <1>1, <1>2, <1>3, <1>4 DEF FilesInit, FilesKinds, Folders

LEMMA KindsStep == FilesKinds /\ [FilesNext]_filesVars => FilesKinds'
<1> SUFFICES ASSUME FilesKinds, [FilesNext]_filesVars PROVE FilesKinds'
  OBVIOUS
<1>1. CASE UNCHANGED filesVars
  BY <1>1 DEF filesVars, FilesKinds, TaskFits, OneWriter
<1>2. CASE FilesNext
  BY <1>2, InsertDocumentKinds, CheckRevisionKinds, InsertVersionKinds, WriteFileKinds,
     CommitVersionKinds, FilingFailsKinds, CloseDocumentKinds, StartBackupKinds, CopyKinds,
     StartRestoreKinds, ReplaceLedgerKinds, SwapKinds, KillKinds DEF FilesNext
<1> QED
  BY <1>1, <1>2

\* Tables, folders and copies are what they are named for, and one process at
\* most is inside a write transaction.
THEOREM FilesTyped == FilesSpec => []FilesTypeOK
<1>1. FilesKinds => FilesTypeOK
  <2> SUFFICES ASSUME FilesKinds PROVE FilesTypeOK
    OBVIOUS
  <2>1. \A p \in Filers : task[p] \in Tasks /\ TaskFits(task[p])
    BY DEF FilesKinds
  <2> QED
    BY <2>1 DEF FilesKinds, FilesTypeOK, Tasks, TaskFits, OneWriter, Inside
<1> QED
  BY <1>1, KindsInit, KindsStep, PTL DEF FilesSpec

-----------------------------------------------------------------------------
(* What was filed is kept *)

\* Where a process that refuses or restores is alone, or where only filings
\* and backups are made: what NothingFiledIsLost promises, and all that the
\* runs have it checked for. A file that a failed commit removes may be the one
\* that another process just committed.
Lone(w) == \A p, q \in w : p = q
Mild(w) == MaxRestores[w] = 0 /\ MaxMishaps[w] = 0
Calm    == \A w \in Crews : Lone(w) \/ Mild(w)

RestoreSteps == {"replacing", "staging", "swapping", "swapped", "dropping"}

Saved(version) == \E k \in DOMAIN safeties : Keeps(safeties[k].ledger, safeties[k].folder, version)

\* A version being written is the next of its document; a safety copy being
\* made is of the books and the folder as they are; once it is made, nothing
\* depends on the books and the folder any more.
Doing(t) ==
  /\ t.at \in Inside => t.path[2] = Len(ledger.versions[t.path[1]]) + 1
  /\ t.at = "committing" => Holds(live, t.path, t.pdf)
  /\ t.at = "removing" => ~HasVersion(ledger, t.path)
  /\ t.at \in CopySteps =>
       IF t.from = -1 THEN t.to = 0
       ELSE t.to # 0 /\ safeties[t.to].ledger = ledger /\ safeties[t.to].folder = Gone
  /\ t.at \in CopySteps /\ t.from # -1 => t.temp = live
  /\ t.at \in RestoreSteps => \A version \in filed : Saved(version)

CrewFits ==
  /\ mishaps \in Nat /\ backups \in Nat
  /\ \A p \in Filers : p \notin crew => task[p] = NoTask
  /\ Mild(crew) => /\ safeties = <<>>
                   /\ \A p \in Filers : task[p].at # "removing" /\ task[p].from = -1 /\ task[p].to = 0

FilesInv == CrewFits /\ NothingFiledIsLost /\ \A p \in Filers : Doing(task[p])

\* A task that no step of another process can disturb.
Harmless(t) == t.at \in {"none", "revising"} \cup CopySteps /\ t.from = -1 /\ t.to = 0

LEMMA NoTaskHarmless == Harmless(NoTask)
BY DEF Harmless, NoTask

LEMMA HarmlessDo ==
  ASSUME NEW t, Harmless(t)
  PROVE  Doing(t)'
BY DEF Harmless, Doing, CopySteps, Inside, RestoreSteps

LEMMA SameDoing ==
  ASSUME NEW t, Doing(t), UNCHANGED <<ledger, live, safeties, filed>>
  PROVE  Doing(t)'
BY DEF Doing, HasVersion, Holds, Saved, Keeps

LEMMA SameKept ==
  ASSUME NothingFiledIsLost, UNCHANGED <<ledger, live, safeties, filed>>
  PROVE  NothingFiledIsLost'
BY DEF NothingFiledIsLost, Keeps, HasVersion, Holds

LEMMA AtWork ==
  ASSUME FilesKinds, FilesInv, NEW p \in Filers, task[p].at # "none"
  PROVE  p \in crew
BY DEF FilesInv, CrewFits, NoTask

LEMMA CrewIsCalm ==
  ASSUME FilesKinds, Calm
  PROVE  Lone(crew) \/ Mild(crew)
BY DEF Calm, FilesKinds

\* While one writes, and where one is alone, the others can be disregarded.
LEMMA OthersHarmless ==
  ASSUME FilesKinds, FilesInv, Calm, NEW p \in Filers, p \in crew,
         task[p].at \in Inside \/ Lone(crew), NEW q \in Filers, q # p
  PROVE  Harmless(task[q])
<1>1. CASE Lone(crew)
  <2>1. q \notin crew
    BY <1>1 DEF Lone
  <2>2. task[q] = NoTask
    BY <2>1 DEF FilesInv, CrewFits
  <2> QED
    BY <2>2, NoTaskHarmless
<1>2. CASE ~Lone(crew)
  <2>1. Mild(crew) /\ task[p].at \in Inside
    BY <1>2, CrewIsCalm
  <2>2. PICK u : u = task[q]
    OBVIOUS
  <2>3. u \in Tasks /\ TaskFits(u) /\ u.at # "removing" /\ u.from = -1 /\ u.to = 0
    BY <2>1, <2>2 DEF FilesInv, CrewFits, FilesKinds
  <2>4. u.at \notin Inside
    BY <2>1, <2>2 DEF FilesKinds, OneWriter
  <2>5. Harmless(u)
    BY <2>3, <2>4 DEF Harmless, TaskFits, Tasks, FileSteps, Inside, CopySteps
  <2> QED
    BY <2>2, <2>5
<1> QED
  BY <1>1, <1>2

\* A step of one process, once its own part is seen to.
LEMMA Onward ==
  ASSUME FilesKinds, FilesInv, Calm, NEW p \in Filers, p \in crew, NEW t,
         task' = [task EXCEPT ![p] = t], Doing(t)', NothingFiledIsLost',
         crew' = crew, mishaps' \in Nat, backups' \in Nat,
         Mild(crew) => safeties' = <<>> /\ t.at # "removing" /\ t.from = -1 /\ t.to = 0,
         \/ UNCHANGED <<ledger, live, safeties, filed>>
         \/ task[p].at \in Inside \/ Lone(crew)
  PROVE  FilesInv'
<1>1. \A q \in Filers : task'[q] = IF q = p THEN t ELSE task[q]
  BY DEF FilesKinds
<1>2. CrewFits'
  <2>1. \A q \in Filers : q \notin crew' => task'[q] = NoTask
    BY <1>1 DEF FilesInv, CrewFits
  <2>2. Mild(crew)' => Mild(crew)
    BY DEF Mild
  <2>3. Mild(crew)' => \A q \in Filers : task'[q].at # "removing" /\ task'[q].from = -1 /\ task'[q].to = 0
    BY <1>1, <2>2 DEF FilesInv, CrewFits
  <2> QED
    BY <2>1, <2>2, <2>3 DEF CrewFits
<1>3. ASSUME NEW q \in Filers PROVE Doing(task[q])'
  <2>1. CASE q = p
    BY <1>1, <2>1
  <2>2. CASE q # p
    <3>1. PICK u : u = task[q]
      OBVIOUS
    <3>2. Doing(u)
      BY <3>1 DEF FilesInv
    <3>3. task'[q] = u
      BY <1>1, <2>2, <3>1
    <3>4. CASE UNCHANGED <<ledger, live, safeties, filed>>
      <4>1. Doing(u)'
        BY <3>2, <3>4, SameDoing
      <4> QED
        BY <3>3, <4>1
    <3>5. CASE task[p].at \in Inside \/ Lone(crew)
      <4>1. Harmless(u)
        BY <2>2, <3>1, <3>5, OthersHarmless
      <4>2. Doing(u)'
        BY <4>1, HarmlessDo
      <4> QED
        BY <3>3, <4>2
    <3> QED
      BY <3>4, <3>5
  <2> QED
    BY <2>1, <2>2
<1> QED
  BY <1>2, <1>3 DEF FilesInv

-----------------------------------------------------------------------------
(* The same, action by action *)

\* A step that leaves books, folder and safety copies alone.
LEMMA QuietStep ==
  ASSUME FilesKinds, FilesInv, Calm, NEW p \in Filers, p \in crew, NEW t,
         task' = [task EXCEPT ![p] = t], Doing(t),
         UNCHANGED <<ledger, live, safeties, filed, crew>>, mishaps' \in Nat, backups' \in Nat,
         Mild(crew) => t.at # "removing" /\ t.from = -1 /\ t.to = 0
  PROVE  FilesInv'
<1>1. Doing(t)'
  BY SameDoing
<1>2. NothingFiledIsLost'
  BY SameKept DEF FilesInv
<1>3. Mild(crew) => safeties' = <<>>
  BY DEF FilesInv, CrewFits
<1> QED
  BY <1>1, <1>2, <1>3, Onward

\* What stops, by itself or by a mishap, has nothing left to see to.
LEMMA StopDoing == Doing(NoTask) /\ NoTask.at = "none" /\ NoTask.from = -1 /\ NoTask.to = 0
BY DEF Doing, NoTask, CopySteps, Inside, RestoreSteps

LEMMA MishapCounted ==
  ASSUME FilesKinds, FilesInv, Mishap
  PROVE  mishaps' \in Nat /\ ~Mild(crew)
<1>1. mishaps \in Nat /\ MaxMishaps[crew] \in Nat
  BY FilesAssumption DEF FilesInv, CrewFits, FilesKinds
<1> QED
  BY <1>1 DEF Mishap, Mild

LEMMA QuietStop ==
  ASSUME FilesKinds, FilesInv, Calm, NEW p \in Filers, task[p].at # "none", Stops(p), Mishap,
         UNCHANGED <<ledger, live, safeties, filed, crew, backups>>
  PROVE  FilesInv'
<1>1. p \in crew
  BY AtWork
<1>2. backups' \in Nat
  BY DEF FilesInv, CrewFits
<1> QED
  BY <1>1, <1>2, MishapCounted, StopDoing, QuietStep DEF Stops, Turns

LEMMA InsertDocumentDone ==
  ASSUME FilesKinds, FilesInv, Calm, NEW p \in Filers, NEW pdf \in Pdfs, InsertDocument(p, pdf)
  PROVE  FilesInv'
<1>1. PICK d \in DocIds : ~IsFiled(d) /\ task' = [task EXCEPT ![p] = [NoTask EXCEPT !.at = "writing", !.path = <<d, 1>>, !.pdf = pdf]]
  BY DEF InsertDocument, Turns
<1>2. PICK t : t = [NoTask EXCEPT !.at = "writing", !.path = <<d, 1>>, !.pdf = pdf]
  OBVIOUS
<1>3. t.at = "writing" /\ t.path = <<d, 1>> /\ t.from = -1 /\ t.to = 0
  BY <1>2 DEF NoTask
<1>4. Len(ledger.versions[d]) = 0
  BY <1>1 DEF IsFiled, FilesKinds, Ledgers
<1>5. Doing(t)
  BY <1>3, <1>4 DEF Doing, Inside, CopySteps, RestoreSteps
<1>6. /\ p \in crew /\ UNCHANGED <<ledger, live, safeties, filed, crew>>
      /\ mishaps' \in Nat /\ backups' \in Nat
  BY DEF InsertDocument, Free, copies, counts, FilesInv, CrewFits
<1> QED
  BY <1>1, <1>2, <1>3, <1>5, <1>6, QuietStep

LEMMA RevisionDone ==
  ASSUME FilesKinds, FilesInv, Calm, NEW p \in Filers,
         InsertVersion(p) \/ \E d \in DocIds, pdf \in Pdfs : CheckRevision(p, d, pdf)
  PROVE  FilesInv'
<1>1. PICK c : c = task[p]
  OBVIOUS
<1>2. /\ p \in crew /\ UNCHANGED <<ledger, live, safeties, filed, crew>>
      /\ mishaps' \in Nat /\ backups' \in Nat
  BY AtWork DEF CheckRevision, InsertVersion, Free, In, copies, counts, FilesInv, CrewFits
<1>3. Mild(crew) => c.from = -1 /\ c.to = 0
  BY <1>1 DEF FilesInv, CrewFits
<1>4. CASE InsertVersion(p)
  <2>1. c \in Tasks /\ c.at = "revising"
    BY <1>1, <1>4 DEF InsertVersion, In, FilesKinds
  <2>2. CASE Stops(p)
    BY <1>2, <2>2, StopDoing, QuietStep DEF Stops, Turns
  <2>3. CASE ~Stops(p)
    <3>1. PICK d, n : d = c.path[1] /\ n = Len(ledger.versions[d])
      OBVIOUS
    <3>2. PICK t : t = [c EXCEPT !.at = "writing", !.path = <<d, n + 1>>]
      OBVIOUS
    <3>3. task' = [task EXCEPT ![p] = t]
      BY <1>1, <1>4, <2>3, <3>1, <3>2 DEF InsertVersion, Turns
    <3>4. t.at = "writing" /\ t.path = <<d, n + 1>> /\ t.from = c.from /\ t.to = c.to
      BY <2>1, <3>2 DEF Tasks
    <3>5. Doing(t)
      BY <3>1, <3>4 DEF Doing, Inside, CopySteps, RestoreSteps
    <3> QED
      BY <1>2, <1>3, <3>3, <3>4, <3>5, QuietStep
  <2> QED
    BY <2>2, <2>3
<1>5. CASE \E d \in DocIds, pdf \in Pdfs : CheckRevision(p, d, pdf)
  <2>1. PICK d \in DocIds, pdf \in Pdfs : CheckRevision(p, d, pdf)
    BY <1>5
  <2>2. PICK t : t = [NoTask EXCEPT !.at = "revising", !.path = <<d, 1>>, !.pdf = pdf]
    OBVIOUS
  <2>3. t.at = "revising" /\ t.from = -1 /\ t.to = 0
    BY <2>2 DEF NoTask
  <2>4. Doing(t)
    BY <2>3 DEF Doing, Inside, CopySteps, RestoreSteps
  <2>5. task' = [task EXCEPT ![p] = t]
    BY <2>1, <2>2 DEF CheckRevision, Turns
  <2> QED
    BY <1>2, <2>3, <2>4, <2>5, QuietStep
<1> QED
  BY <1>4, <1>5

\* A file that no row lists may be written or removed.
LEMMA UnlistedKept ==
  ASSUME FilesKinds, NothingFiledIsLost, NEW f \in Paths, ~HasVersion(ledger, f),
         UNCHANGED <<ledger, safeties, filed>>,
         live # Gone => live' # Gone /\ \A g \in Paths : g # f => live'[g] = live[g]
  PROVE  NothingFiledIsLost'
<1> SUFFICES ASSUME NEW version \in filed
             PROVE  Keeps(ledger, live, version)' \/ \E k \in DOMAIN safeties : Keeps(safeties[k].ledger, safeties[k].folder, version)
  BY DEF NothingFiledIsLost, Keeps, HasVersion, Holds
<1>1. PICK g : g = version[1] /\ g \in Paths
  BY DEF FilesKinds
<1>2. Keeps(ledger, live, version) => Keeps(ledger, live, version)'
  BY <1>1 DEF Keeps, HasVersion, Holds
<1> QED
  BY <1>2 DEF NothingFiledIsLost

\* Writing a version's file, or taking it back, touches no row's file.
LEMMA FileDone ==
  ASSUME FilesKinds, FilesInv, Calm, NEW p \in Filers,
         WriteFile(p) \/ WriteFails(p) \/ RemoveFile(p) \/ CommitFails(p)
  PROVE  FilesInv'
<1>1. PICK c : c = task[p]
  OBVIOUS
<1>2. /\ c \in Tasks /\ c.path \in Paths /\ Doing(c) /\ p \in crew
      /\ c.at \in {"writing", "committing", "removing"}
  BY <1>1, AtWork DEF FilesKinds, FilesInv, Tasks, WriteFile, WriteFails, RemoveFile, CommitFails, In
<1>3. ~HasVersion(ledger, c.path)
  <2>1. CASE c.at = "removing"
    BY <1>2, <2>1 DEF Doing
  <2>2. CASE c.at # "removing"
    <3>1. PICK n : n = Len(ledger.versions[c.path[1]])
      OBVIOUS
    <3>2. n \in Nat
      BY <1>2, <3>1 DEF FilesKinds, Ledgers, Paths
    <3>3. c.path[2] = n + 1
      BY <1>2, <2>2, <3>1 DEF Doing, Inside
    <3> QED
      <4>1. n + 1 \notin 1..n
        BY <3>2
      <4> QED
        BY <3>1, <3>3, <4>1 DEF HasVersion
  <2> QED
    BY <2>1, <2>2
<1>4. c.at \in Inside \/ Lone(crew)
  BY <1>1, <1>2, CrewIsCalm DEF Inside, FilesInv, CrewFits
<1>5. UNCHANGED <<ledger, safeties, filed, crew, backups>>
  BY DEF WriteFile, WriteFails, RemoveFile, CommitFails, copies, counts, calm
<1>6. NothingFiledIsLost'
  <2>1. \/ live' = live
        \/ live' \in {[Folder EXCEPT ![c.path] = c.pdf], [Folder EXCEPT ![c.path] = Gone]}
        \/ live # Gone /\ live' = [live EXCEPT ![c.path] = Gone]
    BY <1>1 DEF WriteFile, WriteFails, RemoveFile, CommitFails
  <2>2. live # Gone => live' # Gone /\ \A g \in Paths : g # c.path => live'[g] = live[g]
    <3>1. \A x \in Pdfs \cup {Gone} : [live EXCEPT ![c.path] = x] \in [Paths -> Pdfs \cup {Gone}] \/ live = Gone
      BY DEF FilesKinds, Folders
    <3>2. c.pdf \in Pdfs \cup {Gone}
      BY <1>2 DEF Tasks
    <3>3. Gone \notin [Paths -> Pdfs \cup {Gone}]
      BY GoneAssumption
    <3>4. live # Gone => live \in [Paths -> Pdfs \cup {Gone}]
      BY DEF FilesKinds, Folders
    <3> QED
      BY <2>1, <3>1, <3>2, <3>3, <3>4 DEF Folder
  <2> QED
    BY <1>2, <1>3, <1>5, <2>2, UnlistedKept DEF FilesInv
<1>7. Mild(crew) => safeties' = <<>>
  BY <1>5 DEF FilesInv, CrewFits
<1>8. Mild(crew) => c.from = -1 /\ c.to = 0
  BY <1>1 DEF FilesInv, CrewFits
<1>9. CASE WriteFile(p)
  <2>1. PICK t : t = [c EXCEPT !.at = "committing"]
    OBVIOUS
  <2>2. /\ t.at = "committing" /\ t.path = c.path /\ t.pdf = c.pdf /\ t.from = c.from /\ t.to = c.to
        /\ task' = [task EXCEPT ![p] = t] /\ c.at = "writing"
    BY <1>1, <1>2, <1>9, <2>1 DEF Tasks, WriteFile, Steps, Turns, In
  <2>3. Holds(live, c.path, c.pdf)'
    <3>1. Folder \in [Paths -> Pdfs \cup {Gone}]
      BY DEF Folder, EmptyFolder, FilesKinds, Folders
    <3>2. live' = [Folder EXCEPT ![c.path] = c.pdf]
      BY <1>1, <1>9 DEF WriteFile
    <3>3. live'[c.path] = c.pdf /\ live' \in [Paths -> Pdfs \cup {Gone}]
      BY <1>2, <3>1, <3>2 DEF Tasks
    <3>4. live' # Gone
      BY <3>3, GoneAssumption
    <3> QED
      BY <3>3, <3>4 DEF Holds
  <2>4. Doing(t)'
    <3>1. t.path[2] = Len(ledger'.versions[t.path[1]]) + 1
      BY <1>2, <1>5, <2>2 DEF Doing, Inside
    <3> QED
      BY <2>2, <2>3, <3>1 DEF Doing, CopySteps, RestoreSteps
  <2>5. mishaps' \in Nat /\ backups' \in Nat
    BY <1>9 DEF WriteFile, counts, FilesInv, CrewFits
  <2> QED
    BY <1>1, <1>2, <1>4, <1>5, <1>6, <1>7, <1>8, <2>2, <2>4, <2>5, Onward
<1>10. CASE WriteFails(p) \/ RemoveFile(p)
  <2>1. task' = [task EXCEPT ![p] = NoTask]
    BY <1>10 DEF WriteFails, RemoveFile, Stops, Turns
  <2>2. Doing(NoTask)'
    BY NoTaskHarmless, HarmlessDo
  <2>3. mishaps' \in Nat /\ backups' \in Nat
    BY <1>5, <1>10, MishapCounted DEF WriteFails, RemoveFile, counts, FilesInv, CrewFits
  <2> QED
    BY <1>1, <1>2, <1>4, <1>5, <1>6, <1>7, <2>1, <2>2, <2>3, StopDoing, Onward
<1>11. CASE CommitFails(p)
  <2>1. PICK t : t = [c EXCEPT !.at = "removing"]
    OBVIOUS
  <2>2. /\ t.at = "removing" /\ t.path = c.path
        /\ task' = [task EXCEPT ![p] = t]
    BY <1>1, <1>2, <1>11, <2>1 DEF Tasks, CommitFails, Steps, Turns
  <2>3. ~HasVersion(ledger, t.path)'
    BY <1>3, <1>5, <2>2 DEF HasVersion
  <2>4. Doing(t)'
    BY <2>2, <2>3 DEF Doing, CopySteps, RestoreSteps, Inside
  <2>5. mishaps' \in Nat /\ backups' \in Nat /\ ~Mild(crew)
    BY <1>5, <1>11, MishapCounted DEF CommitFails, FilesInv, CrewFits
  <2> QED
    BY <1>1, <1>2, <1>4, <1>5, <1>6, <2>2, <2>4, <2>5, Onward
<1> QED
  BY <1>9, <1>10, <1>11 DEF WriteFile

LEMMA CommitVersionDone ==
  ASSUME FilesKinds, FilesInv, Calm, NEW p \in Filers, CommitVersion(p)
  PROVE  FilesInv'
<1>1. PICK c : c = task[p]
  OBVIOUS
<1>2. /\ c.path \in Paths /\ c.pdf \in Pdfs /\ Doing(c) /\ p \in crew /\ c.at = "committing"
  BY <1>1, AtWork DEF FilesKinds, FilesInv, Tasks, TaskFits, CommitVersion, In
<1>3. /\ task' = [task EXCEPT ![p] = NoTask] /\ filed' = filed \cup {<<c.path, c.pdf>>}
      /\ ledger' = Committed(ledger, c.path, c.pdf)
      /\ UNCHANGED <<live, safeties, crew, mishaps, backups>>
  BY <1>1 DEF CommitVersion, Stops, Turns, copies, counts
<1>4. PICK d, n : d = c.path[1] /\ n = c.path[2]
  OBVIOUS
<1>5. d \in DocIds /\ ledger.versions \in [DocIds -> Seq(Pdfs)] /\ ledger \in Ledgers
  BY <1>2, <1>4 DEF Paths, FilesKinds, Ledgers
<1>6. n = Len(ledger.versions[d]) + 1
  BY <1>2, <1>4 DEF Doing, Inside
<1>7. ledger'.versions = [ledger.versions EXCEPT ![d] = Append(@, c.pdf)]
  BY <1>3, <1>4, <1>5 DEF Committed, Ledgers
<1>8. HasVersion(ledger, c.path)' /\ ledger'.versions[d][n] = c.pdf
  BY <1>2, <1>4, <1>5, <1>6, <1>7 DEF HasVersion
<1>9. \A f \in Paths : HasVersion(ledger, f) =>
        /\ HasVersion(ledger, f)'
        /\ ledger'.versions[f[1]][f[2]] = ledger.versions[f[1]][f[2]]
  <2> SUFFICES ASSUME NEW f \in Paths, HasVersion(ledger, f)
               PROVE  HasVersion(ledger, f)' /\ ledger'.versions[f[1]][f[2]] = ledger.versions[f[1]][f[2]]
    OBVIOUS
  <2>1. f[1] \in DocIds /\ f[2] \in 1..Len(ledger.versions[f[1]])
    BY DEF HasVersion, Paths
  <2> QED
    BY <1>2, <1>5, <1>7, <2>1 DEF HasVersion
<1>10. NothingFiledIsLost'
  <2> SUFFICES ASSUME NEW version \in filed'
               PROVE  Keeps(ledger, live, version)' \/ \E k \in DOMAIN safeties : Keeps(safeties[k].ledger, safeties[k].folder, version)
    BY <1>3 DEF NothingFiledIsLost, Keeps, HasVersion, Holds
  <2>1. CASE version = <<c.path, c.pdf>>
    <3>1. Holds(live, c.path, c.pdf)
      BY <1>2 DEF Doing
    <3> QED
      BY <1>3, <1>4, <1>8, <2>1, <3>1 DEF Keeps, Holds
  <2>2. CASE version \in filed
    <3>1. PICK g : g = version[1] /\ g \in Paths
      BY <2>2 DEF FilesKinds
    <3>2. Keeps(ledger, live, version) => Keeps(ledger, live, version)'
      BY <1>3, <1>9, <3>1 DEF Keeps, Holds
    <3> QED
      BY <2>2, <3>2 DEF NothingFiledIsLost, FilesInv
  <2> QED
    BY <1>3, <2>1, <2>2
<1>11. Doing(NoTask)'
  BY NoTaskHarmless, HarmlessDo
<1>12. (Mild(crew) => safeties' = <<>>) /\ mishaps' \in Nat /\ backups' \in Nat
  BY <1>3 DEF FilesInv, CrewFits
<1> QED
  BY <1>1, <1>2, <1>3, <1>10, <1>11, <1>12, StopDoing, Onward DEF Inside

LEMMA CloseDocumentDone ==
  ASSUME FilesKinds, FilesInv, Calm, NEW p \in Filers, NEW d \in DocIds, CloseDocument(p, d)
  PROVE  FilesInv'
<1>1. /\ p \in crew /\ task[p] = NoTask /\ ~Writing
      /\ UNCHANGED <<live, safeties, task, filed, crew, mishaps, backups>>
      /\ ledger' = [ledger EXCEPT !.closed = @ \cup {d}]
  BY DEF CloseDocument, Free, copies, counts
<1>2. ledger'.versions = ledger.versions
  BY <1>1 DEF FilesKinds, Ledgers
<1>3. NothingFiledIsLost'
  BY <1>1, <1>2 DEF FilesInv, NothingFiledIsLost, Keeps, HasVersion, Holds
<1>4. ASSUME NEW q \in Filers PROVE Harmless(task[q])
  <2>1. CASE Lone(crew)
    <3>1. q = p \/ q \notin crew
      BY <1>1, <2>1 DEF Lone
    <3>2. task[q] = NoTask
      BY <1>1, <3>1 DEF FilesInv, CrewFits
    <3> QED
      BY <3>2, NoTaskHarmless
  <2>2. CASE Mild(crew)
    <3>1. PICK u : u = task[q]
      OBVIOUS
    <3>2. u \in Tasks /\ TaskFits(u) /\ u.at # "removing" /\ u.from = -1 /\ u.to = 0 /\ u.at \notin Inside
      BY <1>1, <2>2, <3>1 DEF FilesInv, CrewFits, FilesKinds, Writing, Inside
    <3>3. Harmless(u)
      BY <3>2 DEF Harmless, TaskFits, Tasks, FileSteps, Inside, CopySteps
    <3> QED
      BY <3>1, <3>3
  <2> QED
    BY <2>1, <2>2, CrewIsCalm
<1>5. ASSUME NEW q \in Filers PROVE Doing(task[q])'
  <2>1. PICK u : u = task[q]
    OBVIOUS
  <2>2. Harmless(u)
    BY <1>4, <2>1
  <2>3. Doing(u)'
    BY <2>2, HarmlessDo
  <2> QED
    BY <1>1, <2>1, <2>3
<1>6. CrewFits'
  BY <1>1 DEF FilesInv, CrewFits, Mild
<1> QED
  BY <1>3, <1>5, <1>6 DEF FilesInv

LEMMA BackupDone ==
  ASSUME FilesKinds, FilesInv, Calm, NEW p \in Filers, StartBackup(p)
  PROVE  FilesInv'
<1>1. PICK t : t = [NoTask EXCEPT !.at = "copying", !.temp = live]
  OBVIOUS
<1>2. t.at = "copying" /\ t.from = -1 /\ t.to = 0
  BY <1>1 DEF NoTask
<1>3. Doing(t)
  BY <1>2 DEF Doing, Inside, RestoreSteps
<1>4. /\ p \in crew /\ UNCHANGED <<ledger, live, safeties, filed, crew>> /\ task' = [task EXCEPT ![p] = t]
      /\ mishaps' \in Nat /\ backups' \in Nat
  BY <1>1 DEF StartBackup, Free, Turns, FilesInv, CrewFits
<1> QED
  BY <1>2, <1>3, <1>4, QuietStep

LEMMA CopyTreeDone ==
  ASSUME FilesKinds, FilesInv, Calm, NEW p \in Filers, CopyTree(p)
  PROVE  FilesInv'
<1>1. PICK c : c = task[p]
  OBVIOUS
<1>2a. PICK late \in SUBSET Paths : Turns(p, [c EXCEPT !.at = "clearing", !.temp = Walked(c.temp, late)])
  BY <1>1 DEF CopyTree
<1>2. PICK t : t = [c EXCEPT !.at = "clearing", !.temp = Walked(c.temp, late)]
  OBVIOUS
<1>3. c \in Tasks /\ c.temp \in Folders /\ Doing(c) /\ c.at = "copying" /\ live # Gone
  BY <1>1 DEF FilesKinds, FilesInv, CopyTree, In, Tasks
<1>4. t.at = "clearing" /\ t.from = c.from /\ t.to = c.to /\ (c.temp = live => t.temp = live)
  BY <1>2, <1>3, WalkedTyped DEF Tasks
<1>5. Doing(t)
  BY <1>3, <1>4 DEF Doing, Inside, RestoreSteps, CopySteps
<1>6. /\ p \in crew /\ UNCHANGED <<ledger, live, safeties, filed, crew>> /\ task' = [task EXCEPT ![p] = t]
      /\ mishaps' \in Nat /\ backups' \in Nat
  BY <1>1, <1>2a, <1>2, <1>3, AtWork DEF CopyTree, copies, counts, Turns, FilesInv, CrewFits
<1>7. Mild(crew) => t.from = -1 /\ t.to = 0
  BY <1>1, <1>4 DEF FilesInv, CrewFits
<1> QED
  BY <1>4, <1>5, <1>6, <1>7, QuietStep

\* A backup: the safety copies are not touched.
LEMMA BackupCopyDone ==
  ASSUME FilesKinds, FilesInv, Calm, NEW p \in Filers, task[p].from = -1,
         CopyNothing(p) \/ ClearOldCopy(p) \/ PlaceCopy(p)
  PROVE  FilesInv'
<1>1. PICK c : c = task[p]
  OBVIOUS
<1>2. c \in Tasks /\ Doing(c) /\ c.at \in CopySteps /\ c.from = -1 /\ c.to = 0
  BY <1>1 DEF FilesKinds, FilesInv, Doing, CopyNothing, ClearOldCopy, PlaceCopy, In, CopySteps
<1>3. /\ p \in crew /\ UNCHANGED <<ledger, live, safeties, filed, crew, mishaps, backups>>
      /\ mishaps' \in Nat /\ backups' \in Nat
  <2>1. safeties' = safeties
    BY <1>1, <1>2 DEF CopyNothing, ClearOldCopy, PlaceCopy, SetTarget
  <2> QED
    BY <1>1, <1>2, <2>1, AtWork DEF CopyNothing, ClearOldCopy, PlaceCopy, counts, CopySteps, FilesInv, CrewFits
<1>4. CASE CopyNothing(p) \/ PlaceCopy(p)
  <2>1. task' = [task EXCEPT ![p] = NoTask]
    BY <1>1, <1>2, <1>4 DEF CopyNothing, PlaceCopy, AfterCopy, Stops, Turns
  <2> QED
    BY <1>3, <2>1, StopDoing, QuietStep
<1>5. CASE ClearOldCopy(p)
  <2>1. PICK t : t = [c EXCEPT !.at = "placing"]
    OBVIOUS
  <2>2. t.at = "placing" /\ t.from = -1 /\ t.to = 0 /\ task' = [task EXCEPT ![p] = t]
    BY <1>1, <1>2, <1>5, <2>1 DEF Tasks, ClearOldCopy, Steps, Turns
  <2>3. Doing(t)
    BY <2>2 DEF Doing, Inside, RestoreSteps
  <2> QED
    BY <1>3, <2>2, <2>3, QuietStep
<1> QED
  BY <1>4, <1>5

\* What a change to a safety copy that holds no folder cannot lose.
LEMMA OtherCopiesKept ==
  ASSUME FilesKinds, NEW k \in 1..Len(safeties), NEW copy,
         safeties' = [safeties EXCEPT ![k] = copy], safeties[k].folder = Gone, UNCHANGED filed
  PROVE  \A version \in filed : Saved(version) => Saved(version)'
<1> SUFFICES ASSUME NEW version \in filed, Saved(version) PROVE Saved(version)'
  OBVIOUS
<1>1. PICK j \in DOMAIN safeties : Keeps(safeties[j].ledger, safeties[j].folder, version)
  BY DEF Saved
<1>2. j # k
  BY <1>1 DEF Keeps, Holds
<1>3. j \in DOMAIN safeties' /\ safeties'[j] = safeties[j]
  BY <1>1, <1>2 DEF FilesKinds
<1> QED
  BY <1>1, <1>3 DEF Saved, Keeps, HasVersion, Holds

\* A restore's safety copy.
LEMMA SafetyCopyDone ==
  ASSUME FilesKinds, FilesInv, Calm, NEW p \in Filers, task[p].from # -1,
         CopyNothing(p) \/ ClearOldCopy(p) \/ PlaceCopy(p)
  PROVE  FilesInv'
<1>1. PICK c : c = task[p]
  OBVIOUS
<1>2. c \in Tasks /\ Doing(c) /\ TaskFits(c) /\ c.at \in CopySteps /\ c.from # -1
  BY <1>1 DEF FilesKinds, FilesInv, Doing, CopyNothing, ClearOldCopy, PlaceCopy, In, CopySteps
<1>3. PICK k : k = c.to
  OBVIOUS
<1>4. /\ k # 0 /\ k \in 1..Len(safeties) /\ safeties[k].ledger = ledger /\ safeties[k].folder = Gone
      /\ safeties \in Seq(Copies) /\ k \in DOMAIN safeties /\ safeties[k] \in Copies
  BY <1>2, <1>3 DEF Doing, TaskFits, FilesKinds
<1>5. PICK old : old = safeties[k]
  OBVIOUS
<1>6. PICK copy : /\ safeties' = [safeties EXCEPT ![k] = copy]
                  /\ CopyNothing(p) => copy = [old EXCEPT !.ended = TRUE]
                  /\ ClearOldCopy(p) => copy = [old EXCEPT !.folder = Gone]
                  /\ PlaceCopy(p) => copy = [old EXCEPT !.folder = c.temp, !.ended = TRUE]
  <2>1. CASE CopyNothing(p)
    BY <1>1, <1>3, <1>4, <1>5, <2>1 DEF CopyNothing, ClearOldCopy, PlaceCopy, In, SetTarget, Target
  <2>2. CASE ClearOldCopy(p)
    BY <1>1, <1>3, <1>4, <1>5, <2>2 DEF CopyNothing, ClearOldCopy, PlaceCopy, In, SetTarget, Target
  <2>3. CASE PlaceCopy(p)
    BY <1>1, <1>3, <1>4, <1>5, <2>3 DEF CopyNothing, ClearOldCopy, PlaceCopy, In, SetTarget, Target
  <2> QED
    BY <2>1, <2>2, <2>3
<1>7. /\ copy.ledger = ledger /\ old.folder = Gone
      /\ CopyNothing(p) \/ ClearOldCopy(p) => copy.folder = Gone
      /\ PlaceCopy(p) => copy.folder = c.temp
  <2>1. old \in Copies /\ old.ledger = ledger /\ old.folder = Gone
    BY <1>4, <1>5
  <2>2. CASE CopyNothing(p)
    BY <1>6, <2>1, <2>2 DEF Copies, CopyNothing, PlaceCopy, In
  <2>3. CASE ClearOldCopy(p)
    BY <1>6, <2>1, <2>3 DEF Copies, ClearOldCopy, PlaceCopy, In
  <2>4. CASE PlaceCopy(p)
    BY <1>6, <2>1, <2>4 DEF Copies, ClearOldCopy, PlaceCopy, CopyNothing, In
  <2> QED
    BY <2>2, <2>3, <2>4
<1>8. /\ p \in crew /\ UNCHANGED <<ledger, live, filed, crew, mishaps, backups>>
      /\ mishaps' \in Nat /\ backups' \in Nat
  BY <1>1, <1>2, AtWork DEF CopyNothing, ClearOldCopy, PlaceCopy, counts, CopySteps, FilesInv, CrewFits
<1>9. Lone(crew) /\ ~Mild(crew)
  BY <1>1, <1>2, CrewIsCalm DEF FilesInv, CrewFits
<1>10. \A version \in filed : Saved(version) => Saved(version)'
  BY <1>4, <1>5, <1>6, <1>7, <1>8, OtherCopiesKept
<1>11. k \in DOMAIN safeties' /\ safeties'[k] = copy
  BY <1>4, <1>6
<1>12. CASE CopyNothing(p) \/ PlaceCopy(p)
  <2>1. PICK t : t = [c EXCEPT !.at = "replacing", !.temp = Gone]
    OBVIOUS
  <2>2. t.at = "replacing" /\ task' = [task EXCEPT ![p] = t]
    BY <1>1, <1>2, <1>12, <2>1 DEF Tasks, CopyNothing, PlaceCopy, AfterCopy, Turns
  <2>3. ASSUME NEW version \in filed PROVE Saved(version)'
    <3>1. CASE Saved(version)
      BY <1>10, <3>1
    <3>2. CASE ~Saved(version)
      <4>1. Keeps(ledger, live, version)
        BY <3>2 DEF FilesInv, NothingFiledIsLost, Saved
      <4>2. PlaceCopy(p) /\ copy.folder = live
        <5>1. live # Gone
          BY <4>1 DEF Keeps, Holds
        <5>2. PlaceCopy(p)
          BY <1>12, <5>1 DEF CopyNothing
        <5>3. c.at = "placing"
          BY <1>1, <5>2 DEF PlaceCopy, In
        <5>4. c.temp = live
          BY <1>2, <5>3 DEF Doing, CopySteps
        <5> QED
          BY <1>7, <5>2, <5>4
      <4>3. Keeps(copy.ledger, copy.folder, version)
        BY <1>7, <4>1, <4>2
      <4> QED
        BY <1>11, <4>3 DEF Saved, Keeps, HasVersion, Holds
    <3> QED
      BY <3>1, <3>2
  <2>4. Doing(t)'
    BY <1>8, <2>2, <2>3 DEF Doing, Inside, CopySteps
  <2>5. NothingFiledIsLost'
    BY <1>8, <2>3 DEF NothingFiledIsLost, Saved
  <2> QED
    BY <1>8, <1>9, <2>2, <2>4, <2>5, Onward
<1>13. CASE ClearOldCopy(p)
  <2>1. PICK t : t = [c EXCEPT !.at = "placing"]
    OBVIOUS
  <2>2. /\ t.at = "placing" /\ t.from = c.from /\ t.to = k /\ t.temp = c.temp
        /\ task' = [task EXCEPT ![p] = t] /\ c.at = "clearing"
    BY <1>1, <1>2, <1>3, <1>13, <2>1 DEF Tasks, ClearOldCopy, Steps, Turns, In
  <2>3. c.temp = live
    BY <1>2, <2>2 DEF Doing, CopySteps
  <2>4. safeties'[t.to].ledger = ledger' /\ safeties'[t.to].folder = Gone
    BY <1>7, <1>8, <1>11, <1>13, <2>2
  <2>5. Doing(t)'
    BY <1>2, <1>4, <1>8, <2>2, <2>3, <2>4 DEF Doing, Inside, RestoreSteps
  <2>6. NothingFiledIsLost'
    <3> SUFFICES ASSUME NEW version \in filed
                 PROVE  Keeps(ledger, live, version)' \/ Saved(version)'
      BY <1>8 DEF NothingFiledIsLost, Saved
    <3>1. Keeps(ledger, live, version) \/ Saved(version)
      BY DEF FilesInv, NothingFiledIsLost, Saved
    <3> QED
      BY <1>8, <1>10, <3>1 DEF Keeps, HasVersion, Holds
  <2> QED
    BY <1>8, <1>9, <2>2, <2>5, <2>6, Onward
<1> QED
  BY <1>12, <1>13

LEMMA StartRestoreDone ==
  ASSUME FilesKinds, FilesInv, Calm, NEW p \in Filers, NEW k \in 0..Len(safeties), StartRestore(p, k)
  PROVE  FilesInv'
<1>1. PICK n : n = Len(safeties) /\ n \in Nat /\ safeties \in Seq(Copies)
  BY DEF FilesKinds
<1>2. PICK t : t = [NoTask EXCEPT !.at = "copying", !.temp = live, !.to = n + 1, !.from = k]
  OBVIOUS
<1>3. t.at = "copying" /\ t.to = n + 1 /\ t.from = k /\ t.temp = live
  BY <1>2 DEF NoTask
<1>4. /\ p \in crew /\ UNCHANGED <<ledger, live, filed, crew, mishaps, backups>>
      /\ task' = [task EXCEPT ![p] = t] /\ safeties' = Append(safeties, Snapshot(Gone))
      /\ mishaps' \in Nat /\ backups' \in Nat /\ n < MaxRestores[crew]
  BY <1>1, <1>2 DEF StartRestore, Free, Turns, counts, FilesInv, CrewFits
<1>5. Lone(crew) /\ ~Mild(crew)
  <2>1. MaxRestores[crew] # 0
    BY <1>1, <1>4
  <2> QED
    BY <2>1, CrewIsCalm DEF Mild
<1>6. Snapshot(Gone) \in Copies
  BY SnapshotTyped DEF Folders
<1>7. /\ DOMAIN safeties' = 1..(n + 1) /\ DOMAIN safeties = 1..n
      /\ safeties'[n + 1] = Snapshot(Gone) /\ \A j \in 1..n : safeties'[j] = safeties[j]
  BY <1>1, <1>4, <1>6
<1>8. Snapshot(Gone).ledger = ledger /\ Snapshot(Gone).folder = Gone
  BY DEF Snapshot
<1>9. Doing(t)'
  <2>1. n + 1 # 0 /\ k # -1
    BY <1>1
  <2>2. safeties'[t.to].ledger = ledger' /\ safeties'[t.to].folder = Gone
    BY <1>3, <1>4, <1>7, <1>8
  <2>3. t.temp = live'
    BY <1>3, <1>4
  <2>4. t.from # -1 /\ t.to # 0
    BY <1>3, <2>1
  <2>5. t.at \notin Inside /\ t.at \notin RestoreSteps /\ t.at # "committing" /\ t.at # "removing"
    BY <1>3 DEF Inside, RestoreSteps
  <2> QED
    BY <2>2, <2>3, <2>4, <2>5 DEF Doing
<1>10. NothingFiledIsLost'
  <2> SUFFICES ASSUME NEW version \in filed
               PROVE  Keeps(ledger, live, version)' \/ Saved(version)'
    BY <1>4 DEF NothingFiledIsLost, Saved
  <2>1. CASE Keeps(ledger, live, version)
    BY <1>4, <2>1 DEF Keeps, HasVersion, Holds
  <2>2. CASE ~Keeps(ledger, live, version)
    <3>1. PICK j \in 1..n : Keeps(safeties[j].ledger, safeties[j].folder, version)
      BY <1>7, <2>2 DEF FilesInv, NothingFiledIsLost
    <3>2. j \in 1..(n + 1)
      BY <1>1
    <3> QED
      BY <1>7, <3>1, <3>2 DEF Saved, Keeps, HasVersion, Holds
  <2> QED
    BY <2>1, <2>2
<1> QED
  BY <1>4, <1>5, <1>9, <1>10, Onward

\* From here on every version filed is in a safety copy.
LEMMA ReplaceDone ==
  ASSUME FilesKinds, FilesInv, Calm, NEW p \in Filers,
         \/ ReplaceLedger(p) \/ StageCopy(p) \/ StageFails(p) \/ MoveLiveAside(p) \/ MoveLiveFails(p)
         \/ MoveStagedIn(p) \/ MoveStagedFails(p) \/ DropReplaced(p)
  PROVE  FilesInv'
<1>1. PICK c : c = task[p]
  OBVIOUS
<1>2. c \in Tasks /\ Doing(c) /\ TaskFits(c) /\ c.at \in RestoreSteps
  BY <1>1 DEF FilesKinds, FilesInv, RestoreSteps, ReplaceLedger, StageCopy, StageFails, MoveLiveAside,
              MoveLiveFails, MoveStagedIn, MoveStagedFails, DropReplaced, In
<1>3. \A version \in filed : Saved(version)
  BY <1>2 DEF Doing
<1>4. /\ UNCHANGED <<safeties, filed, crew, backups>> /\ p \in crew
      /\ mishaps' \in Nat /\ backups' \in Nat
  <2>1. UNCHANGED <<safeties, filed, crew, backups>> /\ (mishaps' = mishaps \/ Mishap)
    BY DEF ReplaceLedger, StageCopy, StageFails, MoveLiveAside, MoveLiveFails, MoveStagedIn,
           MoveStagedFails, DropReplaced, copies, counts, calm
  <2> QED
    BY <1>1, <1>2, <2>1, MishapCounted, AtWork DEF FilesInv, CrewFits, RestoreSteps
<1>5. Lone(crew) /\ ~Mild(crew)
  <2>1. c.from # -1
    BY <1>2 DEF TaskFits, RestoreSteps
  <2> QED
    BY <1>1, <2>1, CrewIsCalm DEF FilesInv, CrewFits
<1>6. \A version \in filed' : Saved(version)'
  BY <1>3, <1>4 DEF Saved, Keeps, HasVersion, Holds
<1>7. NothingFiledIsLost'
  BY <1>6 DEF NothingFiledIsLost, Saved
<1>8. PICK t : task' = [task EXCEPT ![p] = t] /\ t.at \in RestoreSteps \cup {"none"}
  <2>1. CASE Stops(p)
    BY <2>1, StopDoing DEF Stops, Turns
  <2>2. CASE ~Stops(p)
    <3>1. PICK step \in RestoreSteps : Steps(p, step)
      BY <2>2 DEF ReplaceLedger, StageCopy, StageFails, MoveLiveAside, MoveLiveFails, MoveStagedIn,
                  MoveStagedFails, DropReplaced, RestoreSteps
    <3>2. PICK t : t = [c EXCEPT !.at = step]
      OBVIOUS
    <3>3. t.at = step
      BY <1>2, <3>2 DEF Tasks
    <3> QED
      BY <1>1, <3>1, <3>2, <3>3 DEF Steps, Turns
  <2> QED
    BY <2>1, <2>2
<1>9. Doing(t)'
  BY <1>6, <1>8 DEF Doing, RestoreSteps, CopySteps, Inside
<1> QED
  BY <1>4, <1>5, <1>7, <1>8, <1>9, Onward

LEMMA BreakDone ==
  ASSUME FilesKinds, FilesInv, Calm, NEW p \in Filers, CopyFails(p) \/ Kill(p)
  PROVE  FilesInv'
<1>1. /\ task[p].at # "none" \/ task[p] # NoTask
      /\ Stops(p) /\ Mishap /\ UNCHANGED <<ledger, live, safeties, filed, crew, backups>>
  BY DEF CopyFails, Kill, copies, calm
<1>2. p \in crew
  BY <1>1, AtWork DEF FilesInv, CrewFits
<1>3. backups' \in Nat
  BY <1>1 DEF FilesInv, CrewFits
<1> QED
  BY <1>1, <1>2, <1>3, MishapCounted, StopDoing, QuietStep DEF Stops, Turns

LEMMA InvInit == FilesInit => FilesInv
<1> SUFFICES ASSUME FilesInit PROVE FilesInv
  OBVIOUS
<1>1. \A p \in Filers : task[p] = NoTask
  BY DEF FilesInit
<1>2. CrewFits
  BY <1>1, StopDoing DEF FilesInit, CrewFits
<1>3. NothingFiledIsLost
  BY DEF FilesInit, NothingFiledIsLost
<1> QED
  BY <1>1, <1>2, <1>3, StopDoing DEF FilesInv

LEMMA InvStep == Calm /\ FilesKinds /\ FilesInv /\ [FilesNext]_filesVars => FilesInv'
<1> SUFFICES ASSUME Calm, FilesKinds, FilesInv, [FilesNext]_filesVars PROVE FilesInv'
  OBVIOUS
<1>1. CASE UNCHANGED filesVars
  <2>1. UNCHANGED <<ledger, live, safeties, filed, task, crew, mishaps, backups>>
    BY <1>1 DEF filesVars
  <2>2. ASSUME NEW p \in Filers PROVE Doing(task[p])'
    <3>1. PICK u : u = task[p]
      OBVIOUS
    <3>2. Doing(u)'
      BY <2>1, <3>1, SameDoing DEF FilesInv
    <3> QED
      BY <2>1, <3>1, <3>2
  <2>3. NothingFiledIsLost'
    BY <2>1, SameKept DEF FilesInv
  <2> QED
    BY <2>1, <2>2, <2>3 DEF FilesInv, CrewFits, Mild
<1>2. CASE FilesNext
  <2>1. PICK p \in Filers :
    \/ \E pdf \in Pdfs : InsertDocument(p, pdf) \/ \E d \in DocIds : CheckRevision(p, d, pdf)
    \/ \E d \in DocIds : CloseDocument(p, d)
    \/ InsertVersion(p) \/ WriteFile(p) \/ CommitVersion(p)
    \/ WriteFails(p) \/ CommitFails(p) \/ RemoveFile(p)
    \/ StartBackup(p) \/ CopyNothing(p) \/ CopyTree(p) \/ ClearOldCopy(p) \/ PlaceCopy(p) \/ CopyFails(p)
    \/ \E k \in 0..Len(safeties) : StartRestore(p, k)
    \/ ReplaceLedger(p) \/ StageCopy(p) \/ StageFails(p)
    \/ MoveLiveAside(p) \/ MoveLiveFails(p) \/ MoveStagedIn(p) \/ MoveStagedFails(p) \/ DropReplaced(p)
    \/ Kill(p)
    BY <1>2 DEF FilesNext
  <2> QED
    BY <2>1, InsertDocumentDone, RevisionDone, CloseDocumentDone, FileDone, CommitVersionDone,
       BackupDone, CopyTreeDone, BackupCopyDone, SafetyCopyDone, BreakDone, StartRestoreDone, ReplaceDone
<1> QED
  BY <1>1, <1>2

LEMMA KeptInvariant == Calm /\ FilesSpec => [](FilesKinds /\ FilesInv)
<1>1. Calm /\ FilesInit => FilesKinds /\ FilesInv
  BY KindsInit, InvInit
<1>2. Calm /\ FilesKinds /\ FilesInv /\ [FilesNext]_filesVars => (FilesKinds /\ FilesInv)'
  BY KindsStep, InvStep
<1>3. Calm => [](Calm)
  OBVIOUS
<1> QED
  BY <1>1, <1>2, <1>3, PTL DEF FilesSpec

\* Where every crew is calm, a PDF that was filed can be had again, with its
\* row, whatever was restored, killed or refused on the way.
THEOREM FiledIsKept == Calm /\ FilesSpec => []NothingFiledIsLost
<1>1. FilesKinds /\ FilesInv => NothingFiledIsLost
  BY DEF FilesInv
<1> QED
  BY <1>1, KeptInvariant, PTL

-----------------------------------------------------------------------------
(* A backup is whole *)

\* Where what refuses or restores is alone, and one backup at most is made
\* beside the filings: two backups to one path mix their files.
Careful == \A w \in Crews : Lone(w) \/ (Mild(w) /\ MaxBackups[w] <= 1)

Content(l, f) == l.versions[f[1]][f[2]]

\* What is being copied is still in the books and, unless it was missing at the
\* start, in the folder, until it is in the copied folder.
Lists(t) ==
  t.at \in CopySteps =>
    LET copy == Target(t.to)
    IN  /\ copy # Gone /\ ~copy.ended
        /\ \A f \in Paths : HasVersion(copy.ledger, f) =>
             IF t.at = "copying"
             THEN /\ HasVersion(ledger, f) /\ Content(ledger, f) = Content(copy.ledger, f)
                  /\ f \notin copy.lacked => Holds(live, f, Content(copy.ledger, f)) /\ Holds(t.temp, f, Content(copy.ledger, f))
             ELSE f \notin copy.lacked => Holds(t.temp, f, Content(copy.ledger, f))

Copier(p) == task[p].at \in CopySteps

CopyInv ==
  /\ \A p \in Filers : Lists(task[p])
  /\ \A p, q \in Filers : Copier(p) /\ Copier(q) => p = q
  /\ Mild(crew) => \A p \in Filers : Copier(p) => backups # 0
  /\ BackupIsWhole

\* Filing adds to the books and the folder and takes nothing away.
Grows ==
  \A f \in Paths : HasVersion(ledger, f) =>
    /\ HasVersion(ledger, f)' /\ Content(ledger', f) = Content(ledger, f)
    /\ Holds(live, f, Content(ledger, f)) => Holds(live, f, Content(ledger, f))'

LEMMA CarefulIsCalm == Careful => Calm
BY DEF Careful, Calm

LEMMA CrewIsCareful ==
  ASSUME FilesKinds, Careful
  PROVE  Lone(crew) \/ (Mild(crew) /\ MaxBackups[crew] <= 1)
BY DEF Careful, FilesKinds

LEMMA IdleLists ==
  ASSUME NEW t, t.at \notin CopySteps
  PROVE  Lists(t)'
BY DEF Lists

LEMMA GrowingLists ==
  ASSUME NEW t, Lists(t), UNCHANGED <<backup, safeties>>, Grows
  PROVE  Lists(t)'
<1> SUFFICES ASSUME t.at \in CopySteps PROVE Lists(t)'
  BY IdleLists
<1>1. PICK copy : copy = Target(t.to)
  OBVIOUS
<1>2. Target(t.to)' = copy
  BY <1>1 DEF Target
<1>3. /\ copy # Gone /\ ~copy.ended
      /\ \A f \in Paths : HasVersion(copy.ledger, f) =>
           IF t.at = "copying"
           THEN /\ HasVersion(ledger, f) /\ Content(ledger, f) = Content(copy.ledger, f)
                /\ f \notin copy.lacked => Holds(live, f, Content(copy.ledger, f)) /\ Holds(t.temp, f, Content(copy.ledger, f))
           ELSE f \notin copy.lacked => Holds(t.temp, f, Content(copy.ledger, f))
  BY <1>1 DEF Lists
<1>4. \A f \in Paths : HasVersion(copy.ledger, f) /\ t.at = "copying" =>
        /\ HasVersion(ledger, f)' /\ Content(ledger', f) = Content(copy.ledger, f)
        /\ f \notin copy.lacked => Holds(live, f, Content(copy.ledger, f))' /\ Holds(t.temp, f, Content(copy.ledger, f))
  BY <1>3 DEF Grows
<1> QED
  BY <1>2, <1>3, <1>4 DEF Lists, Holds, HasVersion, Content

LEMMA OnwardCopy ==
  ASSUME FilesKinds, FilesInv, CopyInv, Careful, NEW p \in Filers, p \in crew, NEW t,
         task' = [task EXCEPT ![p] = t], Lists(t)', BackupIsWhole', crew' = crew,
         backups # 0 => backups' # 0, Mild(crew) /\ t.at \in CopySteps => backups' # 0,
         \/ Lone(crew)
         \/ Copier(p)
         \/ \A q \in Filers : ~Copier(q)
         \/ t.at \notin CopySteps /\ UNCHANGED <<backup, safeties>> /\ Grows
  PROVE  CopyInv'
<1>1. \A q \in Filers : task'[q] = IF q = p THEN t ELSE task[q]
  BY DEF FilesKinds
<1>2. NoTask.at \notin CopySteps
  BY DEF NoTask, CopySteps
<1>3. Lone(crew) => \A q \in Filers : q # p => task[q] = NoTask
  BY DEF Lone, FilesInv, CrewFits
<1>4. ASSUME NEW q \in Filers PROVE Lists(task[q])'
  <2>1. CASE q = p
    BY <1>1, <2>1
  <2>2. CASE q # p
    <3>1. PICK u : u = task[q]
      OBVIOUS
    <3>2. task'[q] = u
      BY <1>1, <2>2, <3>1
    <3>3. Lists(u)'
      <4>1. CASE u.at \notin CopySteps
        BY <4>1, IdleLists
      <4>2. CASE u.at \in CopySteps
        <5>1. Copier(q) /\ Lists(u)
          BY <3>1, <4>2 DEF Copier, CopyInv
        <5>2. ~Lone(crew) /\ ~Copier(p)
          BY <1>2, <1>3, <2>2, <3>1, <4>2, <5>1 DEF CopyInv
        <5>3. UNCHANGED <<backup, safeties>> /\ Grows
          BY <5>1, <5>2
        <5> QED
          BY <5>1, <5>3, GrowingLists
      <4> QED
        BY <4>1, <4>2
    <3> QED
      BY <3>2, <3>3
  <2> QED
    BY <2>1, <2>2
<1>5. \A q, r \in Filers : Copier(q)' /\ Copier(r)' => q = r
  BY <1>1, <1>2, <1>3 DEF Copier, CopyInv
<1>6. Mild(crew)' => \A q \in Filers : Copier(q)' => backups' # 0
  BY <1>1 DEF Copier, CopyInv, Mild
<1> QED
  BY <1>4, <1>5, <1>6 DEF CopyInv

LEMMA SameWhole ==
  ASSUME BackupIsWhole, UNCHANGED <<backup, safeties>>
  PROVE  BackupIsWhole'
BY DEF BackupIsWhole

\* One copy is replaced by one that is whole or not ended.
LEMMA TargetWhole ==
  ASSUME FilesKinds, BackupIsWhole, NEW k \in 0..Len(safeties), NEW copy, SetTarget(k, copy),
         copy.ended => \A f \in Paths \ copy.lacked :
                         HasVersion(copy.ledger, f) => Holds(copy.folder, f, Content(copy.ledger, f))
  PROVE  BackupIsWhole'
<1>1. safeties \in Seq(Copies)
  BY DEF FilesKinds
<1>2. ASSUME NEW x \in {backup'} \cup {safeties'[j] : j \in DOMAIN safeties'}
      PROVE  x = copy \/ x \in {backup} \cup {safeties[j] : j \in DOMAIN safeties}
  BY <1>1, <1>2 DEF SetTarget
<1> SUFFICES ASSUME NEW x \in {backup'} \cup {safeties'[j] : j \in DOMAIN safeties'}, x # Gone, x.ended,
                    NEW f \in Paths \ x.lacked, HasVersion(x.ledger, f)
             PROVE  Holds(x.folder, f, x.ledger.versions[f[1]][f[2]])
  BY DEF BackupIsWhole, HasVersion, Holds
<1> QED
  BY <1>2 DEF BackupIsWhole, Content

-----------------------------------------------------------------------------
(* The same, action by action *)

\* What refuses or restores is alone, and makes no copy.
LEMMA AloneCopies ==
  ASSUME FilesKinds, FilesInv, CopyInv, Careful, NEW p \in Filers, p \in crew, NEW t,
         task' = [task EXCEPT ![p] = t], t.at \notin CopySteps, Lone(crew),
         UNCHANGED <<backup, safeties, crew, backups>>
  PROVE  CopyInv'
BY IdleLists, SameWhole, OnwardCopy DEF CopyInv

\* Filing beside a backup.
LEMMA FilingCopies ==
  ASSUME FilesKinds, FilesInv, CopyInv, Careful, NEW p \in Filers, p \in crew, NEW t,
         task' = [task EXCEPT ![p] = t], t.at \notin CopySteps, Grows,
         UNCHANGED <<backup, safeties, crew, backups>>
  PROVE  CopyInv'
BY IdleLists, SameWhole, OnwardCopy DEF CopyInv

LEMMA SameGrows ==
  ASSUME ledger'.versions = ledger.versions, UNCHANGED live
  PROVE  Grows
BY DEF Grows, HasVersion, Content, Holds

\* A file that no row lists is written.
LEMMA WriteGrows ==
  ASSUME FilesKinds, NEW g \in Paths, ~HasVersion(ledger, g), NEW pdf \in Pdfs,
         live' = [Folder EXCEPT ![g] = pdf], UNCHANGED ledger
  PROVE  Grows
<1>1. Folder \in [Paths -> Pdfs \cup {Gone}] /\ (live # Gone => Folder = live)
  BY DEF Folder, EmptyFolder, FilesKinds, Folders
<1>2. live' \in [Paths -> Pdfs \cup {Gone}] /\ \A f \in Paths : f # g => live'[f] = Folder[f]
  BY <1>1
<1>3. live' # Gone
  BY <1>2, GoneAssumption
<1> QED
  BY <1>1, <1>2, <1>3 DEF Grows, HasVersion, Content, Holds

LEMMA CommitGrows ==
  ASSUME FilesKinds, NEW g \in Paths, NEW pdf \in Pdfs,
         ledger' = Committed(ledger, g, pdf), UNCHANGED live
  PROVE  Grows
<1>1. PICK d : d = g[1] /\ d \in DocIds
  BY DEF Paths
<1>2. ledger \in Ledgers /\ ledger.versions \in [DocIds -> Seq(Pdfs)]
  BY DEF FilesKinds, Ledgers
<1>3. ledger'.versions = [ledger.versions EXCEPT ![d] = Append(@, pdf)]
  BY <1>1, <1>2 DEF Committed, Ledgers
<1>4. ASSUME NEW f \in Paths, HasVersion(ledger, f)
      PROVE  HasVersion(ledger, f)' /\ Content(ledger', f) = Content(ledger, f)
  <2>1. f[1] \in DocIds /\ f[2] \in 1..Len(ledger.versions[f[1]])
    BY <1>4 DEF HasVersion, Paths
  <2> QED
    BY <1>1, <1>2, <1>3, <2>1 DEF HasVersion, Content
<1> QED
  BY <1>4 DEF Grows, Holds

LEMMA FilingListed ==
  ASSUME FilesKinds, FilesInv, CopyInv, Careful, NEW p \in Filers,
         \/ InsertVersion(p) \/ WriteFile(p) \/ CommitVersion(p) \/ WriteFails(p) \/ CommitFails(p) \/ RemoveFile(p)
         \/ \E pdf \in Pdfs : InsertDocument(p, pdf) \/ \E d \in DocIds : CheckRevision(p, d, pdf)
  PROVE  CopyInv'
<1>1. PICK c : c = task[p]
  OBVIOUS
<1>2. c \in Tasks /\ c.path \in Paths /\ TaskFits(c) /\ Doing(c)
  BY <1>1 DEF FilesKinds, FilesInv, Tasks
<1>3. p \in crew /\ UNCHANGED <<backup, safeties, crew, backups>>
  BY AtWork DEF InsertVersion, WriteFile, CommitVersion, WriteFails, CommitFails, RemoveFile, In,
                 InsertDocument, CheckRevision, Free, copies, counts, calm
<1>4. PICK t : task' = [task EXCEPT ![p] = t] /\ t.at \notin CopySteps
  <2>1. CASE CommitVersion(p) \/ WriteFails(p) \/ RemoveFile(p) \/ Stops(p)
    BY <2>1, StopDoing DEF CommitVersion, WriteFails, RemoveFile, Stops, Turns, CopySteps
  <2>2. CASE WriteFile(p) \/ CommitFails(p)
    <3>1. PICK step \in {"committing", "removing"} : Steps(p, step)
      BY <2>2 DEF WriteFile, CommitFails
    <3>2. [c EXCEPT !.at = step].at = step
      BY <1>2 DEF Tasks
    <3> QED
      BY <1>1, <3>1, <3>2 DEF Steps, Turns, CopySteps
  <2>3. CASE InsertVersion(p) /\ ~Stops(p)
    <3>1. PICK f : task' = [task EXCEPT ![p] = [c EXCEPT !.at = "writing", !.path = f]]
      BY <1>1, <2>3 DEF InsertVersion, Turns
    <3>2. [c EXCEPT !.at = "writing", !.path = f].at = "writing"
      BY <1>2 DEF Tasks
    <3> QED
      BY <3>1, <3>2 DEF CopySteps
  <2>4. CASE \E pdf \in Pdfs : InsertDocument(p, pdf) \/ \E d \in DocIds : CheckRevision(p, d, pdf)
    <3>1. PICK step \in {"writing", "revising"}, d \in DocIds, pdf \in Pdfs :
            task' = [task EXCEPT ![p] = [NoTask EXCEPT !.at = step, !.path = <<d, 1>>, !.pdf = pdf]]
      BY <2>4 DEF InsertDocument, CheckRevision, Turns
    <3>2. [NoTask EXCEPT !.at = step, !.path = <<d, 1>>, !.pdf = pdf].at = step
      BY DEF NoTask
    <3> QED
      BY <3>1, <3>2 DEF CopySteps
  <2> QED
    BY <2>1, <2>2, <2>3, <2>4
<1>5. Lone(crew) \/ Grows
  <2>1. CASE WriteFails(p) \/ RemoveFile(p)
    <3>1. ~Mild(crew)
      BY <2>1, MishapCounted DEF WriteFails, RemoveFile, In, FilesInv, CrewFits
    <3> QED
      BY <3>1, CrewIsCareful
  <2>2. CASE WriteFile(p)
    <3>1. c.at = "writing" /\ live' = [Folder EXCEPT ![c.path] = c.pdf] /\ UNCHANGED ledger
      BY <1>1, <2>2 DEF WriteFile, In
    <3>2. PICK n : n = Len(ledger.versions[c.path[1]]) /\ n \in Nat
      <4>1. ledger.versions \in [DocIds -> Seq(Pdfs)] /\ c.path[1] \in DocIds
        BY <1>2 DEF FilesKinds, Ledgers, Paths
      <4>2. Len(ledger.versions[c.path[1]]) \in Nat
        BY <4>1
      <4> QED
        BY <4>2
    <3>3. c.path[2] = n + 1 /\ n + 1 \notin 1..n
      <4>1. c.path[2] = Len(ledger.versions[c.path[1]]) + 1
        BY <1>2, <3>1, Zenon DEF Doing, Inside
      <4>2. c.path[2] = n + 1
        BY <3>2, <4>1, Zenon
      <4>3. n + 1 \notin 1..n
        BY <3>2
      <4> QED
        BY <4>2, <4>3
    <3>4. ~HasVersion(ledger, c.path)
      BY <3>2, <3>3 DEF HasVersion
    <3>5. c.pdf \in Pdfs
      BY <1>2, <3>1 DEF TaskFits
    <3> QED
      BY <1>2, <3>1, <3>4, <3>5, WriteGrows
  <2>3. CASE CommitVersion(p)
    <3>1. ledger' = Committed(ledger, c.path, c.pdf) /\ UNCHANGED live /\ c.pdf \in Pdfs
      BY <1>1, <1>2, <2>3 DEF CommitVersion, In, TaskFits
    <3> QED
      BY <1>2, <3>1, CommitGrows
  <2>4. CASE \/ InsertVersion(p) \/ CommitFails(p)
             \/ \E pdf \in Pdfs : InsertDocument(p, pdf) \/ \E d \in DocIds : CheckRevision(p, d, pdf)
    BY <2>4, SameGrows DEF InsertVersion, CommitFails, InsertDocument, CheckRevision
  <2> QED
    BY <2>1, <2>2, <2>3, <2>4
<1> QED
  BY <1>3, <1>4, <1>5, AloneCopies, FilingCopies

LEMMA CloseListed ==
  ASSUME FilesKinds, FilesInv, CopyInv, Careful, NEW p \in Filers, NEW d \in DocIds, CloseDocument(p, d)
  PROVE  CopyInv'
<1>1. /\ p \in crew /\ task[p] = NoTask /\ UNCHANGED <<live, backup, safeties, task, crew, backups>>
      /\ ledger'.versions = ledger.versions
  BY DEF CloseDocument, Free, copies, counts, FilesKinds, Ledgers
<1>2. task' = [task EXCEPT ![p] = NoTask] /\ NoTask.at \notin CopySteps
  BY <1>1 DEF FilesKinds, NoTask, CopySteps
<1> QED
  BY <1>1, <1>2, SameGrows, FilingCopies

\* What a copy begins with is the books, and all of the folder but what it lacks.
LEMMA SnapshotListed ==
  ASSUME FilesKinds, NEW t, t.at = "copying", t.temp = live, NEW folder \in Folders,
         Target(t.to)' = Snapshot(folder), UNCHANGED <<ledger, live>>
  PROVE  Lists(t)'
<1>1. PICK copy : copy = Snapshot(folder)
  OBVIOUS
<1>2. copy # Gone /\ copy.ledger = ledger /\ copy.lacked = Lacking /\ copy.ended = FALSE
  BY <1>1, SnapshotTyped DEF Snapshot
<1>3. \A f \in Paths : HasVersion(ledger, f) /\ f \notin copy.lacked => Holds(live, f, Content(ledger, f))
  BY <1>2 DEF Lacking, Content
<1> QED
  BY <1>1, <1>2, <1>3 DEF Lists, HasVersion, Holds, Content

LEMMA BackupListed ==
  ASSUME FilesKinds, FilesInv, CopyInv, Careful, NEW p \in Filers, StartBackup(p)
  PROVE  CopyInv'
<1>1. PICK t : t = [NoTask EXCEPT !.at = "copying", !.temp = live]
  OBVIOUS
<1>2. t.at = "copying" /\ t.to = 0 /\ t.temp = live
  BY <1>1 DEF NoTask
<1>3. PICK folder \in Folders : backup' = Snapshot(folder)
  <2>1. (IF backup = Gone THEN Gone ELSE backup.folder) \in Folders
    BY DEF FilesKinds, Copies, Folders
  <2> QED
    BY <2>1 DEF StartBackup
<1>4. /\ p \in crew /\ task[p] = NoTask /\ UNCHANGED <<ledger, live, safeties, crew>>
      /\ task' = [task EXCEPT ![p] = t] /\ backups \in Nat /\ backups' = backups + 1
      /\ backups < MaxBackups[crew] /\ MaxBackups[crew] \in Nat
  BY <1>1, FilesAssumption DEF StartBackup, Free, Turns, FilesInv, CrewFits, FilesKinds
<1>5. Target(t.to)' = Snapshot(folder)
  BY <1>2, <1>3 DEF Target
<1>6. Lists(t)'
  BY <1>2, <1>4, <1>5, SnapshotListed
<1>7. BackupIsWhole'
  <2>1. SetTarget(0, Snapshot(folder))
    BY <1>3, <1>4 DEF SetTarget
  <2>2. ~Snapshot(folder).ended
    BY DEF Snapshot
  <2>3. 0 \in 0..Len(safeties)
    BY DEF FilesKinds
  <2> QED
    BY <2>1, <2>2, <2>3, TargetWhole DEF CopyInv
<1>8. Lone(crew) \/ \A q \in Filers : ~Copier(q)
  <2> SUFFICES ASSUME ~Lone(crew) PROVE \A q \in Filers : ~Copier(q)
    OBVIOUS
  <2>1. Mild(crew) /\ MaxBackups[crew] <= 1
    BY CrewIsCareful
  <2>2. backups = 0
    BY <1>4, <2>1
  <2> QED
    BY <2>1, <2>2 DEF CopyInv
<1>9. backups' # 0
  BY <1>4
<1> QED
  BY <1>4, <1>6, <1>7, <1>8, <1>9, OnwardCopy

LEMMA CopyListed ==
  ASSUME FilesKinds, FilesInv, CopyInv, Careful, NEW p \in Filers,
         CopyNothing(p) \/ CopyTree(p) \/ ClearOldCopy(p) \/ PlaceCopy(p)
  PROVE  CopyInv'
<1>1. PICK c : c = task[p]
  OBVIOUS
<1>2. c \in Tasks /\ TaskFits(c) /\ c.at \in CopySteps /\ Lists(c) /\ Copier(p)
  BY <1>1 DEF FilesKinds, CopyInv, CopyNothing, CopyTree, ClearOldCopy, PlaceCopy, In, CopySteps, Copier
<1>3. PICK copy : copy = Target(c.to)
  OBVIOUS
<1>4. c.to \in 0..Len(safeties) /\ copy \in Copies
  BY <1>2, <1>3, TargetTyped DEF TaskFits
<1>5. /\ copy # Gone /\ ~copy.ended
      /\ \A f \in Paths : HasVersion(copy.ledger, f) =>
           IF c.at = "copying"
           THEN /\ HasVersion(ledger, f) /\ Content(ledger, f) = Content(copy.ledger, f)
                /\ f \notin copy.lacked => Holds(live, f, Content(copy.ledger, f)) /\ Holds(c.temp, f, Content(copy.ledger, f))
           ELSE f \notin copy.lacked => Holds(c.temp, f, Content(copy.ledger, f))
  BY <1>2, <1>3 DEF Lists
<1>6. p \in crew /\ UNCHANGED <<ledger, live, crew, backups>>
  BY <1>1, <1>2, AtWork DEF CopyNothing, CopyTree, ClearOldCopy, PlaceCopy, counts, CopySteps
<1>7. Mild(crew) => backups' # 0
  BY <1>2, <1>6 DEF CopyInv
<1>8. CASE CopyNothing(p) \/ PlaceCopy(p)
  <2>1. PICK made : /\ SetTarget(c.to, made)
                    /\ CopyNothing(p) => made = [copy EXCEPT !.ended = TRUE]
                    /\ PlaceCopy(p) => made = [copy EXCEPT !.folder = c.temp, !.ended = TRUE]
    <3>1. CASE CopyNothing(p)
      BY <1>1, <1>3, <3>1 DEF CopyNothing, PlaceCopy, In
    <3>2. CASE PlaceCopy(p)
      BY <1>1, <1>3, <3>2 DEF CopyNothing, PlaceCopy, In
    <3> QED
      BY <1>8, <3>1, <3>2
  <2>2. \A f \in Paths \ made.lacked : HasVersion(made.ledger, f) => Holds(made.folder, f, Content(made.ledger, f))
    <3>1. CASE CopyNothing(p)
      <4>1. c.at = "copying" /\ live = Gone
        BY <1>1, <3>1 DEF CopyNothing, In
      <4>2. made.lacked = copy.lacked /\ made.ledger = copy.ledger
        BY <1>4, <2>1, <3>1 DEF Copies
      <4> QED
        BY <1>5, <4>1, <4>2 DEF Holds
    <3>2. CASE PlaceCopy(p)
      <4>1. c.at = "placing"
        BY <1>1, <3>2 DEF PlaceCopy, In
      <4>2. made.lacked = copy.lacked /\ made.ledger = copy.ledger /\ made.folder = c.temp
        BY <1>4, <2>1, <3>2 DEF Copies
      <4> QED
        BY <1>5, <4>1, <4>2
    <3> QED
      BY <1>8, <3>1, <3>2
  <2>3. BackupIsWhole'
    BY <1>4, <2>1, <2>2, TargetWhole DEF CopyInv
  <2>4. PICK t : task' = [task EXCEPT ![p] = t] /\ t.at \notin CopySteps
    <3>1. CASE Stops(p)
      BY <3>1, StopDoing DEF Stops, Turns, CopySteps
    <3>2. CASE ~Stops(p)
      <4>1. task' = [task EXCEPT ![p] = [c EXCEPT !.at = "replacing", !.temp = Gone]]
        BY <1>1, <1>8, <3>2 DEF CopyNothing, PlaceCopy, AfterCopy, Turns
      <4>2. [c EXCEPT !.at = "replacing", !.temp = Gone].at = "replacing"
        BY <1>2 DEF Tasks
      <4> QED
        BY <4>1, <4>2 DEF CopySteps
    <3> QED
      BY <3>1, <3>2
  <2>5. Lists(t)'
    BY <2>4, IdleLists
  <2> QED
    BY <1>2, <1>6, <1>7, <2>3, <2>4, <2>5, OnwardCopy
<1>9. CASE ClearOldCopy(p)
  <2>1. PICK made : made = [copy EXCEPT !.folder = Gone]
    OBVIOUS
  <2>2. SetTarget(c.to, made) /\ c.at = "clearing"
    BY <1>1, <1>3, <1>9, <2>1 DEF ClearOldCopy, In
  <2>3. /\ made \in Copies /\ made # Gone /\ ~made.ended
        /\ made.ledger = copy.ledger /\ made.lacked = copy.lacked
    <3>1. made \in Copies
      BY <1>4, <2>1 DEF Copies, Folders
    <3>2. made # Gone
      BY <3>1, GoneAssumption
    <3> QED
      BY <1>4, <1>5, <2>1, <3>1, <3>2 DEF Copies
  <2>4. BackupIsWhole'
    BY <1>4, <2>2, <2>3, TargetWhole DEF CopyInv
  <2>5. PICK t : t = [c EXCEPT !.at = "placing"]
    OBVIOUS
  <2>6. /\ t.at = "placing" /\ t.to = c.to /\ t.temp = c.temp
        /\ task' = [task EXCEPT ![p] = t]
    BY <1>1, <1>2, <1>9, <2>5 DEF Tasks, ClearOldCopy, Steps, Turns
  <2>7. Target(t.to)' = made
    BY <1>4, <2>2, <2>6 DEF SetTarget, Target, FilesKinds
  <2>8. \A f \in Paths : HasVersion(made.ledger, f) /\ f \notin made.lacked => Holds(t.temp, f, Content(made.ledger, f))
    BY <1>5, <2>2, <2>3, <2>6
  <2>9. Lists(t)'
    BY <2>3, <2>6, <2>7, <2>8 DEF Lists, HasVersion, Holds, Content
  <2> QED
    BY <1>2, <1>6, <1>7, <2>4, <2>6, <2>9, OnwardCopy
<1>10. CASE CopyTree(p)
  <2>1. UNCHANGED <<backup, safeties>> /\ c.at = "copying"
    BY <1>1, <1>10 DEF CopyTree, copies, In
  <2>2. BackupIsWhole'
    BY <2>1, SameWhole DEF CopyInv
  <2>3a. PICK late \in SUBSET Paths : Turns(p, [c EXCEPT !.at = "clearing", !.temp = Walked(c.temp, late)])
    BY <1>1, <1>10 DEF CopyTree
  <2>3. PICK t : t = [c EXCEPT !.at = "clearing", !.temp = Walked(c.temp, late)]
    OBVIOUS
  <2>4. /\ t.at = "clearing" /\ t.to = c.to /\ t.temp = Walked(c.temp, late)
        /\ task' = [task EXCEPT ![p] = t]
    BY <1>2, <2>3a, <2>3 DEF Tasks, Turns
  <2>5. Target(t.to)' = copy
    BY <1>3, <2>1, <2>4 DEF Target
  <2>6. \A f \in Paths : HasVersion(copy.ledger, f) /\ f \notin copy.lacked => Holds(t.temp, f, Content(copy.ledger, f))
    <3> SUFFICES ASSUME NEW f \in Paths, HasVersion(copy.ledger, f), f \notin copy.lacked
                 PROVE  Holds(t.temp, f, Content(copy.ledger, f))
      OBVIOUS
    <3>1. c.temp \in Folders /\ live # Gone
      BY <1>2, <1>10 DEF Tasks, CopyTree
    <3>2. Holds(live, f, Content(copy.ledger, f)) /\ Holds(c.temp, f, Content(copy.ledger, f))
      BY <1>5, <2>1
    <3>3. Content(copy.ledger, f) # Gone
      <4>1. copy.ledger.versions \in [DocIds -> Seq(Pdfs)] /\ f[1] \in DocIds /\ f[2] \in 1..Len(copy.ledger.versions[f[1]])
        BY <1>4, <1>5 DEF Copies, Ledgers, HasVersion, Paths
      <4>2. Content(copy.ledger, f) \in Pdfs
        BY <4>1 DEF Content
      <4> QED
        BY <4>2, GoneAssumption
    <3>4. t.temp[f] = live[f] /\ t.temp # Gone
      BY <2>4, <3>1, <3>2, <3>3, WalkedTyped DEF Holds
    <3> QED
      BY <3>2, <3>4 DEF Holds
  <2>7. Lists(t)'
    BY <1>5, <2>4, <2>5, <2>6 DEF Lists, HasVersion, Holds, Content
  <2> QED
    BY <1>2, <1>6, <1>7, <2>2, <2>4, <2>7, OnwardCopy
<1> QED
  BY <1>8, <1>9, <1>10

LEMMA StartRestoreListed ==
  ASSUME FilesKinds, FilesInv, CopyInv, Careful, NEW p \in Filers, NEW k \in 0..Len(safeties),
         StartRestore(p, k)
  PROVE  CopyInv'
<1>1. PICK n : n = Len(safeties) /\ n \in Nat /\ safeties \in Seq(Copies)
  BY DEF FilesKinds
<1>2. PICK t : t = [NoTask EXCEPT !.at = "copying", !.temp = live, !.to = n + 1, !.from = k]
  OBVIOUS
<1>3. t.at = "copying" /\ t.to = n + 1 /\ t.temp = live
  BY <1>2 DEF NoTask
<1>4. /\ p \in crew /\ UNCHANGED <<ledger, live, crew, backup, backups>>
      /\ task' = [task EXCEPT ![p] = t] /\ safeties' = Append(safeties, Snapshot(Gone))
      /\ n < MaxRestores[crew]
  BY <1>1, <1>2 DEF StartRestore, Free, Turns, counts
<1>5. Lone(crew) /\ ~Mild(crew)
  <2>1. MaxRestores[crew] # 0
    BY <1>1, <1>4
  <2> QED
    BY <2>1, CrewIsCareful DEF Mild
<1>6. Gone \in Folders /\ Snapshot(Gone) \in Copies /\ ~Snapshot(Gone).ended
  BY SnapshotTyped DEF Folders, Snapshot
<1>7. /\ DOMAIN safeties' = 1..(n + 1) /\ DOMAIN safeties = 1..n
      /\ safeties'[n + 1] = Snapshot(Gone) /\ \A j \in 1..n : safeties'[j] = safeties[j]
  BY <1>1, <1>4, <1>6
<1>8. Target(t.to)' = Snapshot(Gone)
  <2>1. n + 1 # 0
    BY <1>1
  <2> QED
    BY <1>3, <1>7, <2>1 DEF Target
<1>9. Lists(t)'
  BY <1>3, <1>4, <1>6, <1>8, SnapshotListed
<1>10. BackupIsWhole'
  <2>1. ASSUME NEW x \in {backup'} \cup {safeties'[j] : j \in DOMAIN safeties'}
        PROVE  x = Snapshot(Gone) \/ x \in {backup} \cup {safeties[j] : j \in DOMAIN safeties}
    <3>1. \A j \in 1..(n + 1) : j = n + 1 \/ j \in 1..n
      BY <1>1
    <3> QED
      BY <1>4, <1>7, <2>1, <3>1
  <2> SUFFICES ASSUME NEW x \in {backup'} \cup {safeties'[j] : j \in DOMAIN safeties'}, x # Gone, x.ended,
                      NEW f \in Paths \ x.lacked, HasVersion(x.ledger, f)
               PROVE  Holds(x.folder, f, x.ledger.versions[f[1]][f[2]])
    BY DEF BackupIsWhole, HasVersion, Holds
  <2> QED
    BY <1>6, <2>1 DEF BackupIsWhole, CopyInv
<1> QED
  BY <1>4, <1>5, <1>9, <1>10, OnwardCopy

LEMMA ReplaceListed ==
  ASSUME FilesKinds, FilesInv, CopyInv, Careful, NEW p \in Filers,
         \/ ReplaceLedger(p) \/ StageCopy(p) \/ StageFails(p) \/ MoveLiveAside(p) \/ MoveLiveFails(p)
         \/ MoveStagedIn(p) \/ MoveStagedFails(p) \/ DropReplaced(p) \/ CopyFails(p) \/ Kill(p)
  PROVE  CopyInv'
<1>1. PICK c : c = task[p]
  OBVIOUS
<1>2. c \in Tasks /\ TaskFits(c) /\ (c.at # "none" \/ c # NoTask)
  BY <1>1 DEF FilesKinds, ReplaceLedger, StageCopy, StageFails, MoveLiveAside,
              MoveLiveFails, MoveStagedIn, MoveStagedFails, DropReplaced, CopyFails, Kill, In
<1>3. p \in crew
  BY <1>1, <1>2, AtWork DEF FilesInv, CrewFits
<1>4. UNCHANGED <<backup, safeties, crew, backups>>
  BY DEF ReplaceLedger, StageCopy, StageFails, MoveLiveAside, MoveLiveFails, MoveStagedIn,
         MoveStagedFails, DropReplaced, CopyFails, Kill, copies, counts, calm
<1>5. Lone(crew)
  <2>1. CASE CopyFails(p) \/ Kill(p)
    BY <2>1, MishapCounted, CrewIsCareful DEF CopyFails, Kill
  <2>2. CASE ~(CopyFails(p) \/ Kill(p))
    <3>1. c.at \in RestoreSteps
      BY <1>1, <2>2 DEF RestoreSteps, ReplaceLedger, StageCopy, StageFails, MoveLiveAside,
              MoveLiveFails, MoveStagedIn, MoveStagedFails, DropReplaced, In
    <3>2. c.from # -1
      BY <1>2, <3>1 DEF TaskFits, RestoreSteps
    <3> QED
      BY <1>1, <3>2, CrewIsCareful DEF FilesInv, CrewFits
  <2> QED
    BY <2>1, <2>2
<1>6. PICK t : task' = [task EXCEPT ![p] = t] /\ t.at \notin CopySteps
  <2>1. CASE Stops(p)
    BY <2>1, StopDoing DEF Stops, Turns, CopySteps
  <2>2. CASE ~Stops(p)
    <3>1. PICK step \in RestoreSteps : Steps(p, step)
      BY <2>2 DEF ReplaceLedger, StageCopy, StageFails, MoveLiveAside, MoveLiveFails, MoveStagedIn,
                  MoveStagedFails, DropReplaced, CopyFails, Kill, RestoreSteps
    <3>2. [c EXCEPT !.at = step].at = step
      BY <1>2 DEF Tasks
    <3> QED
      BY <1>1, <3>1, <3>2 DEF Steps, Turns, RestoreSteps, CopySteps
  <2> QED
    BY <2>1, <2>2
<1> QED
  BY <1>3, <1>4, <1>5, <1>6, AloneCopies

LEMMA CopyInit == FilesInit => CopyInv
<1> SUFFICES ASSUME FilesInit PROVE CopyInv
  OBVIOUS
<1>1. \A p \in Filers : task[p] = NoTask
  BY DEF FilesInit
<1>2. NoTask.at \notin CopySteps
  BY DEF NoTask, CopySteps
<1>3. BackupIsWhole
  BY DEF FilesInit, BackupIsWhole
<1> QED
  BY <1>1, <1>2, <1>3 DEF CopyInv, Lists, Copier

LEMMA CopyStep ==
  Careful /\ FilesKinds /\ FilesInv /\ CopyInv /\ [FilesNext]_filesVars => CopyInv'
<1> SUFFICES ASSUME Careful, FilesKinds, FilesInv, CopyInv, [FilesNext]_filesVars PROVE CopyInv'
  OBVIOUS
<1>1. CASE UNCHANGED filesVars
  <2>1. UNCHANGED <<ledger, live, backup, safeties, task, crew, backups>>
    BY <1>1 DEF filesVars
  <2>2. ASSUME NEW p \in Filers PROVE Lists(task[p])'
    <3>1. PICK u : u = task[p]
      OBVIOUS
    <3>2. Lists(u)'
      BY <2>1, <3>1, SameGrows, GrowingLists DEF CopyInv
    <3> QED
      BY <2>1, <3>1, <3>2
  <2>3. BackupIsWhole'
    BY <2>1, SameWhole DEF CopyInv
  <2> QED
    BY <2>1, <2>2, <2>3 DEF CopyInv, Copier, Mild
<1>2. CASE FilesNext
  <2>1. PICK p \in Filers :
    \/ \E pdf \in Pdfs : InsertDocument(p, pdf) \/ \E d \in DocIds : CheckRevision(p, d, pdf)
    \/ \E d \in DocIds : CloseDocument(p, d)
    \/ InsertVersion(p) \/ WriteFile(p) \/ CommitVersion(p)
    \/ WriteFails(p) \/ CommitFails(p) \/ RemoveFile(p)
    \/ StartBackup(p) \/ CopyNothing(p) \/ CopyTree(p) \/ ClearOldCopy(p) \/ PlaceCopy(p) \/ CopyFails(p)
    \/ \E k \in 0..Len(safeties) : StartRestore(p, k)
    \/ ReplaceLedger(p) \/ StageCopy(p) \/ StageFails(p)
    \/ MoveLiveAside(p) \/ MoveLiveFails(p) \/ MoveStagedIn(p) \/ MoveStagedFails(p) \/ DropReplaced(p)
    \/ Kill(p)
    BY <1>2 DEF FilesNext
  <2> QED
    BY <2>1, FilingListed, CloseListed, BackupListed, CopyListed, StartRestoreListed, ReplaceListed
<1> QED
  BY <1>1, <1>2

\* Where every crew is careful, a backup that ended well has the file of every
\* version it lists, though documents were filed and revised while it was made.
THEOREM BackupsWhole == Careful /\ FilesSpec => []BackupIsWhole
<1>1. Careful /\ FilesSpec => [](FilesKinds /\ FilesInv)
  BY CarefulIsCalm, KeptInvariant
<1>2. FilesInit => CopyInv
  BY CopyInit
<1>3. Careful /\ FilesKinds /\ FilesInv /\ CopyInv /\ [FilesNext]_filesVars => CopyInv'
  BY CopyStep
<1>4. Careful => [](Careful)
  OBVIOUS
<1>5. CopyInv => BackupIsWhole
  BY DEF CopyInv
<1> QED
  BY <1>1, <1>2, <1>3, <1>4, <1>5, PTL DEF FilesSpec
====
