----------------------- MODULE DocumentSigningProofs -----------------------
(***************************************************************************)
(* Proofs about DocumentSigning, for any number of processes, browsers,    *)
(* versions, sends, answers, faults and crashes.                           *)
(***************************************************************************)
EXTENDS DocumentSigning, TLAPS

-----------------------------------------------------------------------------
(* Commands *)

\* The step a command is at says what it holds.
LEMMA OpShape ==
  ASSUME NEW o \in Ops
  PROVE  /\ o.at \in SendSteps => o \in Sending
         /\ o.at \in {"supersede", "upload"} => o \in OnOne
         /\ o.at = "load" => o \in LoadingOp
         /\ o.at = "close" => o \in ClosingOp
         /\ o.at = "rewrite" => o \in Rewriting
         /\ o.at \in Verbs => o \in Deciding
         /\ o.at = "teardown" => o \in Tearing
         /\ o.at \in {"fetch", "pull"} => o \in Pulling
<1>1. CASE o \in {Idle} \cup Syncing
  BY <1>1 DEF Idle, Syncing, SendSteps, Verbs
<1>2. CASE o \in Sending
  BY <1>2 DEF Sending, SendState, SendSteps, Verbs
<1>3. CASE o \in OnOne \cup LoadingOp \cup ClosingOp
  BY <1>3 DEF OnOne, LoadingOp, ClosingOp, SendSteps, Verbs
<1>4. CASE o \in Rewriting \cup Deciding \cup Tearing
  BY <1>4 DEF Rewriting, Deciding, Tearing, SendSteps, Verbs
<1>5. CASE o \in Pulling
  BY <1>5 DEF Pulling, SendSteps, Verbs
<1> QED
  BY <1>1, <1>2, <1>3, <1>4, <1>5 DEF Ops

\* A command that takes up a well-formed step leaves the others as they were.
LEMMA BecomeTyped ==
  ASSUME op \in [Procs -> Ops], NEW p \in Procs, NEW o \in Ops, Become(p, o)
  PROVE  op' \in [Procs -> Ops]
BY DEF Become

\* A send that only moves on keeps what it holds.
LEMMA SendMoveTyped ==
  ASSUME op \in [Procs -> Ops], NEW p \in Procs, op[p].at \in SendSteps,
         NEW at \in SendSteps \ {"email"}, Move(p, at)
  PROVE  op' \in [Procs -> Ops]
<1>1. op[p] \in Sending
  BY OpShape
<1>2. [op[p] EXCEPT !.at = at] \in Sending
  BY <1>1 DEF Sending, SendState
<1> QED
  BY <1>2 DEF Move, Ops

\* What follows the rewriting of a version's pages.
LEMMA AfterClosingTyped ==
  ASSUME NEW o \in ClosingOp \cup Rewriting
  PROVE  AfterClosing(o) \in Ops
BY DEF AfterClosing, ClosingOp, Rewriting, After, OnOne, Ops, Idle

\* A closing is a step of its own.
LEMMA ClosingTyped ==
  ASSUME NEW v \in Versions, NEW show \in Shows, NEW next \in After
  PROVE  Closing(v, show, next) \in Ops
BY DEF Closing, ClosingOp, Ops

\* So is a republication.
LEMMA LoadingTyped ==
  ASSUME NEW linked \in BOOLEAN
  PROVE  Loading(linked) \in Ops
BY DEF Loading, LoadingOp, Ops

\* The status is always one of the seven words.
LEMMA StatusTyped == Status \in Statuses
BY DEF Status, Statuses

-----------------------------------------------------------------------------
(* The parts of the state *)

\* A part of the state nothing is assigned to keeps its type.
LEMMA KeptTyped ==
  /\ DatabaseOK /\ UNCHANGED database => DatabaseOK'
  /\ PrivateOK /\ UNCHANGED private => PrivateOK'
  /\ PublicOK /\ UNCHANGED public => PublicOK'
  /\ WorkerOK /\ UNCHANGED worker => WorkerOK'
  /\ HistoryOK /\ UNCHANGED history => HistoryOK'
<1>1. DatabaseOK /\ UNCHANGED database => DatabaseOK'
  BY DEF DatabaseOK, database
<1>2. PrivateOK /\ UNCHANGED private => PrivateOK'
  BY DEF PrivateOK, private
<1>3. PublicOK /\ UNCHANGED public => PublicOK'
  BY DEF PublicOK, public
<1>4. WorkerOK /\ UNCHANGED worker => WorkerOK'
  BY DEF WorkerOK, worker
<1>5. HistoryOK /\ UNCHANGED history => HistoryOK'
  BY DEF HistoryOK, history
<1> QED
  BY <1>1, <1>2, <1>3, <1>4, <1>5, Zenon

\* Whatever a call does, the counts of troubles stay within their bounds.
LEMMA TroublesTyped ==
  ASSUME TroublesOK,
         \/ UNCHANGED troubles
         \/ Warned
         \/ Fault /\ UNCHANGED leftover
         \/ leftover' = TRUE /\ UNCHANGED <<faults, crashes>>
  PROVE  TroublesOK'
<1>1. leftover' \in {leftover, TRUE}
  BY DEF troubles, Warned, Fault
<1>2. leftover' \in BOOLEAN
  BY <1>1, Zenon DEF TroublesOK
<1>3. faults' \in 0..MaxFaults /\ crashes' \in 0..MaxCrashes
  <2>1. CASE UNCHANGED troubles \/ UNCHANGED <<faults, crashes>>
    BY <2>1 DEF troubles, TroublesOK
  <2>2. CASE Fault
    BY <2>2, BoundsAssumption DEF TroublesOK, Fault
  <2> QED
    BY <2>1, <2>2 DEF Warned
<1> QED
  BY <1>2, <1>3 DEF TroublesOK

\* The manifest is put, or the put fails.
LEMMA ManifestTyped ==
  ASSUME PrivateOK, UNCHANGED <<answers, closed>>, NEW to \in Attempts \cup {None},
         \/ manifest' = manifest
         \/ manifest' = Manifest(to, TRUE)
         \/ manifest' = Manifest(to, FALSE)
  PROVE  PrivateOK'
<1>1. /\ Manifest(to, TRUE) \in [to : Attempts \cup {None}, open : BOOLEAN]
      /\ Manifest(to, FALSE) \in [to : Attempts \cup {None}, open : BOOLEAN]
  BY DEF Manifest
<1> QED
  BY <1>1 DEF PrivateOK

\* The pages of some sends are rewritten.
LEMMA PagesTyped ==
  ASSUME PublicOK, UNCHANGED records, NEW S, NEW show \in Shows,
         \/ pages' = pages
         \/ pages' = [a \in Attempts |-> IF a \in S THEN show ELSE pages[a]]
  PROVE  PublicOK'
BY DEF PublicOK

-----------------------------------------------------------------------------
(* Type correctness, one action at a time: sending *)

LEMMA StartSendTyped ==
  ASSUME TypeOK, NEW p \in Procs, StartSend(p)
  PROVE  TypeOK'
<1>1. PICK a \in Attempts :
        /\ versionOf' = [versionOf EXCEPT ![a] = latest]
        /\ Become(p, [at |-> "freeze", v |-> latest, a |-> a, to |-> None,
                      opened |-> FALSE, left |-> Roles])
  BY DEF StartSend
<1>2. [at |-> "freeze", v |-> latest, a |-> a, to |-> None,
       opened |-> FALSE, left |-> Roles] \in Ops
  BY DEF Ops, Sending, SendState, SendSteps, TypeOK, DatabaseOK
<1>3. op' \in [Procs -> Ops]
  BY <1>1, <1>2, BecomeTyped DEF TypeOK
<1>4. HistoryOK'
  BY <1>1 DEF StartSend, TypeOK, DatabaseOK, HistoryOK
<1> QED
  BY <1>3, <1>4, KeptTyped, TroublesTyped DEF TypeOK, StartSend

LEMMA EnsureLatestUnsentTyped ==
  ASSUME TypeOK, NEW p \in Procs, EnsureLatestUnsent(p)
  PROVE  TypeOK'
<1>1. op[p].at \in SendSteps
  BY DEF EnsureLatestUnsent, Ensured, SendSteps
<1>2. PICK at \in SendSteps \ {"email"} : Move(p, at)
  BY DEF EnsureLatestUnsent, Ensured, SendSteps
<1>3. op' \in [Procs -> Ops]
  BY <1>1, <1>2, SendMoveTyped DEF TypeOK
<1>4. TroublesOK'
  BY TroublesTyped DEF EnsureLatestUnsent, TypeOK, troubles
<1> QED
  BY <1>3, <1>4, KeptTyped DEF TypeOK, EnsureLatestUnsent

LEMMA FreezeRecipientsTyped ==
  ASSUME TypeOK, NEW p \in Procs, FreezeRecipients(p)
  PROVE  TypeOK'
<1>1. op[p] \in Sending /\ op[p].at \in SendSteps
  BY OpShape DEF FreezeRecipients, TypeOK, SendSteps
<1>2. op' \in [Procs -> Ops]
  BY <1>1, SendMoveTyped DEF FreezeRecipients, TypeOK, SendSteps
<1>3. op[p].v \in Versions /\ op[p].a \in Attempts
  BY <1>1 DEF Sending, SendState
<1>4. DatabaseOK'
  BY <1>3 DEF FreezeRecipients, TypeOK, DatabaseOK
<1> QED
  BY <1>2, <1>4, KeptTyped, TroublesTyped DEF TypeOK, FreezeRecipients

LEMMA OpenPagesTyped ==
  ASSUME TypeOK, NEW p \in Procs
  PROVE  OpenPages(p) \in [Attempts -> Shows \cup {None}]
BY DEF OpenPages, TypeOK, PublicOK, Shows

LEMMA PublishPagesTyped ==
  ASSUME TypeOK, NEW p \in Procs, PublishPages(p)
  PROVE  TypeOK'
<1>1. op[p] \in Sending /\ op[p].at \in SendSteps /\ recips[op[p].v] \in Attempts \cup {None}
  BY OpShape DEF PublishPages, TypeOK, DatabaseOK, SendSteps, Sending, SendState
<1>2. CASE Move(p, "unfreeze") /\ UNCHANGED pages
  <2>1. op' \in [Procs -> Ops]
    BY <1>1, <1>2, SendMoveTyped DEF TypeOK, SendSteps
  <2>2. PublicOK'
    BY <1>2 DEF PublishPages, TypeOK, PublicOK
  <2> QED
    BY <2>1, <2>2, KeptTyped, TroublesTyped DEF TypeOK, PublishPages
<1>3. CASE /\ op' = [op EXCEPT ![p].to = recips[op[p].v], ![p].at = "manifest"]
           /\ pages' = OpenPages(p)
  <2>1. [op[p] EXCEPT !.to = recips[op[p].v], !.at = "manifest"] \in Sending
    BY <1>1 DEF Sending, SendState, SendSteps
  <2>2. op' \in [Procs -> Ops]
    BY <1>3, <2>1 DEF TypeOK, Ops
  <2>3. PublicOK'
    BY <1>3, OpenPagesTyped DEF PublishPages, TypeOK, PublicOK
  <2> QED
    BY <2>2, <2>3, KeptTyped, TroublesTyped DEF TypeOK, PublishPages
<1> QED
  BY <1>2, <1>3 DEF PublishPages

LEMMA OpenManifestTyped ==
  ASSUME TypeOK, NEW p \in Procs, OpenManifest(p)
  PROVE  TypeOK'
<1>1. op[p] \in Sending
  BY OpShape DEF OpenManifest, TypeOK, SendSteps
<1>2. [op[p] EXCEPT !.opened = TRUE, !.at = "email",
                     !.left = IF op[p].to = None THEN {} ELSE Roles] \in Sending
  BY <1>1 DEF Sending, SendState, SendSteps
<1>3. op' \in [Procs -> Ops]
  BY <1>2 DEF OpenManifest, TypeOK, Ops
<1>4. op[p].to \in Attempts \cup {None}
  BY <1>1 DEF Sending, SendState
<1>5. PrivateOK'
  BY <1>4, ManifestTyped DEF OpenManifest, TypeOK
<1> QED
  BY <1>3, <1>5, KeptTyped, TroublesTyped DEF TypeOK, OpenManifest

LEMMA EmailLinkTyped ==
  ASSUME TypeOK, NEW p \in Procs, EmailLink(p)
  PROVE  TypeOK'
<1>1. op[p] \in Sending /\ op[p].at \in SendSteps
  BY OpShape DEF EmailLink, TypeOK, SendSteps
<1>2. CASE Move(p, "record") /\ UNCHANGED emailed
  <2>1. op' \in [Procs -> Ops]
    BY <1>1, <1>2, SendMoveTyped DEF TypeOK, SendSteps
  <2>2. HistoryOK'
    BY <1>2 DEF EmailLink, TypeOK, HistoryOK
  <2> QED
    BY <2>1, <2>2, KeptTyped, TroublesTyped DEF TypeOK, EmailLink
<1>3. ASSUME NEW r \in op[p].left,
             op' = [op EXCEPT ![p].left = @ \ {r}],
             emailed' = emailed \cup {<<op[p].to, r>>}
      PROVE  TypeOK'
  <2>1. [op[p] EXCEPT !.left = @ \ {r}] \in Sending
    BY <1>1 DEF Sending, SendState
  <2>2. op' \in [Procs -> Ops]
    BY <1>3, <2>1 DEF TypeOK, Ops
  <2>3. <<op[p].to, r>> \in Links
    BY <1>1, <1>3 DEF EmailLink, Sending, SendState, Links
  <2>4. HistoryOK'
    BY <1>3, <2>3 DEF EmailLink, TypeOK, HistoryOK
  <2> QED
    BY <2>2, <2>4, KeptTyped, TroublesTyped DEF TypeOK, EmailLink
<1> QED
  BY <1>2, <1>3 DEF EmailLink

LEMMA SendFailsTyped ==
  ASSUME TypeOK, NEW p \in Procs, SendFails(p)
  PROVE  TypeOK'
<1>1. op[p] \in Sending /\ op[p].at \in SendSteps
  BY OpShape DEF SendFails, TypeOK, SendSteps
<1>2. op' \in [Procs -> Ops]
  BY <1>1, SendMoveTyped DEF SendFails, TypeOK, SendSteps
<1>3. manifest' \in {manifest, Manifest(op[p].to, TRUE)}
  BY DEF SendFails
<1>4. op[p].to \in Attempts \cup {None}
  BY <1>1 DEF Sending, SendState
<1>5. PrivateOK'
  BY <1>3, <1>4, ManifestTyped DEF SendFails, TypeOK
<1>6. emailed' \subseteq Links
  <2>1. CASE op[p].at # "email"
    BY <2>1 DEF SendFails, TypeOK, HistoryOK
  <2>2. ASSUME NEW r \in op[p].left, op[p].at = "email"
        PROVE  <<op[p].to, r>> \in Links
    BY <1>1, <2>2 DEF Sending, SendState, Links
  <2>3. CASE op[p].at = "email"
    BY <2>2, <2>3 DEF SendFails, TypeOK, HistoryOK, IsNextRole
  <2> QED
    BY <2>1, <2>3
<1>7. HistoryOK'
  BY <1>6 DEF SendFails, TypeOK, HistoryOK
<1>8. PublicOK'
  <2>1. pages' \in {pages, OpenPages(p)}
    BY DEF SendFails
  <2> QED
    BY <2>1, OpenPagesTyped DEF SendFails, TypeOK, PublicOK
<1> QED
  BY <1>2, <1>5, <1>7, <1>8, KeptTyped, TroublesTyped DEF TypeOK, SendFails

LEMMA MarkSentTyped ==
  ASSUME TypeOK, NEW p \in Procs, MarkSent(p)
  PROVE  TypeOK'
<1>1. op[p].v \in Versions /\ op[p].a \in Attempts
  BY OpShape DEF MarkSent, TypeOK, SendSteps, Sending, SendState
<1>2. [at |-> "supersede", v |-> op[p].v] \in Ops
  BY <1>1 DEF OnOne, Ops
<1>3. op' \in [Procs -> Ops]
  BY <1>2, BecomeTyped DEF MarkSent, TypeOK
<1>4. DatabaseOK'
  BY <1>1 DEF MarkSent, TypeOK, DatabaseOK
<1>5. HistoryOK'
  BY <1>1 DEF MarkSent, TypeOK, HistoryOK
<1> QED
  BY <1>3, <1>4, <1>5, KeptTyped, TroublesTyped DEF TypeOK, MarkSent

LEMMA UnfreezeTyped ==
  ASSUME TypeOK, NEW p \in Procs, Unfreeze(p)
  PROVE  TypeOK'
<1>1. op[p] \in Sending /\ op[p].at \in SendSteps
  BY OpShape DEF Unfreeze, TypeOK, SendSteps
<1>2. op' \in [Procs -> Ops]
  BY <1>1, SendMoveTyped DEF Unfreeze, TypeOK, SendSteps
<1>3. op[p].v \in Versions
  BY <1>1 DEF Sending, SendState
<1>4. DatabaseOK'
  BY <1>3 DEF Unfreeze, TypeOK, DatabaseOK
<1> QED
  BY <1>2, <1>4, KeptTyped, TroublesTyped DEF TypeOK, Unfreeze

LEMMA UnopenManifestTyped ==
  ASSUME TypeOK, NEW p \in Procs, UnopenManifest(p)
  PROVE  TypeOK'
<1>1. op[p].to \in Attempts \cup {None}
  BY OpShape DEF UnopenManifest, TypeOK, SendSteps, Sending, SendState
<1>2. op' \in [Procs -> Ops]
  BY BecomeTyped DEF UnopenManifest, TypeOK, Ops
<1>3. manifest' \in {manifest, Manifest(op[p].to, FALSE)}
  BY DEF UnopenManifest
<1>4. PrivateOK'
  BY <1>1, <1>3, ManifestTyped DEF UnopenManifest, TypeOK
<1>5. TroublesOK'
  BY TroublesTyped DEF UnopenManifest, TypeOK
<1> QED
  BY <1>2, <1>4, <1>5, KeptTyped DEF TypeOK, UnopenManifest

LEMMA SupersedeTyped ==
  ASSUME TypeOK, NEW p \in Procs, Supersede(p)
  PROVE  TypeOK'
<1>1. op' \in [Procs -> Ops]
  BY BecomeTyped DEF Supersede, TypeOK, Ops
<1>2. PublicOK'
  BY PagesTyped DEF Supersede, TypeOK, Shows
<1>3. TroublesOK'
  BY TroublesTyped DEF Supersede, TypeOK
<1> QED
  BY <1>1, <1>2, <1>3, KeptTyped DEF TypeOK, Supersede

-----------------------------------------------------------------------------
(* Republishing *)

LEMMA RepublishLoadTyped ==
  ASSUME TypeOK, NEW p \in Procs, RepublishLoad(p)
  PROVE  TypeOK'
<1>1. PICK v \in sent :
        LET show == PageState(v, op[p].linked)
        IN  Become(p, IF show = None THEN Idle ELSE Closing(v, show, "supersede"))
  BY DEF RepublishLoad
<1> DEFINE show == PageState(v, op[p].linked)
<1>2. v \in Versions
  BY DEF TypeOK, DatabaseOK
<1>3. show = None \/ show \in Shows
  BY DEF PageState, Shows
<1>4. Idle \in Ops /\ (show # None => Closing(v, show, "supersede") \in Ops)
  BY <1>2, <1>3, ClosingTyped DEF After, Ops
<1>5. op' \in [Procs -> Ops]
  BY <1>1, <1>4, BecomeTyped DEF TypeOK
<1> QED
  BY <1>5, KeptTyped, TroublesTyped DEF TypeOK, RepublishLoad

LEMMA CloseManifestTyped ==
  ASSUME TypeOK, NEW p \in Procs, CloseManifest(p)
  PROVE  TypeOK'
<1> DEFINE to == recips[op[p].v]
<1>1. op[p] \in ClosingOp
  BY OpShape DEF CloseManifest, TypeOK
<1>2. to \in Attempts \cup {None}
  BY <1>1 DEF ClosingOp, TypeOK, DatabaseOK
<1>3. AfterClosing(op[p]) \in Ops
  BY <1>1, AfterClosingTyped
<1>4. to # None => [at |-> "rewrite", v |-> op[p].v, to |-> to,
                    show |-> op[p].show, next |-> op[p].next] \in Ops
  BY <1>1, <1>2 DEF ClosingOp, Rewriting, Ops
<1>5. op' \in [Procs -> Ops]
  BY <1>3, <1>4, BecomeTyped DEF CloseManifest, TypeOK
<1>6. manifest' \in {manifest, Manifest(to, FALSE)}
  BY DEF CloseManifest
<1>7. PrivateOK'
  BY <1>2, <1>6, ManifestTyped DEF CloseManifest, TypeOK
<1>8. TroublesOK'
  BY TroublesTyped DEF CloseManifest, TypeOK
<1> QED
  BY <1>5, <1>7, <1>8, KeptTyped DEF TypeOK, CloseManifest

LEMMA RewritePagesTyped ==
  ASSUME TypeOK, NEW p \in Procs, RewritePages(p)
  PROVE  TypeOK'
<1>1. op[p] \in Rewriting
  BY OpShape DEF RewritePages, TypeOK
<1>2. op' \in [Procs -> Ops]
  BY <1>1, AfterClosingTyped, BecomeTyped DEF RewritePages, TypeOK
<1>3. op[p].show \in Shows
  BY <1>1 DEF Rewriting
<1>4. PublicOK'
  BY <1>3 DEF RewritePages, TypeOK, PublicOK
<1>5. TroublesOK'
  BY TroublesTyped DEF RewritePages, TypeOK
<1> QED
  BY <1>2, <1>4, <1>5, KeptTyped DEF TypeOK, RewritePages

-----------------------------------------------------------------------------
(* What the operator records by hand *)

LEMMA StartVerbTyped ==
  ASSUME TypeOK, NEW p \in Procs, NEW verb \in Verbs, StartVerb(p, verb)
  PROVE  TypeOK'
<1>1. [at |-> verb, bound |-> {v \in sent : IsLatestSent(v)}, torn |-> sent] \in Ops
  BY DEF TypeOK, DatabaseOK, Deciding, Ops
<1>2. op' \in [Procs -> Ops]
  BY <1>1, BecomeTyped DEF StartVerb, TypeOK
<1> QED
  BY <1>2, KeptTyped, TroublesTyped DEF TypeOK, StartVerb

LEMMA RecordAcceptTyped ==
  ASSUME TypeOK, NEW p \in Procs, RecordAccept(p)
  PROVE  TypeOK'
<1>1. op[p].bound \subseteq Versions
  BY OpShape DEF RecordAccept, TypeOK, Verbs, Deciding
<1>2. op' \in [Procs -> Ops]
  BY LoadingTyped, BecomeTyped DEF RecordAccept, TypeOK
<1>3. \A v \in op[p].bound :
        Signature(ManualRow(v), "client") \in
          [version : Versions, link : Links \cup {None}, role : {"client", "countersign"}]
  BY <1>1 DEF Signature, ManualRow
<1>4. DatabaseOK'
  BY <1>3 DEF RecordAccept, TypeOK, DatabaseOK
<1> QED
  BY <1>2, <1>4, KeptTyped, TroublesTyped DEF TypeOK, RecordAccept

LEMMA RecordChangeRequestTyped ==
  ASSUME TypeOK, NEW p \in Procs, RecordChangeRequest(p)
  PROVE  TypeOK'
<1>1. op[p].bound \subseteq Versions
  BY OpShape DEF RecordChangeRequest, TypeOK, Verbs, Deciding
<1>2. op' \in [Procs -> Ops]
  BY LoadingTyped, BecomeTyped DEF RecordChangeRequest, TypeOK
<1>3. \A v \in op[p].bound : ManualRow(v) \in Row
  BY <1>1 DEF ManualRow, Row
<1>4. DatabaseOK'
  BY <1>3 DEF RecordChangeRequest, TypeOK, DatabaseOK
<1> QED
  BY <1>2, <1>4, KeptTyped, TroublesTyped DEF TypeOK, RecordChangeRequest

LEMMA RecordDeclineTyped ==
  ASSUME TypeOK, NEW p \in Procs, RecordDecline(p)
  PROVE  TypeOK'
<1>1. op' \in [Procs -> Ops]
  BY LoadingTyped, BecomeTyped DEF RecordDecline, TypeOK
<1>2. DatabaseOK'
  BY DEF RecordDecline, TypeOK, DatabaseOK
<1> QED
  BY <1>1, <1>2, KeptTyped, TroublesTyped DEF TypeOK, RecordDecline

LEMMA RecordCountersignTyped ==
  ASSUME TypeOK, NEW p \in Procs, RecordCountersign(p)
  PROVE  TypeOK'
<1>1. PICK v \in op[p].bound :
        /\ signed' = signed \cup {Signature(ManualRow(v), "countersign")}
        /\ Become(p, [at |-> "upload", v |-> v])
  BY DEF RecordCountersign
<1>2. v \in Versions
  BY OpShape DEF RecordCountersign, TypeOK, Verbs, Deciding
<1>3. [at |-> "upload", v |-> v] \in Ops
  BY <1>2 DEF OnOne, Ops
<1>4. op' \in [Procs -> Ops]
  BY <1>1, <1>3, BecomeTyped DEF TypeOK
<1>5. Signature(ManualRow(v), "countersign") \in
        [version : Versions, link : Links \cup {None}, role : {"client", "countersign"}]
  BY <1>2 DEF Signature, ManualRow
<1>6. DatabaseOK'
  BY <1>1, <1>5 DEF RecordCountersign, TypeOK, DatabaseOK
<1> QED
  BY <1>4, <1>6, KeptTyped, TroublesTyped DEF TypeOK, RecordCountersign

LEMMA UploadRecordTyped ==
  ASSUME TypeOK, NEW p \in Procs, UploadRecord(p)
  PROVE  TypeOK'
<1>1. op[p].v \in Versions
  BY OpShape DEF UploadRecord, TypeOK, OnOne
<1>2. op' \in [Procs -> Ops]
  BY LoadingTyped, BecomeTyped DEF UploadRecord, TypeOK
<1>3. PublicOK'
  BY <1>1 DEF UploadRecord, TypeOK, PublicOK
<1>4. TroublesOK'
  BY TroublesTyped DEF UploadRecord, TypeOK
<1> QED
  BY <1>2, <1>3, <1>4, KeptTyped DEF TypeOK, UploadRecord

LEMMA RegenerateRecordTyped ==
  ASSUME TypeOK, NEW p \in Procs, RegenerateRecord(p)
  PROVE  TypeOK'
<1>1. \A v \in sent : [at |-> "upload", v |-> v] \in Ops
  BY DEF TypeOK, DatabaseOK, OnOne, Ops
<1>2. op' \in [Procs -> Ops]
  BY <1>1, BecomeTyped DEF RegenerateRecord, TypeOK
<1> QED
  BY <1>2, KeptTyped, TroublesTyped DEF TypeOK, RegenerateRecord

LEMMA AddVersionTyped ==
  ASSUME TypeOK, NEW p \in Procs, AddVersion(p)
  PROVE  TypeOK'
<1>1. op[p].bound \subseteq Versions
  BY OpShape DEF AddVersion, TypeOK, Verbs, Deciding
<1>2. \A v \in op[p].bound : Closing(v, "revising", "idle") \in Ops
  BY <1>1, ClosingTyped DEF Shows, After
<1>3. op' \in [Procs -> Ops]
  BY <1>2, BecomeTyped DEF AddVersion, TypeOK
<1>4. latest' \in Versions
  BY BoundsAssumption DEF AddVersion, TypeOK, DatabaseOK, Versions
<1>5. DatabaseOK'
  BY <1>4 DEF AddVersion, TypeOK, DatabaseOK
<1> QED
  BY <1>3, <1>5, KeptTyped, TroublesTyped DEF TypeOK, AddVersion

LEMMA RecordWithdrawalTyped ==
  ASSUME TypeOK, NEW p \in Procs, RecordWithdrawal(p)
  PROVE  TypeOK'
<1>1. op[p].torn \subseteq Versions
  BY OpShape DEF RecordWithdrawal, TypeOK, Verbs, Deciding
<1>2. [at |-> "teardown", torn |-> op[p].torn] \in Ops
  BY <1>1 DEF Tearing, Ops
<1>3. op' \in [Procs -> Ops]
  BY <1>2, BecomeTyped DEF RecordWithdrawal, TypeOK
<1>4. DatabaseOK'
  BY DEF RecordWithdrawal, TypeOK, DatabaseOK
<1> QED
  BY <1>3, <1>4, KeptTyped, TroublesTyped DEF TypeOK, RecordWithdrawal

LEMMA TearDownTyped ==
  ASSUME TypeOK, NEW p \in Procs, TearDown(p)
  PROVE  TypeOK'
<1>1. op[p].torn \subseteq Versions
  BY OpShape DEF TearDown, TypeOK, Tearing
<1>2. /\ Idle \in Ops
      /\ \A v \in op[p].torn :
           /\ Closing(v, "withdrawn", "idle") \in Ops
           /\ [at |-> "teardown", torn |-> op[p].torn \ {v}] \in Ops
  BY <1>1, ClosingTyped DEF Shows, After, Tearing, Ops
<1>3. op' \in [Procs -> Ops]
  BY <1>2, BecomeTyped DEF TearDown, TypeOK
<1>4. PublicOK'
  BY DEF TearDown, TypeOK, PublicOK, Shows
<1>5. TroublesOK'
  BY TroublesTyped DEF TearDown, TypeOK
<1> QED
  BY <1>3, <1>4, <1>5, KeptTyped DEF TypeOK, TearDown

-----------------------------------------------------------------------------
(* Syncing *)

LEMMA StartSyncTyped ==
  ASSUME TypeOK, NEW p \in Procs, StartSync(p)
  PROVE  TypeOK'
<1>1. op' \in [Procs -> Ops]
  BY BecomeTyped DEF StartSync, TypeOK, Syncing, Ops
<1> QED
  BY <1>1, KeptTyped, TroublesTyped DEF TypeOK, StartSync

LEMMA LoadSyncTyped ==
  ASSUME TypeOK, NEW p \in Procs, LoadSync(p)
  PROVE  TypeOK'
<1>1. \A v \in sent : [at |-> "fetch", v |-> v, was |-> Status,
                       left |-> Live(v) \ Answered(v), got |-> {}] \in Ops
  BY StatusTyped DEF TypeOK, DatabaseOK, Live, Pulling, Ops
<1>2. op' \in [Procs -> Ops]
  BY <1>1, BecomeTyped DEF LoadSync, TypeOK
<1> QED
  BY <1>2, KeptTyped, TroublesTyped DEF TypeOK, LoadSync

LEMMA FetchAnswerTyped ==
  ASSUME TypeOK, NEW p \in Procs, FetchAnswer(p)
  PROVE  TypeOK'
<1>1. op[p] \in Pulling
  BY OpShape DEF FetchAnswer, TypeOK
<1>2. [op[p] EXCEPT !.at = "pull"] \in Pulling
  BY <1>1 DEF Pulling
<1>3. ASSUME NEW l \in op[p].left
      PROVE  [op[p] EXCEPT !.left = @ \ {l},
                           !.got = IF answers[l] = None THEN @ ELSE @ \cup {l}] \in Pulling
  BY <1>1 DEF Pulling
<1>4. op' \in [Procs -> Ops]
  BY <1>2, <1>3, BecomeTyped DEF FetchAnswer, TypeOK, Move, Ops
<1>5. TroublesOK'
  BY TroublesTyped DEF FetchAnswer, TypeOK
<1> QED
  BY <1>4, <1>5, KeptTyped DEF TypeOK, FetchAnswer

LEMMA RecordOnlineResponseTyped ==
  ASSUME TypeOK, NEW p \in Procs, RecordOnlineResponse(p)
  PROVE  TypeOK'
<1>1. op[p] \in Pulling
  BY OpShape DEF RecordOnlineResponse, TypeOK
<1>2. PICK l \in op[p].got :
        /\ op' = [op EXCEPT ![p].got = @ \ {l}]
        /\ LET row == [version |-> op[p].v, link |-> l]
           IN  /\ signed' \in {signed, signed \cup {Signature(row, "client")}}
               /\ changes' \in {changes, changes \cup {row}}
  BY DEF RecordOnlineResponse
<1>3. [op[p] EXCEPT !.got = @ \ {l}] \in Pulling
  BY <1>1 DEF Pulling
<1>4. op' \in [Procs -> Ops]
  BY <1>2, <1>3 DEF TypeOK, Ops
<1> DEFINE row == [version |-> op[p].v, link |-> l]
<1>5. op[p].v \in Versions /\ l \in Links
  BY <1>1 DEF Pulling
<1>6. row \in Row /\ Signature(row, "client") \in
        [version : Versions, link : Links \cup {None}, role : {"client", "countersign"}]
  BY <1>5 DEF Signature, Row
<1>7. DatabaseOK'
  BY <1>2, <1>6 DEF RecordOnlineResponse, TypeOK, DatabaseOK
<1> QED
  BY <1>4, <1>7, KeptTyped, TroublesTyped DEF TypeOK, RecordOnlineResponse

LEMMA FinishSyncTyped ==
  ASSUME TypeOK, NEW p \in Procs, FinishSync(p)
  PROVE  TypeOK'
<1>1. op' \in [Procs -> Ops]
  BY LoadingTyped, BecomeTyped DEF FinishSync, TypeOK, Ops
<1> QED
  BY <1>1, KeptTyped, TroublesTyped DEF TypeOK, FinishSync

LEMMA CrashTyped ==
  ASSUME TypeOK, NEW p \in Procs, Crash(p)
  PROVE  TypeOK'
<1>1. op' \in [Procs -> Ops]
  BY BecomeTyped DEF Crash, TypeOK, Ops
<1>2. crashes' \in 0..MaxCrashes
  BY BoundsAssumption DEF Crash, TypeOK, TroublesOK
<1>3. TroublesOK'
  BY <1>2 DEF Crash, TypeOK, TroublesOK
<1> QED
  BY <1>1, <1>3, KeptTyped DEF TypeOK, Crash

-----------------------------------------------------------------------------
(* The Worker *)

\* The step a request is at says what it holds.
LEMMA RequestShape ==
  ASSUME NEW r \in Requests, r.at \in {"closed", "store", "mark"}
  PROVE  r \in [at : {"closed", "store", "mark"}, link : Links,
                action : Answers, stamp : 0..MaxAnswers]
BY DEF Requests, Idle

LEMMA ReadManifestTyped ==
  ASSUME TypeOK, NEW b \in Browsers, NEW l \in Links, NEW action \in Answers,
         ReadManifest(b, l, action)
  PROVE  TypeOK'
<1>1. [at |-> "closed", link |-> l, action |-> action, stamp |-> 0] \in Requests
  BY BoundsAssumption DEF Requests
<1>2. WorkerOK'
  BY <1>1 DEF ReadManifest, Serve, TypeOK, WorkerOK
<1> QED
  BY <1>2, KeptTyped, TroublesTyped DEF TypeOK, ReadManifest

LEMMA ReadClosedTyped ==
  ASSUME TypeOK, NEW b \in Browsers, ReadClosed(b)
  PROVE  TypeOK'
<1>1. req[b] \in [at : {"closed", "store", "mark"}, link : Links,
                  action : Answers, stamp : 0..MaxAnswers]
  BY RequestShape DEF ReadClosed, TypeOK, WorkerOK
<1>2. [req[b] EXCEPT !.at = "store", !.stamp = clock] \in Requests
  BY <1>1 DEF Requests, TypeOK, WorkerOK
<1>3. req' \in [Browsers -> Requests]
  BY <1>2 DEF ReadClosed, Serve, TypeOK, WorkerOK, Requests
<1>4. clock' \in 0..MaxAnswers
  BY BoundsAssumption DEF ReadClosed, TypeOK, WorkerOK
<1> QED
  BY <1>3, <1>4, KeptTyped, TroublesTyped DEF TypeOK, ReadClosed, WorkerOK

LEMMA StoreAnswerTyped ==
  ASSUME TypeOK, NEW b \in Browsers, StoreAnswer(b)
  PROVE  TypeOK'
<1>1. req[b] \in [at : {"closed", "store", "mark"}, link : Links,
                  action : Answers, stamp : 0..MaxAnswers]
  BY RequestShape DEF StoreAnswer, TypeOK, WorkerOK
<1>2. [req[b] EXCEPT !.at = "mark"] \in Requests
  BY <1>1 DEF Requests
<1>3. WorkerOK'
  BY <1>2 DEF StoreAnswer, Serve, TypeOK, WorkerOK, Requests
<1>4. PrivateOK'
  BY <1>1 DEF StoreAnswer, TypeOK, PrivateOK
<1> QED
  BY <1>3, <1>4, KeptTyped, TroublesTyped DEF TypeOK, StoreAnswer

LEMMA MarkClosedTyped ==
  ASSUME TypeOK, NEW b \in Browsers, MarkClosed(b)
  PROVE  TypeOK'
<1> DEFINE v == versionOf[req[b].link[1]]
<1>1. req[b].action \in Answers
  BY RequestShape DEF MarkClosed, TypeOK, WorkerOK
<1>2. WorkerOK'
  BY DEF MarkClosed, Serve, TypeOK, WorkerOK, Requests
<1>3. closed' = closed \/ closed' = [closed EXCEPT ![v] = IF @ = None THEN req[b].action ELSE @]
  BY DEF MarkClosed
<1>4. PrivateOK'
  BY <1>1, <1>3 DEF MarkClosed, TypeOK, PrivateOK
<1>5. TroublesOK'
  BY TroublesTyped DEF MarkClosed, TypeOK
<1> QED
  BY <1>2, <1>4, <1>5, KeptTyped DEF TypeOK, MarkClosed

-----------------------------------------------------------------------------
LEMMA InitTyped == ASSUME Init PROVE TypeOK
<1>1. DatabaseOK
  <2>1. latest \in Versions /\ recips \in [Versions -> Attempts \cup {None}]
    BY BoundsAssumption DEF Init, Versions
  <2>2. declined \in BOOLEAN /\ withdrawn \in BOOLEAN
    BY DEF Init
  <2> QED
    BY <2>1, <2>2 DEF Init, DatabaseOK
<1>2. PrivateOK
  BY DEF Init, PrivateOK
<1>3. PublicOK
  BY DEF Init, PublicOK
<1>4. HistoryOK
  BY DEF Init, HistoryOK
<1>5. WorkerOK
  BY BoundsAssumption DEF Init, WorkerOK, Requests
<1>6. TroublesOK
  <2>1. leftover \in BOOLEAN
    BY DEF Init
  <2> QED
    BY <2>1, BoundsAssumption DEF Init, TroublesOK
<1>7. op \in [Procs -> Ops]
  BY DEF Init, Ops
<1> QED
  BY <1>1, <1>2, <1>3, <1>4, <1>5, <1>6, <1>7 DEF TypeOK

LEMMA NextTyped == ASSUME TypeOK, [Next]_vars PROVE TypeOK'
<1>1. CASE UNCHANGED vars
  BY <1>1, KeptTyped, TroublesTyped DEF vars, TypeOK
<1>2. ASSUME NEW p \in Procs, Continue(p) PROVE TypeOK'
  BY <1>2, EnsureLatestUnsentTyped, FreezeRecipientsTyped, PublishPagesTyped,
     OpenManifestTyped, EmailLinkTyped, SendFailsTyped, MarkSentTyped, UnfreezeTyped,
     UnopenManifestTyped, SupersedeTyped, RepublishLoadTyped, CloseManifestTyped,
     RewritePagesTyped, RecordAcceptTyped, RecordChangeRequestTyped, RecordDeclineTyped,
     RecordCountersignTyped, UploadRecordTyped, AddVersionTyped, RecordWithdrawalTyped,
     TearDownTyped, LoadSyncTyped, FetchAnswerTyped, RecordOnlineResponseTyped,
     FinishSyncTyped
     DEF Continue
<1>3. ASSUME NEW b \in Browsers, Respond(b) PROVE TypeOK'
  BY <1>3, ReadClosedTyped, StoreAnswerTyped, MarkClosedTyped DEF Respond
<1>4. CASE Next
  BY <1>2, <1>3, <1>4, StartSendTyped, StartSyncTyped, RegenerateRecordTyped,
     StartVerbTyped, CrashTyped, ReadManifestTyped
     DEF Next
<1> QED
  BY <1>1, <1>4

\* The rows, the objects and every command's own copies have their types in
\* every reachable state, whatever interleaves, fails or is killed.
THEOREM TypeCorrect == Spec => []TypeOK
<1>1. Init => TypeOK
  BY InitTyped
<1>2. TypeOK /\ [Next]_vars => TypeOK'
  BY NextTyped
<1> QED
  BY <1>1, <1>2, PTL DEF Spec

-----------------------------------------------------------------------------
(* One online response per version.  OneOnlineResponse is not inductive:   *)
(* that a response finds nothing on its version follows from the status    *)
(* only if the version it is bound to is the latest one, which needs that  *)
(* no version is sent, nor on its way, that was not filed.                 *)

Behind ==
  /\ \A v \in sent : v <= latest
  /\ \A p \in Procs : op[p].at \in SendSteps => op[p].v <= latest

\* OneOnlineResponse, over the rows.
Single(S, C) ==
  /\ \A s, t \in S : (s.version = t.version /\ s.link # None /\ t.link # None) => s.link = t.link
  /\ \A c, d \in C : (c.version = d.version /\ c.link # None /\ d.link # None) => c.link = d.link
  /\ \A s \in S, c \in C : ~(s.version = c.version /\ s.link # None /\ c.link # None)

\* No command starts or takes over a send.
NoNewSend ==
  \A q \in Procs :
    op'[q].at \in SendSteps => op[q].at \in SendSteps /\ op'[q].v = op[q].v

LEMMA BecomeNoSend ==
  ASSUME op \in [Procs -> Ops], NEW p \in Procs, NEW o, o.at \notin SendSteps, Become(p, o)
  PROVE  NoNewSend
BY DEF NoNewSend, Become

LEMMA MoveNoSend ==
  ASSUME op \in [Procs -> Ops], NEW p \in Procs, op[p].at \in SendSteps, NEW at, Move(p, at)
  PROVE  NoNewSend
<1>1. op[p] \in Sending
  BY OpShape
<1>2. [op[p] EXCEPT !.at = at].v = op[p].v
  BY <1>1 DEF Sending, SendState
<1> QED
  BY <1>2 DEF NoNewSend, Move

LEMMA AfterClosingNoSend ==
  ASSUME NEW o PROVE AfterClosing(o).at \notin SendSteps
BY DEF AfterClosing, Idle, SendSteps

\* Every step of a send but its start and its last goes on with its version.
LEMMA SendNoSend ==
  ASSUME TypeOK, NEW p \in Procs,
         \/ EnsureLatestUnsent(p) \/ FreezeRecipients(p) \/ PublishPages(p)
         \/ OpenManifest(p) \/ EmailLink(p) \/ SendFails(p)
         \/ Unfreeze(p) \/ UnopenManifest(p) \/ Supersede(p)
  PROVE  NoNewSend
<1> op \in [Procs -> Ops]
  BY DEF TypeOK
<1>1. CASE EnsureLatestUnsent(p)
  BY <1>1, MoveNoSend DEF EnsureLatestUnsent, Ensured, SendSteps
<1>2. CASE FreezeRecipients(p) \/ Unfreeze(p)
  BY <1>2, MoveNoSend DEF FreezeRecipients, Unfreeze, SendSteps
<1>3. CASE PublishPages(p)
  <2>1. op[p] \in Sending /\ op[p].at \in SendSteps
    BY <1>3, OpShape DEF PublishPages, SendSteps
  <2>2. [op[p] EXCEPT !.to = recips[op[p].v], !.at = "manifest"].v = op[p].v
    BY <2>1 DEF Sending, SendState
  <2> QED
    BY <1>3, <2>1, <2>2, MoveNoSend DEF PublishPages, NoNewSend
<1>4. CASE OpenManifest(p)
  <2>1. op[p] \in Sending /\ op[p].at \in SendSteps
    BY <1>4, OpShape DEF OpenManifest, SendSteps
  <2>2. [op[p] EXCEPT !.opened = TRUE, !.at = "email",
                      !.left = IF op[p].to = None THEN {} ELSE Roles].v = op[p].v
    BY <2>1 DEF Sending, SendState
  <2> QED
    BY <1>4, <2>1, <2>2 DEF OpenManifest, NoNewSend
<1>5. CASE EmailLink(p)
  <2>1. op[p] \in Sending /\ op[p].at \in SendSteps
    BY <1>5, OpShape DEF EmailLink, SendSteps
  <2>2. ASSUME NEW r \in op[p].left, op' = [op EXCEPT ![p].left = @ \ {r}]
        PROVE  NoNewSend
    <3>1. [op[p] EXCEPT !.left = @ \ {r}].v = op[p].v
      BY <2>1 DEF Sending, SendState
    <3> QED
      BY <2>1, <2>2, <3>1 DEF NoNewSend
  <2> QED
    BY <1>5, <2>1, <2>2, MoveNoSend DEF EmailLink
<1>6. CASE SendFails(p)
  BY <1>6, MoveNoSend DEF SendFails, SendSteps
<1>7. CASE UnopenManifest(p) \/ Supersede(p)
  <2>1. Idle.at \notin SendSteps
    BY DEF Idle, SendSteps
  <2> QED
    BY <1>7, <2>1, BecomeNoSend DEF UnopenManifest, Supersede
<1> QED
  BY <1>1, <1>2, <1>3, <1>4, <1>5, <1>6, <1>7, Zenon

\* No other command becomes a send.
LEMMA OtherNoSend ==
  ASSUME TypeOK, NEW p \in Procs,
         \/ RepublishLoad(p) \/ CloseManifest(p) \/ RewritePages(p)
         \/ \E verb \in Verbs : StartVerb(p, verb)
         \/ RecordAccept(p) \/ RecordChangeRequest(p) \/ RecordDecline(p)
         \/ RecordCountersign(p) \/ UploadRecord(p) \/ RegenerateRecord(p)
         \/ AddVersion(p) \/ RecordWithdrawal(p) \/ TearDown(p)
         \/ StartSync(p) \/ LoadSync(p) \/ FinishSync(p) \/ Crash(p) \/ MarkSent(p)
  PROVE  NoNewSend
<1> op \in [Procs -> Ops]
  BY DEF TypeOK
<1>1. Idle.at \notin SendSteps
  BY DEF Idle, SendSteps
<1>2. \A v, show, next : Closing(v, show, next).at \notin SendSteps
  BY DEF Closing, SendSteps
<1>3. \A linked : Loading(linked).at \notin SendSteps
  BY DEF Loading, SendSteps
<1>4. CASE RepublishLoad(p)
  <2>1. PICK v \in sent :
          LET show == PageState(v, op[p].linked)
          IN  Become(p, IF show = None THEN Idle ELSE Closing(v, show, "supersede"))
    BY <1>4 DEF RepublishLoad
  <2> QED
    BY <2>1, <1>1, <1>2, BecomeNoSend
<1>5. CASE CloseManifest(p) \/ RewritePages(p)
  <2>1. \A v, to, show, next :
          [at |-> "rewrite", v |-> v, to |-> to, show |-> show, next |-> next].at \notin SendSteps
    BY DEF SendSteps
  <2> QED
    BY <1>5, <2>1, AfterClosingNoSend, BecomeNoSend DEF CloseManifest, RewritePages
<1>6. ASSUME NEW verb \in Verbs, StartVerb(p, verb) PROVE NoNewSend
  <2>1. [at |-> verb, bound |-> {v \in sent : IsLatestSent(v)}, torn |-> sent].at \notin SendSteps
    BY DEF Verbs, SendSteps
  <2> QED
    BY <1>6, <2>1, BecomeNoSend DEF StartVerb
<1>7. CASE RecordAccept(p) \/ RecordChangeRequest(p) \/ RecordDecline(p) \/ UploadRecord(p)
  BY <1>7, <1>3, BecomeNoSend
     DEF RecordAccept, RecordChangeRequest, RecordDecline, UploadRecord
<1>8. CASE RecordCountersign(p) \/ RegenerateRecord(p) \/ MarkSent(p)
  <2>1. \A v : /\ [at |-> "upload", v |-> v].at \notin SendSteps
               /\ [at |-> "supersede", v |-> v].at \notin SendSteps
    BY DEF SendSteps
  <2> QED
    BY <1>8, <2>1, BecomeNoSend DEF RecordCountersign, RegenerateRecord, MarkSent
<1>9. CASE AddVersion(p)
  BY <1>9, <1>2, BecomeNoSend DEF AddVersion
<1>10. CASE RecordWithdrawal(p) \/ TearDown(p)
  <2>1. \A torn : [at |-> "teardown", torn |-> torn].at \notin SendSteps
    BY DEF SendSteps
  <2> QED
    BY <1>10, <2>1, <1>1, <1>2, BecomeNoSend DEF RecordWithdrawal, TearDown
<1>11. CASE StartSync(p) \/ LoadSync(p)
  <2>1. /\ [at |-> "sync"].at \notin SendSteps
        /\ \A v, was, left, got :
             [at |-> "fetch", v |-> v, was |-> was, left |-> left, got |-> got].at \notin SendSteps
    BY DEF SendSteps
  <2> QED
    BY <1>11, <2>1, BecomeNoSend DEF StartSync, LoadSync
<1>12. CASE FinishSync(p) \/ Crash(p)
  BY <1>12, <1>1, <1>3, BecomeNoSend DEF FinishSync, Crash
<1> QED
  BY <1>4, <1>5, <1>6, <1>7, <1>8, <1>9, <1>10, <1>11, <1>12, Zenon

\* A sync that pulls its answers does not become a send either.
LEMMA PullNoSend ==
  ASSUME TypeOK, NEW p \in Procs, FetchAnswer(p) \/ RecordOnlineResponse(p)
  PROVE  NoNewSend
<1>1. op \in [Procs -> Ops] /\ op[p] \in Pulling /\ op[p].at \in {"fetch", "pull"}
  BY OpShape DEF TypeOK, FetchAnswer, RecordOnlineResponse
<1>2. op'[p].at \in {"idle", "fetch", "pull"} /\ \A q \in Procs \ {p} : op'[q] = op[q]
  <2>1. CASE FetchAnswer(p)
    <3>1. CASE Move(p, "pull") \/ Become(p, Idle)
      BY <1>1, <3>1 DEF Move, Become, Idle, Pulling
    <3>2. ASSUME NEW l \in op[p].left,
                 op' = [op EXCEPT ![p].left = @ \ {l},
                                  ![p].got = IF answers[l] = None THEN @ ELSE @ \cup {l}]
          PROVE  op'[p].at = op[p].at /\ \A q \in Procs \ {p} : op'[q] = op[q]
      BY <1>1, <3>2 DEF Pulling
    <3> QED
      BY <1>1, <2>1, <3>1, <3>2 DEF FetchAnswer
  <2>2. CASE RecordOnlineResponse(p)
    BY <1>1, <2>2 DEF RecordOnlineResponse, Pulling
  <2> QED
    BY <2>1, <2>2
<1> QED
  BY <1>2 DEF NoNewSend, SendSteps

\* Filing a version, and any command that starts no send, leave nothing ahead.
LEMMA BehindKept ==
  ASSUME TypeOK, Behind, NoNewSend, sent' = sent, latest' = latest \/ latest' = latest + 1
  PROVE  Behind'
<1>1. sent \subseteq Nat /\ latest \in Nat
  BY DEF TypeOK, DatabaseOK, Versions
<1>2. \A q \in Procs : op[q].at \in SendSteps => op[q].v \in Nat
  BY OpShape DEF TypeOK, Sending, SendState, Versions
<1> QED
  BY <1>1, <1>2 DEF Behind, NoNewSend

LEMMA BehindStep == ASSUME TypeOK, Behind, [Next]_vars PROVE Behind'
<1>1. CASE UNCHANGED vars
  BY <1>1 DEF vars, database, Behind
<1>2. ASSUME NEW p \in Procs, StartSend(p) PROVE Behind'
  <2>1. PICK a \in Attempts :
          Become(p, [at |-> "freeze", v |-> latest, a |-> a, to |-> None,
                     opened |-> FALSE, left |-> Roles])
    BY <1>2 DEF StartSend
  <2>2. latest \in Nat /\ latest' = latest /\ sent' = sent
    BY <1>2 DEF StartSend, database, TypeOK, DatabaseOK, Versions
  <2> QED
    BY <2>1, <2>2 DEF Behind, Become, TypeOK
<1>3. ASSUME NEW p \in Procs, MarkSent(p) PROVE Behind'
  <2>1. op[p].v <= latest
    BY <1>3 DEF MarkSent, Behind, SendSteps
  <2>2. NoNewSend /\ latest' = latest /\ sent' = sent \cup {op[p].v}
    BY <1>3, OtherNoSend DEF MarkSent
  <2> QED
    BY <2>1, <2>2 DEF Behind, NoNewSend
<1>4. ASSUME NEW p \in Procs, Continue(p), ~MarkSent(p) PROVE Behind'
  <2>1. NoNewSend
    BY <1>4, SendNoSend, OtherNoSend, PullNoSend DEF Continue
  <2>2. sent' = sent /\ (latest' = latest \/ latest' = latest + 1)
    BY <1>4 DEF Continue, database, EnsureLatestUnsent, FreezeRecipients, PublishPages,
       OpenManifest, EmailLink, SendFails, Unfreeze, UnopenManifest, Supersede,
       RepublishLoad, CloseManifest, RewritePages, RecordAccept, RecordChangeRequest,
       RecordDecline, RecordCountersign, UploadRecord, AddVersion, RecordWithdrawal,
       TearDown, LoadSync, FetchAnswer, RecordOnlineResponse, FinishSync
  <2> QED
    BY <2>1, <2>2, BehindKept
<1>5. ASSUME NEW p \in Procs,
             \/ StartSync(p) \/ RegenerateRecord(p) \/ Crash(p)
             \/ \E verb \in Verbs : StartVerb(p, verb)
      PROVE  Behind'
  <2>1. NoNewSend
    BY <1>5, OtherNoSend
  <2>2. UNCHANGED database
    BY <1>5 DEF StartSync, RegenerateRecord, Crash, StartVerb
  <2> QED
    BY <2>1, <2>2, BehindKept DEF database
<1>6. ASSUME NEW b \in Browsers,
             \/ Respond(b)
             \/ \E l \in Links, action \in Answers : ReadManifest(b, l, action)
      PROVE  Behind'
  <2>1. UNCHANGED <<database, op>>
    BY <1>6 DEF Respond, ReadManifest, ReadClosed, StoreAnswer, MarkClosed
  <2> QED
    BY <2>1 DEF database, Behind
<1> QED
  BY <1>1, <1>2, <1>3, <1>4, <1>5, <1>6 DEF Next

-----------------------------------------------------------------------------
\* A row an operator records by hand stands beside any response.
LEMMA SingleManual ==
  ASSUME NEW S, NEW C, Single(S, C), NEW v
  PROVE  /\ Single(S, C \cup {ManualRow(v)})
         /\ \A role : Single(S \cup {Signature(ManualRow(v), role)}, C)
<1>1. ManualRow(v).link = None /\ \A role : Signature(ManualRow(v), role).link = None
  BY DEF ManualRow, Signature
<1> QED
  BY <1>1 DEF Single

\* A response is recorded only on the latest version, and only when that
\* version has no row at all.
LEMMA RecordsOnFresh ==
  ASSUME TypeOK, Behind, NEW v \in Versions, NEW l, Records(v, l)
  PROVE  /\ \A s \in signed : s.version # v
         /\ \A c \in changes : c.version # v
<1>1. Status = "sent" /\ IsLatestSent(v)
  BY DEF Records
<1>2. /\ latest \in sent
      /\ ~\E s \in signed : s.role = "countersign"
      /\ ~ClientSigned(latest)
      /\ ~\E c \in changes : c.version = latest
  BY <1>1 DEF Status
<1>3. v = latest
  BY <1>1, <1>2 DEF IsLatestSent, Behind, TypeOK, DatabaseOK, Versions
<1>4. \A s \in signed : s.role \in {"client", "countersign"}
  BY DEF TypeOK, DatabaseOK
<1> QED
  BY <1>2, <1>3, <1>4 DEF ClientSigned

LEMMA SingleOnline ==
  ASSUME TypeOK, Behind, Single(signed, changes), NEW p \in Procs, RecordOnlineResponse(p)
  PROVE  Single(signed, changes)'
<1>1. op[p].v \in Versions
  BY OpShape DEF RecordOnlineResponse, TypeOK, Pulling
<1>2. PICK l \in op[p].got :
        LET row == [version |-> op[p].v, link |-> l]
        IN  \/ /\ Records(op[p].v, l)
               /\ \/ /\ signed' = signed \cup {Signature(row, "client")}
                     /\ changes' = changes
                  \/ /\ changes' = changes \cup {row}
                     /\ signed' = signed
            \/ UNCHANGED <<signed, changes>>
  BY DEF RecordOnlineResponse
<1> DEFINE row == [version |-> op[p].v, link |-> l]
<1>3. CASE UNCHANGED <<signed, changes>>
  BY <1>3 DEF Single
<1>4. CASE Records(op[p].v, l) /\ signed' = signed \cup {Signature(row, "client")}
           /\ changes' = changes
  <2>1. Signature(row, "client").version = op[p].v
    BY DEF Signature
  <2> QED
    BY <1>1, <1>4, <2>1, RecordsOnFresh DEF Single
<1>5. CASE Records(op[p].v, l) /\ changes' = changes \cup {row} /\ signed' = signed
  BY <1>1, <1>5, RecordsOnFresh DEF Single
<1> QED
  BY <1>2, <1>3, <1>4, <1>5

LEMMA SingleStep ==
  ASSUME TypeOK, Behind, Single(signed, changes), [Next]_vars
  PROVE  Single(signed, changes)'
<1>1. ASSUME UNCHANGED <<signed, changes>> PROVE Single(signed, changes)'
  BY <1>1 DEF Single
<1>2. ASSUME NEW p \in Procs,
             RecordAccept(p) \/ RecordChangeRequest(p) \/ RecordCountersign(p)
      PROVE  Single(signed, changes)'
  <2>1. CASE RecordAccept(p)
    <3>1. PICK v : signed' = signed \cup {Signature(ManualRow(v), "client")}
      BY <2>1 DEF RecordAccept
    <3> QED
      BY <2>1, <3>1, SingleManual DEF RecordAccept
  <2>2. CASE RecordChangeRequest(p)
    <3>1. PICK v : changes' = changes \cup {ManualRow(v)}
      BY <2>2 DEF RecordChangeRequest
    <3> QED
      BY <2>2, <3>1, SingleManual DEF RecordChangeRequest
  <2>3. CASE RecordCountersign(p)
    <3>1. PICK v : signed' = signed \cup {Signature(ManualRow(v), "countersign")}
      BY <2>3 DEF RecordCountersign
    <3> QED
      BY <2>3, <3>1, SingleManual DEF RecordCountersign
  <2> QED
    BY <1>2, <2>1, <2>2, <2>3
<1>3. ASSUME NEW p \in Procs, Continue(p), ~RecordAccept(p), ~RecordChangeRequest(p),
             ~RecordCountersign(p), ~RecordOnlineResponse(p)
      PROVE  UNCHANGED <<signed, changes>>
  BY <1>3 DEF Continue, database, EnsureLatestUnsent, FreezeRecipients, PublishPages,
     OpenManifest, EmailLink, SendFails, MarkSent, Unfreeze, UnopenManifest, Supersede,
     RepublishLoad, CloseManifest, RewritePages, RecordDecline, UploadRecord,
     AddVersion, RecordWithdrawal, TearDown, LoadSync, FetchAnswer, FinishSync
<1>4. ASSUME NEW p \in Procs, Continue(p) PROVE Single(signed, changes)'
  BY <1>1, <1>2, <1>3, <1>4, SingleOnline
<1>5. ASSUME NEW p \in Procs,
             \/ StartSend(p) \/ StartSync(p) \/ RegenerateRecord(p) \/ Crash(p)
             \/ \E verb \in Verbs : StartVerb(p, verb)
      PROVE  UNCHANGED <<signed, changes>>
  BY <1>5 DEF database, StartSend, StartSync, RegenerateRecord, Crash, StartVerb
<1>6. ASSUME NEW b \in Browsers,
             \/ Respond(b)
             \/ \E l \in Links, action \in Answers : ReadManifest(b, l, action)
      PROVE  UNCHANGED <<signed, changes>>
  BY <1>6 DEF database, Respond, ReadManifest, ReadClosed, StoreAnswer, MarkClosed
<1>7. CASE UNCHANGED vars
  BY <1>1, <1>7 DEF vars, database
<1> QED
  BY <1>1, <1>4, <1>5, <1>6, <1>7 DEF Next

LEMMA SingleImplies == ASSUME Single(signed, changes) PROVE OneOnlineResponse
<1>1. ASSUME NEW v \in Versions, NEW l \in Answered(v), NEW k \in Answered(v)
      PROVE  l = k
  <2>1. PICK x \in signed \cup changes : x.version = v /\ x.link = l /\ l # None
    BY <1>1 DEF Answered
  <2>2. PICK y \in signed \cup changes : y.version = v /\ y.link = k /\ k # None
    BY <1>1 DEF Answered
  <2> QED
    BY <2>1, <2>2 DEF Single
<1> QED
  BY <1>1 DEF OneOnlineResponse, Single

\* A version takes one online response in every reachable state: with any number
\* of recipients answering at once, of syncs pulling the same answers, and of
\* commands, crashes and failures around them.
THEOREM OneResponse == Spec => []OneOnlineResponse
<1>1. Init => TypeOK /\ Behind /\ Single(signed, changes)
  <2>1. Init => TypeOK
    BY InitTyped
  <2>2. Init => Behind /\ Single(signed, changes)
    BY DEF Init, Behind, Single, Idle, SendSteps
  <2> QED
    BY <2>1, <2>2
<1>2. TypeOK /\ Behind /\ Single(signed, changes) /\ [Next]_vars
        => (TypeOK /\ Behind /\ Single(signed, changes))'
  BY NextTyped, BehindStep, SingleStep
<1>3. Single(signed, changes) => OneOnlineResponse
  BY SingleImplies
<1> QED
  BY <1>1, <1>2, <1>3, PTL DEF Spec

-----------------------------------------------------------------------------
(* A countersignature is bound to the version the client accepted.  A      *)
(* process that decided to countersign may write long after: the version   *)
(* it is bound to was accepted when it looked, and signatures never go.    *)

Bound ==
  \A p \in Procs : op[p].at = "countersign" => \A v \in op[p].bound : ClientSigned(v)

\* Who reads that a document is accepted binds the version that was.
LEMMA DecidesOnAccepted ==
  ASSUME TypeOK, Behind, NEW v \in sent, IsLatestSent(v), Status = "accepted"
  PROVE  ClientSigned(v)
<1>1. latest \in sent /\ ClientSigned(latest)
  BY DEF Status
<1>2. v = latest
  BY <1>1 DEF IsLatestSent, Behind, TypeOK, DatabaseOK, Versions
<1> QED
  BY <1>1, <1>2

\* Signatures stay.
LEMMA SignaturesStay == ASSUME [Next]_vars PROVE signed \subseteq signed'
<1>1. ASSUME NEW p \in Procs, Continue(p) PROVE signed \subseteq signed'
  BY <1>1 DEF Continue, database, EnsureLatestUnsent, FreezeRecipients, PublishPages,
     OpenManifest, EmailLink, SendFails, MarkSent, Unfreeze, UnopenManifest, Supersede,
     RepublishLoad, CloseManifest, RewritePages, RecordAccept, RecordChangeRequest,
     RecordDecline, RecordCountersign, UploadRecord, AddVersion, RecordWithdrawal, TearDown,
     LoadSync, FetchAnswer, RecordOnlineResponse, FinishSync
<1>2. ASSUME NEW p \in Procs,
             \/ StartSend(p) \/ StartSync(p) \/ RegenerateRecord(p) \/ Crash(p)
             \/ \E verb \in Verbs : StartVerb(p, verb)
      PROVE  signed' = signed
  BY <1>2 DEF database, StartSend, StartSync, RegenerateRecord, Crash, StartVerb
<1>3. ASSUME NEW b \in Browsers,
             \/ Respond(b)
             \/ \E l \in Links, action \in Answers : ReadManifest(b, l, action)
      PROVE  signed' = signed
  BY <1>3 DEF database, Respond, ReadManifest, ReadClosed, StoreAnswer, MarkClosed
<1>4. CASE UNCHANGED vars
  BY <1>4 DEF vars, database
<1> QED
  BY <1>1, <1>2, <1>3, <1>4 DEF Next

LEMMA BecomesElse ==
  ASSUME op \in [Procs -> Ops], NEW p \in Procs, NEW o, o.at # "countersign", Become(p, o)
  PROVE  op'[p].at # "countersign"
BY DEF Become

LEMMA MovesElse ==
  ASSUME op \in [Procs -> Ops], NEW p \in Procs, op[p].at \in SendSteps,
         NEW at, at # "countersign", Move(p, at)
  PROVE  op'[p].at # "countersign"
<1>1. op[p] \in Sending
  BY OpShape
<1>2. [op[p] EXCEPT !.at = at].at = at
  BY <1>1 DEF Sending, SendState
<1> QED
  BY <1>2 DEF Move

\* No step of a send, of a sync or of what follows a change is a decision.
LEMMA SendDecidesNothing ==
  ASSUME TypeOK, NEW p \in Procs,
         \/ EnsureLatestUnsent(p) \/ FreezeRecipients(p) \/ PublishPages(p)
         \/ OpenManifest(p) \/ EmailLink(p) \/ SendFails(p)
         \/ Unfreeze(p) \/ UnopenManifest(p) \/ Supersede(p)
  PROVE  op'[p].at # "countersign"
<1> op \in [Procs -> Ops]
  BY DEF TypeOK
<1>1. CASE EnsureLatestUnsent(p)
  BY <1>1, MovesElse DEF EnsureLatestUnsent, Ensured, SendSteps
<1>2. CASE FreezeRecipients(p) \/ Unfreeze(p) \/ SendFails(p)
  BY <1>2, MovesElse DEF FreezeRecipients, Unfreeze, SendFails, SendSteps
<1>3. CASE PublishPages(p)
  <2>1. op[p] \in Sending /\ op[p].at \in SendSteps
    BY <1>3, OpShape DEF PublishPages, SendSteps
  <2>2. [op[p] EXCEPT !.to = recips[op[p].v], !.at = "manifest"].at = "manifest"
    BY <2>1 DEF Sending, SendState
  <2> QED
    BY <1>3, <2>1, <2>2, MovesElse DEF PublishPages
<1>4. CASE OpenManifest(p)
  <2>1. op[p] \in Sending /\ op[p].at \in SendSteps
    BY <1>4, OpShape DEF OpenManifest, SendSteps
  <2>2. [op[p] EXCEPT !.opened = TRUE, !.at = "email",
                      !.left = IF op[p].to = None THEN {} ELSE Roles].at = "email"
    BY <2>1 DEF Sending, SendState
  <2> QED
    BY <1>4, <2>1, <2>2 DEF OpenManifest
<1>5. CASE EmailLink(p)
  <2>1. op[p] \in Sending /\ op[p].at \in SendSteps
    BY <1>5, OpShape DEF EmailLink, SendSteps
  <2>2. ASSUME NEW r \in op[p].left, op' = [op EXCEPT ![p].left = @ \ {r}]
        PROVE  op'[p].at = op[p].at
    <3>1. [op[p] EXCEPT !.left = @ \ {r}].at = op[p].at
      BY <2>1 DEF Sending, SendState
    <3> QED
      BY <2>1, <2>2, <3>1
  <2> QED
    BY <1>5, <2>1, <2>2, MovesElse DEF EmailLink
<1>6. CASE UnopenManifest(p) \/ Supersede(p)
  <2>1. Idle.at # "countersign"
    BY DEF Idle
  <2> QED
    BY <1>6, <2>1, BecomesElse DEF UnopenManifest, Supersede
<1> QED
  BY <1>1, <1>2, <1>3, <1>4, <1>5, <1>6, Zenon

LEMMA OthersDecideNothing ==
  ASSUME TypeOK, NEW p \in Procs,
         \/ RepublishLoad(p) \/ CloseManifest(p) \/ RewritePages(p)
         \/ RecordAccept(p) \/ RecordChangeRequest(p) \/ RecordDecline(p)
         \/ RecordCountersign(p) \/ UploadRecord(p) \/ RegenerateRecord(p)
         \/ AddVersion(p) \/ RecordWithdrawal(p) \/ TearDown(p) \/ StartSend(p)
         \/ StartSync(p) \/ LoadSync(p) \/ FinishSync(p) \/ Crash(p) \/ MarkSent(p)
  PROVE  op'[p].at # "countersign"
<1> op \in [Procs -> Ops]
  BY DEF TypeOK
<1>1. Idle.at # "countersign"
  BY DEF Idle
<1>2. \A v, show, next : Closing(v, show, next).at # "countersign"
  BY DEF Closing
<1>3. \A linked : Loading(linked).at # "countersign"
  BY DEF Loading
<1>4. CASE RepublishLoad(p)
  <2>1. PICK v \in sent :
          LET show == PageState(v, op[p].linked)
          IN  Become(p, IF show = None THEN Idle ELSE Closing(v, show, "supersede"))
    BY <1>4 DEF RepublishLoad
  <2> QED
    BY <2>1, <1>1, <1>2, BecomesElse
<1>5. CASE CloseManifest(p) \/ RewritePages(p)
  <2>1. \A v, to, show, next :
          [at |-> "rewrite", v |-> v, to |-> to, show |-> show, next |-> next].at # "countersign"
    OBVIOUS
  <2>2. \A o : AfterClosing(o).at # "countersign"
    BY DEF AfterClosing, Idle
  <2> QED
    BY <1>5, <2>1, <2>2, BecomesElse DEF CloseManifest, RewritePages
<1>6. CASE RecordAccept(p) \/ RecordChangeRequest(p) \/ RecordDecline(p) \/ UploadRecord(p)
  BY <1>6, <1>3, BecomesElse
     DEF RecordAccept, RecordChangeRequest, RecordDecline, UploadRecord
<1>7. CASE RecordCountersign(p) \/ RegenerateRecord(p) \/ MarkSent(p)
  <2>1. \A v : /\ [at |-> "upload", v |-> v].at # "countersign"
               /\ [at |-> "supersede", v |-> v].at # "countersign"
    OBVIOUS
  <2> QED
    BY <1>7, <2>1, BecomesElse DEF RecordCountersign, RegenerateRecord, MarkSent
<1>8. CASE AddVersion(p)
  BY <1>8, <1>2, BecomesElse DEF AddVersion
<1>9. CASE RecordWithdrawal(p) \/ TearDown(p)
  <2>1. \A torn : [at |-> "teardown", torn |-> torn].at # "countersign"
    OBVIOUS
  <2> QED
    BY <1>9, <2>1, <1>1, <1>2, BecomesElse DEF RecordWithdrawal, TearDown
<1>10. CASE StartSync(p) \/ LoadSync(p)
  <2>1. /\ [at |-> "sync"].at # "countersign"
        /\ \A v, was, left, got :
             [at |-> "fetch", v |-> v, was |-> was, left |-> left, got |-> got].at # "countersign"
    OBVIOUS
  <2> QED
    BY <1>10, <2>1, BecomesElse DEF StartSync, LoadSync
<1>11. CASE StartSend(p)
  <2>1. \A v, a : [at |-> "freeze", v |-> v, a |-> a, to |-> None,
                   opened |-> FALSE, left |-> Roles].at # "countersign"
    OBVIOUS
  <2> QED
    BY <1>11, <2>1, BecomesElse DEF StartSend
<1>12. CASE FinishSync(p) \/ Crash(p)
  BY <1>12, <1>1, <1>3, BecomesElse DEF FinishSync, Crash
<1> QED
  BY <1>4, <1>5, <1>6, <1>7, <1>8, <1>9, <1>10, <1>11, <1>12, Zenon

LEMMA PullDecidesNothing ==
  ASSUME TypeOK, NEW p \in Procs, FetchAnswer(p) \/ RecordOnlineResponse(p)
  PROVE  op'[p].at # "countersign"
<1>1. op[p] \in Pulling /\ op[p].at \in {"fetch", "pull"} /\ op \in [Procs -> Ops]
  BY OpShape DEF TypeOK, FetchAnswer, RecordOnlineResponse
<1>2. CASE FetchAnswer(p)
  <2>1. CASE Move(p, "pull") \/ Become(p, Idle)
    BY <1>1, <2>1 DEF Move, Become, Idle, Pulling
  <2>2. ASSUME NEW l \in op[p].left,
               op' = [op EXCEPT ![p].left = @ \ {l},
                                ![p].got = IF answers[l] = None THEN @ ELSE @ \cup {l}]
        PROVE  op'[p].at = op[p].at
    BY <1>1, <2>2 DEF Pulling
  <2> QED
    BY <1>1, <1>2, <2>1, <2>2 DEF FetchAnswer
<1>3. CASE RecordOnlineResponse(p)
  BY <1>1, <1>3 DEF RecordOnlineResponse, Pulling
<1> QED
  BY <1>2, <1>3

\* Only the guard of the countersignature leads to writing one.
LEMMA OnlyTheGuardDecides ==
  ASSUME TypeOK, Behind, [Next]_vars, NEW q \in Procs, op'[q].at = "countersign"
  PROVE  \/ op[q].at = "countersign" /\ op'[q].bound = op[q].bound
         \/ \A v \in op'[q].bound : ClientSigned(v)
<1>1. ASSUME op'[q] = op[q]
      PROVE  op[q].at = "countersign" /\ op'[q].bound = op[q].bound
  BY <1>1
<1>2. ASSUME NEW p \in Procs, p # q,
             \/ StartSend(p) \/ StartSync(p) \/ RegenerateRecord(p)
             \/ \E verb \in Verbs : StartVerb(p, verb)
             \/ Continue(p)
             \/ Crash(p)
      PROVE  op'[q] = op[q]
  BY <1>2 DEF TypeOK, Continue, Become, Move, EnsureLatestUnsent, FreezeRecipients, PublishPages,
     OpenManifest, EmailLink, SendFails, MarkSent, Unfreeze, UnopenManifest, Supersede,
     RepublishLoad, CloseManifest, RewritePages, RecordAccept, RecordChangeRequest,
     RecordDecline, RecordCountersign, UploadRecord, AddVersion, RecordWithdrawal, TearDown,
     LoadSync, FetchAnswer, RecordOnlineResponse, FinishSync, StartSend, StartSync,
     RegenerateRecord, Crash, StartVerb
<1>3. CASE \E verb \in Verbs : StartVerb(q, verb)
  <2>1. PICK verb \in Verbs : StartVerb(q, verb)
    BY <1>3
  <2>2. op'[q] = [at |-> verb, bound |-> {v \in sent : IsLatestSent(v)}, torn |-> sent]
    BY <2>1 DEF StartVerb, Become, TypeOK
  <2>3. verb = "countersign"
    BY <2>2
  <2>4. Status = "accepted"
    BY <2>1, <2>3 DEF StartVerb, Allowed, AllowedFrom
  <2> QED
    BY <2>2, <2>4, DecidesOnAccepted
<1>4. ASSUME StartSend(q) \/ StartSync(q) \/ RegenerateRecord(q) \/ Crash(q) \/ Continue(q)
      PROVE  FALSE
  BY <1>4, SendDecidesNothing, OthersDecideNothing, PullDecidesNothing DEF Continue
<1>5. ASSUME NEW b \in Browsers,
             \/ Respond(b)
             \/ \E l \in Links, action \in Answers : ReadManifest(b, l, action)
      PROVE  op' = op
  BY <1>5 DEF Respond, ReadManifest, ReadClosed, StoreAnswer, MarkClosed
<1>6. CASE UNCHANGED vars
  BY <1>1, <1>6 DEF vars
<1> QED
  BY <1>1, <1>2, <1>3, <1>4, <1>5, <1>6 DEF Next

\* A new countersignature is for a version it was bound to.
LEMMA CountersignsBound ==
  ASSUME TypeOK, Bound, [Next]_vars, NEW s \in signed', s \notin signed, s.role = "countersign"
  PROVE  ClientSigned(s.version)
<1>1. ASSUME NEW p \in Procs, RecordCountersign(p) PROVE ClientSigned(s.version)
  BY <1>1 DEF RecordCountersign, Signature, ManualRow, Bound
<1>2. ASSUME NEW p \in Procs, RecordAccept(p) PROVE FALSE
  BY <1>2 DEF RecordAccept, Signature
<1>3. ASSUME NEW p \in Procs, RecordOnlineResponse(p) PROVE FALSE
  BY <1>3 DEF RecordOnlineResponse, Signature
<1>4. ASSUME NEW p \in Procs, Continue(p), ~RecordAccept(p), ~RecordCountersign(p), ~RecordOnlineResponse(p)
      PROVE  signed' = signed
  BY <1>4 DEF Continue, database, EnsureLatestUnsent, FreezeRecipients, PublishPages,
     OpenManifest, EmailLink, SendFails, MarkSent, Unfreeze, UnopenManifest, Supersede,
     RepublishLoad, CloseManifest, RewritePages, RecordChangeRequest, RecordDecline, UploadRecord,
     AddVersion, RecordWithdrawal, TearDown, LoadSync, FetchAnswer, FinishSync
<1>5. ASSUME NEW p \in Procs,
             \/ StartSend(p) \/ StartSync(p) \/ RegenerateRecord(p) \/ Crash(p)
             \/ \E verb \in Verbs : StartVerb(p, verb)
      PROVE  signed' = signed
  BY <1>5 DEF database, StartSend, StartSync, RegenerateRecord, Crash, StartVerb
<1>6. ASSUME NEW b \in Browsers,
             \/ Respond(b)
             \/ \E l \in Links, action \in Answers : ReadManifest(b, l, action)
      PROVE  signed' = signed
  BY <1>6 DEF database, Respond, ReadManifest, ReadClosed, StoreAnswer, MarkClosed
<1>7. signed' # signed
  OBVIOUS
<1>8. ~UNCHANGED vars
  BY <1>7 DEF vars, database
<1> QED
  BY <1>1, <1>2, <1>3, <1>4, <1>5, <1>6, <1>7, <1>8 DEF Next

LEMMA BoundStep ==
  ASSUME TypeOK, Behind, Bound, CountersignsTheAccepted, [Next]_vars
  PROVE  Bound' /\ CountersignsTheAccepted'
<1>1. \A v : ClientSigned(v) => ClientSigned(v)'
  BY SignaturesStay DEF ClientSigned
<1>2. Bound'
  BY <1>1, OnlyTheGuardDecides DEF Bound
<1>3. ASSUME NEW v \in Versions, Countersigned(v)' PROVE ClientSigned(v)'
  <2>1. PICK s \in signed' : s.version = v /\ s.role = "countersign"
    BY <1>3 DEF Countersigned
  <2>2. CASE s \in signed
    BY <1>1, <2>1, <2>2 DEF Countersigned, CountersignsTheAccepted
  <2>3. CASE s \notin signed
    BY <1>1, <2>1, <2>3, CountersignsBound
  <2> QED
    BY <2>2, <2>3
<1> QED
  BY <1>2, <1>3 DEF CountersignsTheAccepted

\* A document is executed on a version its client signed, however many
\* processes revise, send and countersign at once (record.rs:206).
THEOREM ExecutedAsAccepted == Spec => []CountersignsTheAccepted
<1>1. Init => TypeOK /\ Behind /\ Bound /\ CountersignsTheAccepted
  <2>1. Init => TypeOK
    BY InitTyped
  <2>2. Init => Behind /\ Bound /\ CountersignsTheAccepted
    BY DEF Init, Behind, Bound, CountersignsTheAccepted, Countersigned, Idle, SendSteps
  <2> QED
    BY <2>1, <2>2
<1>2. TypeOK /\ Behind /\ Bound /\ CountersignsTheAccepted /\ [Next]_vars
        => (TypeOK /\ Behind /\ Bound /\ CountersignsTheAccepted)'
  BY NextTyped, BehindStep, BoundStep
<1> QED
  BY <1>1, <1>2, PTL DEF Spec

-----------------------------------------------------------------------------
(* One process at a time, whatever the browsers do meanwhile *)

\* The commands of one process, one after the other.
Alone == \A p, q \in Procs : p = q

Linked(a) == {a} \X Roles

\* The rows, whatever was cut short: every version but the latest was sent, by
\* the send whose links it still has and that reached everyone; a signature
\* binds the latest version and ends the matter; and what is recorded online
\* came through a link of the send that went through.
Rows ==
  /\ 1..latest - 1 \subseteq sent /\ sent \subseteq 1..latest
  /\ \A v \in Versions : recips[v] # None => versionOf[recips[v]] = v
  /\ \A v \in sent : recips[v] # None /\ sentBy[v] = recips[v] /\ Linked(recips[v]) \subseteq emailed
  /\ \A l \in emailed : versionOf[l[1]] # None
  /\ \A c \in changes : c.version \in sent
  /\ \A s \in signed : s.version = latest /\ latest \in sent /\ ~declined /\ ~withdrawn
  /\ signed # {} => ClientSigned(latest)
  /\ declined => latest \in sent /\ ~withdrawn
  /\ OnlyTheSendCounts

\* A send is for the latest version, still a draft.
Unsent(c) == c.v = latest /\ Status = "draft" /\ versionOf[c.a] = latest

\* The status after something was recorded on the latest version.
Decided == {"accepted", "changes_requested", "declined", "executed"}

\* What the pages of a version are being rewritten to.
Fits(c) ==
  \/ /\ c.next = "supersede" /\ c.v = latest /\ Status \in Decided
     /\ c.show \in Expected(latest) /\ (c.show = "recorded" => latest \in records)
  \/ /\ c.next = "idle" /\ c.show = "revising" /\ Status = "draft"
     /\ c.v = latest - 1 /\ c.v \in sent
  \/ c.next = "idle" /\ c.show = "withdrawn" /\ withdrawn /\ c.v \in sent

\* What a command may rely on at each of its steps, with no other at work.
Doing(c) ==
  /\ c.at \in SendSteps => Unsent(c)
  /\ c.at \in {"publish", "manifest", "email", "record", "recording"} => recips[latest] = c.a
  /\ c.at \in {"manifest", "email", "record", "recording"} => c.to = c.a
  /\ c.at \in {"freeze", "freezing", "publish", "manifest"} =>
        ~c.opened /\ \A r \in Roles : <<c.a, r>> \notin emailed
  /\ c.at = "email" => c.opened /\ \A r \in Roles \ c.left : <<c.a, r>> \in emailed
  /\ c.at \in {"record", "recording"} => c.opened /\ \A r \in Roles : <<c.a, r>> \in emailed
  /\ c.at = "supersede" => c.v = latest /\ Status \in Decided \cup {"sent"}
  /\ c.at = "load" => Status \in Decided /\ (c.linked => latest \in records)
  /\ c.at \in {"close", "rewrite"} => Fits(c)
  /\ c.at = "rewrite" => c.to = recips[c.v]
  /\ c.at \in Verbs => Allowed(c.at) /\ c.bound = {v \in sent : IsLatestSent(v)} /\ c.torn = sent
  /\ c.at = "upload" => c.v = latest /\ Status = "executed"
  /\ c.at = "teardown" => withdrawn /\ c.torn \subseteq sent
  /\ c.at = "sync" => Status \in {"sent", "changes_requested"}
  /\ c.at = "fetch" => c.was = Status
  /\ c.at \in {"fetch", "pull"} =>
        /\ c.v = latest /\ c.was \in {"sent", "changes_requested"}
        /\ Status \in {"sent", "accepted", "changes_requested"}
        /\ c.was = "changes_requested" => Status = "changes_requested"

\* The manifest has still to follow what the command did.
Opening(c) ==
  \/ c.at \in {"load", "close", "upload"}
  \/ c.at = "teardown" /\ c.torn # {}
  \/ c.at = "pull" /\ Status # c.was
  \/ c.at \in SendSteps /\ c.opened

\* So have the pages of a version.
Stale(c, v) ==
  \/ c.at = "supersede" /\ v < c.v
  \/ c.at \in {"load", "upload"} /\ v = latest
  \/ c.at \in {"close", "rewrite"} /\ v = c.v
  \/ c.at = "pull" /\ Status # c.was /\ v = latest
  \/ c.at = "teardown" /\ v \in c.torn

ManifestFits == IF Status = "sent" THEN manifest = Manifest(recips[latest], TRUE) ELSE ~Answerable

\* While nothing was cut short: the manifest and the pages follow the status.
Whole(c) ==
  ~leftover =>
    /\ ~Opening(c) => ManifestFits
    /\ c.at \in {"email", "record", "recording"} => manifest = Manifest(c.a, TRUE)
    /\ c.at \in {"manifest", "email", "record", "recording"} => pages[c.a] = "open"
    /\ \A v \in sent : Stale(c, v) \/ pages[recips[v]] \in Expected(v)

One(c) == Rows /\ LinkedRecordExists /\ Doing(c) /\ Whole(c)

AloneInv == (\A p \in Procs : One(op[p])) /\ (Procs = {} => One(Idle))

\* A step of the one command there is.
LEMMA OneCommand ==
  ASSUME Alone, op \in [Procs -> Ops], NEW p \in Procs, NEW o,
         op' = [op EXCEPT ![p] = o], One(o)'
  PROVE  AloneInv'
<1>1. \A q \in Procs : q = p
  BY DEF Alone
<1>2. \A q \in Procs : op'[q] = o
  BY <1>1
<1> QED
  BY <1>2, Zenon DEF AloneInv

\* What each word of the status says of the rows.
StatusSays(word) ==
  /\ word = "withdrawn" <=> withdrawn
  /\ word = "declined" <=> declined
  /\ word = "executed" <=> Countersigned(latest)
  /\ word = "draft" <=> ~withdrawn /\ ~declined /\ latest \notin sent
  /\ word = "accepted" <=> ClientSigned(latest) /\ ~Countersigned(latest)
  /\ word = "changes_requested" <=>
       /\ ~withdrawn /\ ~declined /\ latest \in sent /\ signed = {}
       /\ \E c \in changes : c.version = latest
  /\ word = "sent" <=>
       /\ ~withdrawn /\ ~declined /\ latest \in sent /\ signed = {}
       /\ ~\E c \in changes : c.version = latest

LEMMA StatusMeans == ASSUME Rows PROVE StatusSays(Status)
<1>1. \A s \in signed : s.version = latest /\ latest \in sent /\ ~declined /\ ~withdrawn
  BY DEF Rows
<1>2. signed # {} => ClientSigned(latest)
  BY DEF Rows
<1>3. declined => latest \in sent /\ ~withdrawn
  BY DEF Rows
<1>4. (\E s \in signed : s.role = "countersign") <=> Countersigned(latest)
  BY <1>1 DEF Countersigned
<1>5. ClientSigned(latest) <=> signed # {}
  BY <1>2 DEF ClientSigned
<1>6. Countersigned(latest) => signed # {}
  BY DEF Countersigned
<1> HIDE DEF Countersigned, ClientSigned
<1> QED
  BY <1>1, <1>3, <1>4, <1>5, <1>6 DEF Status, StatusSays

LEMMA StatusMeansNext == ASSUME Rows' PROVE StatusSays(Status)'
<1>1. \A s \in signed' : s.version = latest' /\ latest' \in sent' /\ ~declined' /\ ~withdrawn'
  BY DEF Rows
<1>2. signed' # {} => ClientSigned(latest)'
  BY DEF Rows
<1>3. declined' => latest' \in sent' /\ ~withdrawn'
  BY DEF Rows
<1>4. (\E s \in signed' : s.role = "countersign") <=> Countersigned(latest)'
  BY <1>1 DEF Countersigned
<1>5. ClientSigned(latest)' <=> signed' # {}
  BY <1>2 DEF ClientSigned
<1>6. Countersigned(latest)' => signed' # {}
  BY DEF Countersigned
<1> QED
  BY <1>1, <1>3, <1>4, <1>5, <1>6 DEF Status, StatusSays

\* While the rows stay, so does all that is read off them.
LEMMA RowsRead ==
  ASSUME UNCHANGED database
  PROVE  /\ Status' = Status
         /\ \A v : Expected(v)' = Expected(v)
         /\ \A v : IsLatestSent(v)' = IsLatestSent(v)
BY DEF database, Status, Expected, IsLatestSent, ClientSigned

LEMMA RowsKept ==
  ASSUME Rows, UNCHANGED database, UNCHANGED history
  PROVE  Rows'
BY DEF Rows, database, history, OnlyTheSendCounts, Answered, ClientSigned, Linked

LEMMA DoingKept ==
  ASSUME NEW o, Doing(o), UNCHANGED database, UNCHANGED history, UNCHANGED records
  PROVE  Doing(o)'
BY RowsRead DEF Doing, database, history, Unsent, Fits, Allowed, IsLatestSent

\* Objects that stay as they are keep fitting what they fitted.
LEMMA WholeKept ==
  ASSUME NEW c, NEW o, Whole(c), UNCHANGED <<database, emailed, manifest, pages>>,
         leftover' = leftover,
         Opening(c) => Opening(o),
         o.at \in {"email", "record", "recording"} => c.at \in {"email", "record", "recording"} /\ o.a = c.a,
         o.at \in {"manifest", "email", "record", "recording"} =>
           c.at \in {"manifest", "email", "record", "recording"} /\ o.a = c.a,
         \A v \in sent : Stale(c, v) => Stale(o, v)
  PROVE  Whole(o)'
<1>1. Opening(o)' <=> Opening(o)
  BY RowsRead DEF Opening
<1>2. \A v : Stale(o, v)' <=> Stale(o, v)
  BY RowsRead DEF Stale, database
<1>3. ManifestFits' <=> ManifestFits
  BY RowsRead DEF ManifestFits, Answerable, database
<1> HIDE DEF Opening, Stale, ManifestFits, Expected
<1> QED
  BY <1>1, <1>2, <1>3, RowsRead DEF Whole, database
-----------------------------------------------------------------------------
(* One process: sending *)

\* A step of a command that leaves the rows and the records alone.
LEMMA OneStep ==
  ASSUME Alone, TypeOK, NEW p \in Procs, NEW c, One(c), NEW o,
         UNCHANGED database, UNCHANGED history, UNCHANGED records,
         op' = [op EXCEPT ![p] = o], Doing(o), LinkedRecordExists', Whole(o)'
  PROVE  AloneInv'
<1>1. Rows' /\ Doing(o)'
  BY RowsKept, DoingKept DEF One
<1>2. One(o)'
  BY <1>1 DEF One
<1> QED
  BY <1>2, OneCommand DEF TypeOK

LEMMA OneStartSend ==
  ASSUME Alone, TypeOK, NEW p \in Procs, One(op[p]), StartSend(p)
  PROVE  AloneInv'
<1>1. PICK a \in Attempts :
        /\ \A b \in Attempts : (versionOf[b] = None) <=> (a <= b)
        /\ versionOf' = [versionOf EXCEPT ![a] = latest]
        /\ Become(p, [at |-> "freeze", v |-> latest, a |-> a, to |-> None,
                      opened |-> FALSE, left |-> Roles])
  BY DEF StartSend
<1>2. PICK o : o = [at |-> "freeze", v |-> latest, a |-> a, to |-> None,
                    opened |-> FALSE, left |-> Roles]
  OBVIOUS
<1>3. One(Idle)
  BY DEF StartSend
<1>4. UNCHANGED <<database, manifest, pages, records, emailed, sentBy, leftover>>
  BY DEF StartSend, private, public, troubles
<1>5. a \in Nat /\ latest \in Versions /\ versionOf \in [Attempts -> Versions \cup {None}]
  BY DEF Attempts, TypeOK, DatabaseOK, HistoryOK
<1>6. versionOf[a] = None /\ versionOf'[a] = latest
  BY <1>1, <1>5
<1>7. \A b \in Attempts : versionOf[b] # None => versionOf'[b] = versionOf[b]
  BY <1>1, <1>5, <1>6
<1>8. \A v \in Versions : recips[v] \in Attempts \cup {None}
  BY DEF TypeOK, DatabaseOK
<1>9. emailed \subseteq Links
  BY DEF TypeOK, HistoryOK
<1>10. Rows'
  <2>1. \A v \in Versions : recips'[v] # None => versionOf'[recips'[v]] = v
    BY <1>3, <1>4, <1>7, <1>8, NoneAssumption DEF One, Rows, database
  <2>2. \A l \in emailed' : versionOf'[l[1]] # None
    <3>1. \A l \in emailed : l[1] \in Attempts
      BY <1>9 DEF Links
    <3> QED
      BY <1>3, <1>4, <1>7, <3>1 DEF One, Rows
  <2> QED
    BY <1>3, <1>4, <2>1, <2>2
       DEF One, Rows, database, OnlyTheSendCounts, Answered, ClientSigned, Linked
<1>11. LinkedRecordExists'
  <2>1. \A b \in Attempts : versionOf[b] \in records => versionOf[b] # None
    BY NoneAssumption DEF TypeOK, PublicOK
  <2> QED
    BY <1>3, <1>4, <1>7, <2>1 DEF One, LinkedRecordExists
<1>12. Doing(o)'
  <2>1. Status' = Status /\ Status = "draft"
    BY <1>4, RowsRead DEF StartSend, Allowed, AllowedFrom
  <2>2. Unsent(o)'
    BY <1>2, <1>4, <1>6, <2>1 DEF Unsent, database
  <2>3. \A r \in Roles : <<a, r>> \notin emailed'
    BY <1>3, <1>4, <1>6 DEF One, Rows
  <2> QED
    BY <1>2, <2>2, <2>3 DEF Doing, Verbs, SendSteps
<1>13. Whole(o)'
  <2>1. ~Opening(Idle) /\ \A v \in sent : ~Stale(Idle, v)
    BY DEF Opening, Stale, Idle, SendSteps
  <2> QED
    BY <1>2, <1>3, <1>4, <2>1, WholeKept DEF One
<1> QED
  BY <1>1, <1>2, <1>10, <1>11, <1>12, <1>13, OneCommand DEF One, Become, TypeOK

LEMMA OneEnsureLatestUnsent ==
  ASSUME Alone, TypeOK, NEW p \in Procs, One(op[p]), EnsureLatestUnsent(p)
  PROVE  AloneInv'
<1>1. PICK c : c = op[p]
  OBVIOUS
<1>2. /\ c.at \in DOMAIN Ensured /\ c.at \in SendSteps
      /\ UNCHANGED <<database, private, public, history>>
      /\ \/ LatestUnsent(c.v) /\ Move(p, Ensured[c.at]) /\ UNCHANGED leftover
         \/ ~LatestUnsent(c.v)
  BY <1>1 DEF EnsureLatestUnsent, SendSteps, Ensured
<1>3. c \in Sending
  BY <1>1, <1>2, OpShape DEF TypeOK
<1>4. Unsent(c) /\ Rows
  BY <1>1, <1>2 DEF One, Doing
<1>5. LatestUnsent(c.v)
  BY <1>4, StatusMeans DEF Unsent, LatestUnsent, StatusSays
<1>6. PICK o : o = [c EXCEPT !.at = Ensured[c.at]]
  OBVIOUS
<1>7. op' = [op EXCEPT ![p] = o] /\ leftover' = leftover
  BY <1>1, <1>2, <1>5, <1>6 DEF Move
<1>8. /\ o.at = Ensured[c.at] /\ o.at \in {"freezing", "recording", "unfreezing"}
      /\ o.v = c.v /\ o.a = c.a /\ o.to = c.to /\ o.opened = c.opened /\ o.left = c.left
  BY <1>2, <1>3, <1>6 DEF Sending, SendState, Ensured
<1>9. Doing(o)
  BY <1>1, <1>2, <1>4, <1>8 DEF One, Doing, Unsent, Ensured, Verbs, SendSteps
<1>10. Whole(o)'
  <2>1. /\ Opening(c) => Opening(o)
        /\ \A v \in sent : Stale(c, v) => Stale(o, v)
    BY <1>2, <1>8 DEF Opening, Stale, Ensured, SendSteps
  <2>2. o.at = "recording" => c.at = "record"
    BY <1>2, <1>8 DEF Ensured
  <2> QED
    BY <1>1, <1>2, <1>7, <1>8, <2>1, <2>2, WholeKept DEF One, private, public, history
<1>11. LinkedRecordExists'
  BY <1>1, <1>2 DEF One, LinkedRecordExists, public, history
<1> QED
  BY <1>1, <1>2, <1>7, <1>9, <1>10, <1>11, OneStep DEF public

\* What a send holds, and what is so while it goes on.
LEMMA SendHolds ==
  ASSUME TypeOK, NEW c \in Ops, One(c), c.at \in SendSteps
  PROVE  /\ c \in Sending /\ c.v = latest /\ c.a \in Attempts /\ c.a # None /\ versionOf[c.a] = latest
         /\ Status = "draft" /\ latest \in Versions /\ latest \notin sent
         /\ ~withdrawn /\ ~declined /\ signed = {}
         /\ \A v \in sent : v \in Versions /\ recips[v] # c.a /\ recips[v] \in Attempts
<1>1. c \in Sending /\ c.a \in Attempts
  BY OpShape DEF Sending, SendState
<1>2. Unsent(c) /\ Rows
  BY DEF One, Doing
<1>3. latest \notin sent /\ ~withdrawn /\ ~declined
  BY <1>2, StatusMeans DEF Unsent, StatusSays
<1>4. signed = {}
  BY <1>2, <1>3 DEF Rows
<1>5. \A v \in sent : v \in Versions /\ recips[v] # None /\ versionOf[recips[v]] = v
  BY <1>2 DEF Rows, TypeOK, DatabaseOK
<1>6. \A v \in sent : recips[v] \in Attempts
  BY <1>5 DEF TypeOK, DatabaseOK
<1> QED
  BY <1>1, <1>2, <1>3, <1>4, <1>5, <1>6, NoneAssumption DEF Unsent, TypeOK, DatabaseOK

LEMMA OneFreezeRecipients ==
  ASSUME Alone, TypeOK, NEW p \in Procs, One(op[p]), FreezeRecipients(p)
  PROVE  AloneInv'
<1>1. PICK c : c = op[p]
  OBVIOUS
<1>2. /\ c.at = "freezing" /\ c.at \in SendSteps /\ c \in Ops /\ One(c)
      /\ recips' = [recips EXCEPT ![c.v] = c.a]
      /\ op' = [op EXCEPT ![p].at = "publish"]
      /\ UNCHANGED <<latest, sent, signed, changes, declined, withdrawn, manifest, pages,
                     records, versionOf, emailed, sentBy, leftover>>
  BY <1>1 DEF FreezeRecipients, Move, SendSteps, TypeOK, private, public, history, troubles
<1>3. /\ c \in Sending /\ c.v = latest /\ c.a \in Attempts /\ c.a # None /\ versionOf[c.a] = latest
      /\ Status = "draft" /\ latest \in Versions /\ latest \notin sent
      /\ \A v \in sent : v \in Versions
  BY <1>2, SendHolds
<1>4. recips'[latest] = c.a /\ \A v \in Versions : v # latest => recips'[v] = recips[v]
  BY <1>2, <1>3 DEF TypeOK, DatabaseOK
<1>5. PICK o : o = [c EXCEPT !.at = "publish"]
  OBVIOUS
<1>6. op' = [op EXCEPT ![p] = o]
  BY <1>1, <1>2, <1>5
<1>7. o.at = "publish" /\ o.v = c.v /\ o.a = c.a /\ o.opened = c.opened
  BY <1>3, <1>5 DEF Sending, SendState
<1>8. Status' = Status
  BY <1>2 DEF Status, ClientSigned
<1>9. Rows'
  BY <1>2, <1>3, <1>4 DEF One, Rows, OnlyTheSendCounts, Answered, ClientSigned, Linked
<1>10. Doing(o)'
  BY <1>2, <1>3, <1>4, <1>7, <1>8 DEF One, Doing, Unsent, Verbs, SendSteps
<1>11. LinkedRecordExists'
  BY <1>2 DEF One, LinkedRecordExists
<1>12. Whole(o)'
  <2>1. ~Opening(c) /\ \A v \in sent : ~Stale(c, v)
    BY <1>2 DEF One, Doing, Opening, Stale, SendSteps
  <2>2. ~leftover => ~Answerable /\ \A v \in sent : pages[recips[v]] \in Expected(v)
    BY <1>2, <1>3, <2>1 DEF One, Whole, ManifestFits
  <2>3. ManifestFits' <=> ~Answerable
    BY <1>2, <1>3, <1>8 DEF ManifestFits, Answerable
  <2>4. \A v \in sent : Expected(v)' = Expected(v) /\ recips'[v] = recips[v]
    BY <1>2, <1>3, <1>4, <1>8 DEF Expected, IsLatestSent
  <2> QED
    BY <1>2, <1>7, <2>2, <2>3, <2>4 DEF Whole
<1> QED
  BY <1>6, <1>9, <1>10, <1>11, <1>12, OneCommand DEF One, TypeOK

LEMMA OnePublishPages ==
  ASSUME Alone, TypeOK, NEW p \in Procs, One(op[p]), PublishPages(p)
  PROVE  AloneInv'
<1>1. PICK c : c = op[p]
  OBVIOUS
<1>2. /\ c.at = "publish" /\ c.at \in SendSteps /\ c \in Ops /\ One(c)
      /\ UNCHANGED <<database, manifest, records, history, leftover>>
  BY <1>1 DEF PublishPages, SendSteps, TypeOK, private, troubles
<1>3. /\ c \in Sending /\ c.v = latest /\ c.a \in Attempts /\ c.a # None /\ versionOf[c.a] = latest
      /\ Status = "draft" /\ latest \notin sent
      /\ \A v \in sent : recips[v] # c.a /\ recips[v] \in Attempts
  BY <1>2, SendHolds
<1>4. recips[c.v] = c.a
  BY <1>2, <1>3 DEF One, Doing
<1>5. /\ op' = [op EXCEPT ![p].to = c.a, ![p].at = "manifest"]
      /\ pages' = [x \in Attempts |-> IF x = c.a THEN "open" ELSE pages[x]]
  BY <1>1, <1>4 DEF PublishPages, OpenPages
<1>6. PICK o : o = [c EXCEPT !.to = c.a, !.at = "manifest"]
  OBVIOUS
<1>7. op' = [op EXCEPT ![p] = o]
  BY <1>1, <1>5, <1>6
<1>8. o.at = "manifest" /\ o.v = c.v /\ o.a = c.a /\ o.to = c.a /\ o.opened = c.opened
  BY <1>3, <1>6 DEF Sending, SendState
<1>9. Doing(o)
  BY <1>2, <1>3, <1>8 DEF One, Doing, Unsent, Verbs, SendSteps
<1>10. LinkedRecordExists'
  BY <1>2, <1>5 DEF One, LinkedRecordExists, history
<1>11. Whole(o)'
  <2>1. ~Opening(c) /\ \A v \in sent : ~Stale(c, v)
    BY <1>2 DEF One, Doing, Opening, Stale, SendSteps
  <2>2. ~leftover => ManifestFits /\ \A v \in sent : pages[recips[v]] \in Expected(v)
    BY <1>2, <2>1 DEF One, Whole
  <2>3. ManifestFits' <=> ManifestFits
    BY <1>2, RowsRead DEF ManifestFits, Answerable, database, history
  <2>4. \A v \in sent : Expected(v)' = Expected(v) /\ pages'[recips'[v]] = pages[recips[v]]
    BY <1>2, <1>3, <1>5, RowsRead DEF database
  <2>5. sent' = sent /\ pages'[c.a] = "open"
    BY <1>2, <1>3, <1>5 DEF database
  <2> QED
    BY <1>2, <1>8, <2>2, <2>3, <2>4, <2>5 DEF Whole
<1> QED
  BY <1>2, <1>7, <1>9, <1>10, <1>11, OneStep

LEMMA OneOpenManifest ==
  ASSUME Alone, TypeOK, NEW p \in Procs, One(op[p]), OpenManifest(p)
  PROVE  AloneInv'
<1>1. PICK c : c = op[p]
  OBVIOUS
<1>2. /\ c.at = "manifest" /\ c.at \in SendSteps /\ c \in Ops /\ One(c)
      /\ UNCHANGED <<database, pages, records, history, leftover>>
  BY <1>1 DEF OpenManifest, SendSteps, TypeOK, public, troubles
<1>3. /\ c \in Sending /\ c.v = latest /\ c.a # None
      /\ recips[latest] = c.a /\ c.to = c.a
  BY <1>2, SendHolds DEF One, Doing
<1>4. /\ manifest' = Manifest(c.a, TRUE)
      /\ op' = [op EXCEPT ![p].opened = TRUE, ![p].at = "email", ![p].left = Roles]
  BY <1>1, <1>3 DEF OpenManifest
<1>5. PICK o : o = [c EXCEPT !.opened = TRUE, !.at = "email", !.left = Roles]
  OBVIOUS
<1>6. op' = [op EXCEPT ![p] = o]
  BY <1>1, <1>4, <1>5
<1>7. o.at = "email" /\ o.v = c.v /\ o.a = c.a /\ o.to = c.to /\ o.opened = TRUE /\ o.left = Roles
  BY <1>3, <1>5 DEF Sending, SendState
<1>8. Doing(o)
  BY <1>2, <1>3, <1>7 DEF One, Doing, Unsent, Verbs, SendSteps
<1>9. LinkedRecordExists'
  BY <1>2 DEF One, LinkedRecordExists, history
<1>10. Whole(o)'
  <2>1. Opening(o)' /\ \A v \in sent : ~Stale(c, v)
    BY <1>2, <1>7 DEF Opening, Stale, SendSteps
  <2>2. ~leftover => pages[c.a] = "open" /\ \A v \in sent : pages[recips[v]] \in Expected(v)
    BY <1>2, <2>1 DEF One, Whole
  <2>3. \A v \in sent : Expected(v)' = Expected(v)
    BY <1>2, RowsRead
  <2> QED
    BY <1>2, <1>4, <1>7, <2>1, <2>2, <2>3 DEF Whole, database
<1> QED
  BY <1>2, <1>6, <1>8, <1>9, <1>10, OneStep

LEMMA OneEmailLink ==
  ASSUME Alone, TypeOK, NEW p \in Procs, One(op[p]), EmailLink(p)
  PROVE  AloneInv'
<1>1. PICK c : c = op[p]
  OBVIOUS
<1>2. /\ c.at = "email" /\ c.at \in SendSteps /\ c \in Ops /\ One(c)
      /\ UNCHANGED <<database, manifest, pages, records, versionOf, sentBy, leftover>>
      /\ \/ c.left = {} /\ op' = [op EXCEPT ![p].at = "record"] /\ emailed' = emailed
         \/ \E r \in c.left : /\ op' = [op EXCEPT ![p].left = @ \ {r}]
                              /\ emailed' = emailed \cup {<<c.to, r>>}
  BY <1>1 DEF EmailLink, Move, SendSteps, TypeOK, private, public, troubles
<1>3. /\ c \in Sending /\ c.v = latest /\ c.a # None /\ c.left \subseteq Roles
      /\ c.to = c.a /\ recips[latest] = c.a /\ c.opened /\ versionOf[c.a] = latest
      /\ latest \in Versions
      /\ \A r \in Roles \ c.left : <<c.a, r>> \in emailed
  BY <1>2, SendHolds DEF One, Doing, Sending, SendState
<1>4. PICK o : /\ op' = [op EXCEPT ![p] = o]
               /\ o.at \in {"email", "record"}
               /\ o.v = c.v /\ o.a = c.a /\ o.to = c.to /\ o.opened = c.opened
               /\ emailed \subseteq emailed' /\ emailed' \subseteq emailed \cup Linked(c.a)
               /\ o.at = "email" => \A r \in Roles \ o.left : <<c.a, r>> \in emailed'
               /\ o.at = "record" => \A r \in Roles : <<c.a, r>> \in emailed'
  <2>1. CASE c.left = {} /\ op' = [op EXCEPT ![p].at = "record"] /\ emailed' = emailed
    <3>1. PICK o : o = [c EXCEPT !.at = "record"]
      OBVIOUS
    <3>2. op' = [op EXCEPT ![p] = o]
      BY <1>1, <2>1, <3>1
    <3>3. o.at = "record" /\ o.v = c.v /\ o.a = c.a /\ o.to = c.to /\ o.opened = c.opened
      BY <1>3, <3>1 DEF Sending, SendState
    <3> QED
      BY <1>3, <2>1, <3>2, <3>3
  <2>2. ASSUME NEW r \in c.left,
               op' = [op EXCEPT ![p].left = @ \ {r}], emailed' = emailed \cup {<<c.to, r>>}
        PROVE  \E o : /\ op' = [op EXCEPT ![p] = o]
                      /\ o.at = "email"
                      /\ o.v = c.v /\ o.a = c.a /\ o.to = c.to /\ o.opened = c.opened
                      /\ emailed \subseteq emailed' /\ emailed' \subseteq emailed \cup Linked(c.a)
                      /\ \A s \in Roles \ o.left : <<c.a, s>> \in emailed'
    <3>1. PICK o : o = [c EXCEPT !.left = @ \ {r}]
      OBVIOUS
    <3>2. op' = [op EXCEPT ![p] = o]
      BY <1>1, <2>2, <3>1
    <3>3. /\ o.at = "email" /\ o.v = c.v /\ o.a = c.a /\ o.to = c.to /\ o.opened = c.opened
          /\ o.left = c.left \ {r}
      BY <1>2, <1>3, <3>1 DEF Sending, SendState
    <3>4. \A s \in Roles \ o.left : <<c.a, s>> \in emailed'
      BY <1>3, <2>2, <3>3
    <3>5. <<c.to, r>> \in Linked(c.a)
      BY <1>3, <2>2 DEF Linked
    <3> QED
      BY <2>2, <3>2, <3>3, <3>4, <3>5
  <2> QED
    BY <1>2, <2>1, <2>2
<1>5. Rows'
  <2>1. \A l \in emailed' : versionOf'[l[1]] # None
    BY <1>2, <1>3, <1>4, NoneAssumption DEF One, Rows, Linked
  <2> QED
    BY <1>2, <1>4, <2>1
       DEF One, Rows, database, OnlyTheSendCounts, Answered, ClientSigned, Linked
<1>6. Status' = Status
  BY <1>2, RowsRead
<1>7. Doing(o)'
  BY <1>2, <1>3, <1>4, <1>6 DEF One, Doing, Unsent, database, Verbs, SendSteps
<1>8. LinkedRecordExists'
  BY <1>2 DEF One, LinkedRecordExists
<1>9. Whole(o)'
  <2>1. Opening(o)' /\ \A v \in sent : ~Stale(c, v)
    BY <1>2, <1>3, <1>4 DEF Opening, Stale, SendSteps
  <2>2. ~leftover => /\ manifest = Manifest(c.a, TRUE) /\ pages[c.a] = "open"
                     /\ \A v \in sent : pages[recips[v]] \in Expected(v)
    BY <1>2, <2>1 DEF One, Whole
  <2>3. \A v \in sent : Expected(v)' = Expected(v)
    BY <1>2, RowsRead
  <2> QED
    BY <1>2, <1>4, <2>1, <2>2, <2>3 DEF Whole, database
<1> QED
  BY <1>4, <1>5, <1>7, <1>8, <1>9, OneCommand DEF One, TypeOK

\* A send that is rolled back.
LEMMA OneSendFails ==
  ASSUME Alone, TypeOK, NEW p \in Procs, One(op[p]), SendFails(p)
  PROVE  AloneInv'
<1>1. PICK c : c = op[p]
  OBVIOUS
<1>2. /\ c.at \in {"publish", "manifest", "email"} /\ c.at \in SendSteps /\ c \in Ops /\ One(c)
      /\ op' = [op EXCEPT ![p].at = "unfreeze"]
      /\ UNCHANGED <<database, records, versionOf, sentBy, leftover>>
  BY <1>1 DEF SendFails, Move, SendSteps, TypeOK
<1>3. /\ c \in Sending /\ c.v = latest /\ c.a \in Attempts /\ c.a # None /\ Status = "draft"
      /\ recips[latest] = c.a /\ versionOf[c.a] = latest /\ latest \in Versions
      /\ \A v \in sent : recips[v] # c.a /\ recips[v] \in Attempts
      /\ c.at \in {"manifest", "email"} => c.to = c.a
      /\ c.at \in {"publish", "manifest"} => ~c.opened /\ \A r \in Roles : <<c.a, r>> \notin emailed
      /\ c.at = "email" => c.opened /\ c.left \subseteq Roles
  BY <1>2, SendHolds DEF One, Doing, Sending, SendState
<1>4. PICK o : o = [c EXCEPT !.at = "unfreeze"]
  OBVIOUS
<1>5. op' = [op EXCEPT ![p] = o]
  BY <1>1, <1>2, <1>4
<1>6. o.at = "unfreeze" /\ o.v = c.v /\ o.a = c.a /\ o.to = c.to /\ o.opened = c.opened
  BY <1>3, <1>4 DEF Sending, SendState
<1>7. /\ pages' \in {pages, [x \in Attempts |-> IF x = c.a THEN "open" ELSE pages[x]]}
      /\ manifest' \in {manifest, Manifest(c.a, TRUE)}
      /\ emailed' = emailed \/ \E r \in Roles : emailed' = emailed \cup {<<c.a, r>>}
      /\ c.at # "manifest" => manifest' = manifest
      /\ c.at # "email" => emailed' = emailed
  BY <1>1, <1>3 DEF SendFails, OpenPages
<1>8. Rows'
  <2>1. \A l \in emailed' : versionOf'[l[1]] # None
    BY <1>2, <1>3, <1>7, NoneAssumption DEF One, Rows
  <2>2. emailed \subseteq emailed'
    BY <1>7
  <2> QED
    BY <1>2, <2>1, <2>2
       DEF One, Rows, database, OnlyTheSendCounts, Answered, ClientSigned, Linked
<1>9. Doing(o)'
  <2>1. Status' = Status
    BY <1>2, RowsRead
  <2> QED
    BY <1>2, <1>3, <1>6, <2>1 DEF Doing, Unsent, database, Verbs, SendSteps
<1>10. LinkedRecordExists'
  BY <1>2, <1>7 DEF One, LinkedRecordExists
<1>11. Whole(o)'
  <2>1. \A v \in sent : ~Stale(c, v)
    BY <1>2 DEF Stale, SendSteps
  <2>2. \A v \in sent : Expected(v)' = Expected(v) /\ pages'[recips[v]] = pages[recips[v]]
    BY <1>2, <1>3, <1>7, RowsRead
  <2>3. ~leftover => \A v \in sent' : pages'[recips'[v]] \in Expected(v)'
    BY <1>2, <2>1, <2>2 DEF One, Whole, database
  <2>4. ~leftover /\ ~Opening(o)' => ManifestFits'
    <3>1. Status' = "draft"
      BY <1>2, <1>3, RowsRead
    <3>2. CASE c.at = "email"
      BY <1>3, <1>6, <3>2 DEF Opening, SendSteps
    <3>3. CASE c.at \in {"publish", "manifest"}
      <4>1. ~Opening(c) /\ emailed' = emailed
        BY <1>3, <1>7, <3>3 DEF Opening, SendSteps
      <4>2. ~leftover => ~Answerable
        BY <1>2, <1>3, <4>1 DEF One, Whole, ManifestFits
      <4>3. ~leftover => ~Answerable'
        <5>1. CASE manifest' = manifest
          BY <4>1, <4>2, <5>1 DEF Answerable
        <5>2. CASE manifest' = Manifest(c.a, TRUE)
          <6>1. manifest'.to = c.a
            BY <5>2 DEF Manifest
          <6> QED
            BY <1>3, <3>3, <4>1, <6>1 DEF Answerable
        <5> QED
          BY <1>7, <5>1, <5>2
      <4> QED
        BY <3>1, <4>3 DEF ManifestFits
    <3> QED
      BY <1>2, <3>2, <3>3
  <2> QED
    BY <1>2, <1>6, <2>3, <2>4 DEF Whole
<1> QED
  BY <1>5, <1>8, <1>9, <1>10, <1>11, OneCommand DEF One, TypeOK

LEMMA OneMarkSent ==
  ASSUME Alone, TypeOK, NEW p \in Procs, One(op[p]), MarkSent(p)
  PROVE  AloneInv'
<1>1. PICK c : c = op[p]
  OBVIOUS
<1>2. /\ c.at = "recording" /\ c.at \in SendSteps /\ c \in Ops /\ One(c)
      /\ sent' = sent \cup {c.v} /\ sentBy' = [sentBy EXCEPT ![c.v] = c.a]
      /\ op' = [op EXCEPT ![p] = [at |-> "supersede", v |-> c.v]]
      /\ UNCHANGED <<latest, recips, signed, changes, declined, withdrawn, manifest, pages,
                     records, versionOf, emailed, leftover>>
  BY <1>1 DEF MarkSent, Become, SendSteps, TypeOK, private, public, troubles
<1>3. /\ c.v = latest /\ c.a \in Attempts /\ c.a # None /\ versionOf[c.a] = latest
      /\ latest \in Versions /\ latest \notin sent
      /\ ~withdrawn /\ ~declined /\ signed = {}
      /\ \A v \in sent : v \in Versions
      /\ recips[latest] = c.a /\ \A r \in Roles : <<c.a, r>> \in emailed
  BY <1>2, SendHolds DEF One, Doing
<1>4. PICK o : o = [at |-> "supersede", v |-> latest]
  OBVIOUS
<1>5. op' = [op EXCEPT ![p] = o] /\ o.at = "supersede" /\ o.v = latest
  BY <1>2, <1>3, <1>4
<1>6. sentBy'[latest] = c.a /\ \A v \in Versions : v # latest => sentBy'[v] = sentBy[v]
  BY <1>2, <1>3 DEF TypeOK, HistoryOK
<1>7. \A x \in changes : x.version \in sent /\ x.version \in Versions
  BY <1>2, <1>3 DEF One, Rows
<1>8. Rows'
  <2>1. OnlyTheSendCounts'
    <3>1. \A v \in Versions : Answered(v)' = Answered(v)
      BY <1>2 DEF Answered
    <3>2. Answered(latest) = {}
      BY <1>3, <1>7 DEF Answered
    <3> QED
      BY <1>2, <1>6, <3>1, <3>2 DEF One, Rows, OnlyTheSendCounts
  <2>2. \A v \in sent' : recips'[v] # None /\ sentBy'[v] = recips'[v] /\ Linked(recips'[v]) \subseteq emailed'
    <3>1. Linked(c.a) \subseteq emailed
      BY <1>3 DEF Linked
    <3> QED
      BY <1>2, <1>3, <1>6, <3>1 DEF One, Rows
  <2>3. 1..latest - 1 \subseteq sent' /\ sent' \subseteq 1..latest
    <3>1. 1..latest - 1 \subseteq sent /\ sent \subseteq 1..latest
      BY <1>2 DEF One, Rows
    <3>2. latest \in 1..latest /\ sent' = sent \cup {latest}
      BY <1>2, <1>3 DEF Versions
    <3> QED
      BY <1>2, <3>1, <3>2
  <2>4. \A x \in changes : x.version \in sent'
    BY <1>2, <1>7
  <2> QED
    BY <1>2, <1>3, <2>1, <2>2, <2>3, <2>4 DEF One, Rows
<1>9. Status' = "sent"
  <2>1. StatusSays(Status)'
    BY <1>8, StatusMeansNext
  <2>2. \A x \in changes : x.version # latest
    BY <1>3, <1>7
  <2> QED
    BY <1>2, <1>3, <2>1, <2>2 DEF StatusSays
<1>10. Doing(o)'
  BY <1>2, <1>5, <1>9 DEF Doing, Verbs, SendSteps
<1>11. LinkedRecordExists'
  BY <1>2 DEF One, LinkedRecordExists
<1>12. Whole(o)'
  <2>1. ~leftover => manifest = Manifest(c.a, TRUE) /\ pages[c.a] = "open"
    BY <1>2 DEF One, Whole
  <2>2. ~leftover => ManifestFits'
    BY <1>2, <1>3, <1>9, <2>1 DEF ManifestFits
  <2>3. latest \in Nat /\ \A v \in sent : v \in Nat /\ v < latest
    BY <1>2, <1>3 DEF One, Rows, Versions
  <2>4. \A v \in sent : Stale(o, v)'
    BY <1>2, <1>5, <2>3 DEF Stale
  <2>5. Expected(latest)' = {"open"}
    <3>1. IsLatestSent(latest)'
      BY <1>2, <1>3, <2>3 DEF IsLatestSent
    <3> QED
      BY <1>2, <1>3, <1>9, <3>1 DEF Expected
  <2>6. ~leftover' => \A v \in sent' : Stale(o, v)' \/ pages'[recips'[v]] \in Expected(v)'
    BY <1>2, <1>3, <2>1, <2>4, <2>5
  <2> QED
    BY <1>2, <1>5, <2>2, <2>6 DEF Whole
<1> QED
  BY <1>5, <1>8, <1>10, <1>11, <1>12, OneCommand DEF One, TypeOK

LEMMA OneUnfreeze ==
  ASSUME Alone, TypeOK, NEW p \in Procs, One(op[p]), Unfreeze(p)
  PROVE  AloneInv'
<1>1. PICK c : c = op[p]
  OBVIOUS
<1>2. /\ c.at = "unfreezing" /\ c.at \in SendSteps /\ c \in Ops /\ One(c)
      /\ recips' = [recips EXCEPT ![c.v] = None]
      /\ op' = [op EXCEPT ![p].at = "unopen"]
      /\ UNCHANGED <<latest, sent, signed, changes, declined, withdrawn, manifest, pages,
                     records, versionOf, emailed, sentBy, leftover>>
  BY <1>1 DEF Unfreeze, Move, SendSteps, TypeOK, private, public, history, troubles
<1>3. /\ c \in Sending /\ c.v = latest /\ Status = "draft" /\ versionOf[c.a] = latest
      /\ latest \in Versions /\ latest \notin sent /\ \A v \in sent : v \in Versions
  BY <1>2, SendHolds
<1>4. recips'[latest] = None /\ \A v \in Versions : v # latest => recips'[v] = recips[v]
  BY <1>2, <1>3 DEF TypeOK, DatabaseOK
<1>5. PICK o : o = [c EXCEPT !.at = "unopen"]
  OBVIOUS
<1>6. op' = [op EXCEPT ![p] = o]
  BY <1>1, <1>2, <1>5
<1>7. o.at = "unopen" /\ o.v = c.v /\ o.a = c.a /\ o.opened = c.opened
  BY <1>3, <1>5 DEF Sending, SendState
<1>8. Status' = Status
  BY <1>2 DEF Status, ClientSigned
<1>9. Rows'
  BY <1>2, <1>3, <1>4 DEF One, Rows, OnlyTheSendCounts, Answered, ClientSigned, Linked
<1>10. Doing(o)'
  BY <1>2, <1>3, <1>7, <1>8 DEF Doing, Unsent, Verbs, SendSteps
<1>11. LinkedRecordExists'
  BY <1>2 DEF One, LinkedRecordExists
<1>12. Whole(o)'
  <2>1. (Opening(c) <=> Opening(o)') /\ \A v \in sent : ~Stale(c, v)
    BY <1>2, <1>7 DEF Opening, Stale, SendSteps
  <2>2. ~leftover => (~Opening(c) => ~Answerable) /\ \A v \in sent : pages[recips[v]] \in Expected(v)
    BY <1>2, <1>3, <2>1 DEF One, Whole, ManifestFits
  <2>3. ManifestFits' <=> ~Answerable
    BY <1>2, <1>3, <1>8 DEF ManifestFits, Answerable
  <2>4. \A v \in sent : Expected(v)' = Expected(v) /\ recips'[v] = recips[v]
    BY <1>2, <1>3, <1>4, <1>8 DEF Expected, IsLatestSent
  <2> QED
    BY <1>2, <1>7, <2>1, <2>2, <2>3, <2>4 DEF Whole
<1> QED
  BY <1>6, <1>9, <1>10, <1>11, <1>12, OneCommand DEF One, TypeOK

LEMMA OneUnopenManifest ==
  ASSUME Alone, TypeOK, NEW p \in Procs, One(op[p]), UnopenManifest(p)
  PROVE  AloneInv'
<1>1. PICK c : c = op[p]
  OBVIOUS
<1>2. /\ c.at = "unopen" /\ c.at \in SendSteps /\ c \in Ops /\ One(c)
      /\ op' = [op EXCEPT ![p] = Idle]
      /\ UNCHANGED <<database, pages, records, history>>
      /\ \/ ~c.opened /\ manifest' = manifest /\ leftover' = leftover
         \/ c.opened /\ manifest' = Manifest(c.to, FALSE)
         \/ leftover' = TRUE
  BY <1>1 DEF UnopenManifest, Become, Warned, SendSteps, TypeOK, public, troubles
<1>3. Status = "draft"
  BY <1>2, SendHolds
<1>4. Doing(Idle)
  BY DEF Doing, Idle, Verbs, SendSteps
<1>5. LinkedRecordExists'
  BY <1>2 DEF One, LinkedRecordExists, history
<1>6. Whole(Idle)'
  <2>1. SUFFICES ASSUME ~leftover' PROVE Whole(Idle)'
    BY DEF Whole
  <2>2. ~leftover
    BY <1>1, <2>1 DEF UnopenManifest, Warned, troubles
  <2>3. \A v \in sent : ~Stale(c, v)
    BY <1>2 DEF Stale, SendSteps
  <2>4. \A v \in sent' : pages'[recips'[v]] \in Expected(v)'
    BY <1>2, <2>2, <2>3, RowsRead DEF One, Whole, database
  <2>5. Status' = "draft"
    BY <1>2, <1>3, RowsRead
  <2>6. ~Answerable'
    <3>1. CASE ~c.opened /\ manifest' = manifest
      <4>1. ~Opening(c)
        BY <1>2, <3>1 DEF Opening, SendSteps
      <4> QED
        BY <1>2, <1>3, <2>2, <3>1, <4>1 DEF One, Whole, ManifestFits, Answerable, history
    <3>2. CASE manifest' = Manifest(c.to, FALSE)
      BY <3>2 DEF Answerable, Manifest
    <3> QED
      BY <1>2, <2>1, <3>1, <3>2
  <2> QED
    BY <2>4, <2>5, <2>6 DEF Whole, ManifestFits, Idle
<1> QED
  BY <1>2, <1>4, <1>5, <1>6, OneStep

LEMMA OneSupersede ==
  ASSUME Alone, TypeOK, NEW p \in Procs, One(op[p]), Supersede(p)
  PROVE  AloneInv'
<1>1. PICK c : c = op[p]
  OBVIOUS
<1>2. /\ c.at = "supersede" /\ One(c)
      /\ op' = [op EXCEPT ![p] = Idle]
      /\ UNCHANGED <<database, manifest, records, history>>
  BY <1>1 DEF Supersede, Become, private
<1>3. PICK S \in SUBSET Superseded(c.v) :
        /\ pages' = [a \in Attempts |-> IF a \in S THEN "superseded" ELSE pages[a]]
        /\ leftover' = TRUE \/ (leftover' = leftover /\ S = Superseded(c.v))
  BY <1>1 DEF Supersede, Warned, troubles
<1>4. Doing(Idle)
  BY DEF Doing, Idle, Verbs, SendSteps
<1>5. LinkedRecordExists'
  BY <1>2, <1>3 DEF One, LinkedRecordExists, history
<1>6. Whole(Idle)'
  <2>1. SUFFICES ASSUME ~leftover' PROVE Whole(Idle)'
    BY DEF Whole
  <2>2. ~leftover /\ S = Superseded(c.v)
    BY <1>3, <2>1
  <2>3. c.v = latest /\ Status \in Decided \cup {"sent"} /\ Rows
    BY <1>2 DEF One, Doing
  <2>4. ~withdrawn /\ latest \in sent
    BY <2>3, StatusMeans DEF StatusSays, Decided, Rows, Countersigned, ClientSigned
  <2>5. latest \in Nat /\ \A v \in sent : v \in Versions /\ v \in Nat /\ v <= latest
    BY <2>3 DEF Rows, TypeOK, DatabaseOK, Versions
  <2>6. \A v \in sent : recips[v] # None /\ recips[v] \in Attempts /\ versionOf[recips[v]] = v
    BY <2>3, <2>5 DEF Rows, TypeOK, DatabaseOK
  <2>7. \A v \in sent : v < latest => pages'[recips[v]] \in Expected(v)
    <3>1. ASSUME NEW v \in sent, v < latest PROVE recips[v] \in S
      BY <2>2, <2>3, <2>6, <3>1 DEF Superseded
    <3>2. ASSUME NEW v \in sent, v < latest PROVE Expected(v) = {"superseded"}
      BY <2>4, <2>5, <3>2 DEF Expected, IsLatestSent
    <3> QED
      BY <1>3, <2>6, <3>1, <3>2
  <2>8. pages'[recips[latest]] \in Expected(latest)
    <3>1. ~Stale(c, latest)
      BY <1>2, <2>3, <2>5 DEF Stale
    <3>2. pages[recips[latest]] \in Expected(latest)
      BY <1>2, <2>2, <2>4, <3>1 DEF One, Whole
    <3>3. recips[latest] \notin S
      BY <2>2, <2>3, <2>4, <2>5, <2>6 DEF Superseded
    <3> QED
      BY <1>3, <2>4, <2>6, <3>2, <3>3
  <2>9. \A v \in sent : pages'[recips[v]] \in Expected(v)
    BY <2>5, <2>7, <2>8
  <2>10. ManifestFits'
    <3>1. ~Opening(c)
      BY <1>2 DEF Opening, SendSteps
    <3>2. ManifestFits
      BY <1>2, <2>2, <3>1 DEF One, Whole
    <3> QED
      BY <1>2, <3>2, RowsRead DEF ManifestFits, Answerable, database, history
  <2> QED
    BY <1>2, <2>9, <2>10, RowsRead DEF Whole, Idle, database
<1> QED
  BY <1>2, <1>4, <1>5, <1>6, OneStep

-----------------------------------------------------------------------------
(* One process: the manifest and the pages, after a change *)

LEMMA OneRepublishLoad ==
  ASSUME Alone, TypeOK, NEW p \in Procs, One(op[p]), RepublishLoad(p)
  PROVE  AloneInv'
<1>1. PICK c : c = op[p]
  OBVIOUS
<1>2. /\ c.at = "load" /\ One(c)
      /\ UNCHANGED <<database, manifest, pages, records, history, leftover>>
  BY <1>1 DEF RepublishLoad, private, public, troubles
<1>3. PICK v \in sent :
        /\ IsLatestSent(v)
        /\ op' = [op EXCEPT ![p] = IF PageState(v, c.linked) = None THEN Idle
                                    ELSE Closing(v, PageState(v, c.linked), "supersede")]
  BY <1>1 DEF RepublishLoad, Become
<1>4. Status \in Decided /\ (c.linked => latest \in records) /\ Rows
  BY <1>2 DEF One, Doing
<1>5. /\ ~withdrawn /\ latest \in sent
      /\ Status = "executed" => Countersigned(latest) /\ ClientSigned(latest)
  BY <1>4, StatusMeans DEF StatusSays, Decided, Rows, Countersigned, ClientSigned
<1>6. v = latest /\ IsLatestSent(latest)
  BY <1>3, <1>4, <1>5 DEF IsLatestSent, Rows, TypeOK, DatabaseOK, Versions
<1>7. PICK show : show = PageState(latest, c.linked)
  OBVIOUS
<1>8. /\ show = IF Status = "executed" THEN IF c.linked THEN "recorded" ELSE "executed" ELSE Status
      /\ show = "recorded" => c.linked
  BY <1>4, <1>5, <1>7 DEF PageState, Decided
<1>9. show \in {"recorded", "executed", "accepted", "changes_requested", "declined"}
  BY <1>4, <1>8 DEF Decided
<1>10. show # None
  BY <1>9, ShowsAssumption DEF Shows
<1>11. PICK o : o = Closing(latest, show, "supersede")
  OBVIOUS
<1>12. op' = [op EXCEPT ![p] = o]
  BY <1>3, <1>6, <1>7, <1>10, <1>11
<1>13. o.at = "close" /\ o.v = latest /\ o.show = show /\ o.next = "supersede"
  BY <1>11 DEF Closing
<1>14. show \in Expected(latest)
  BY <1>4, <1>5, <1>6, <1>8 DEF Expected, Decided
<1>15. Doing(o)
  BY <1>4, <1>8, <1>13, <1>14 DEF Doing, Fits, Verbs, SendSteps
<1>16. LinkedRecordExists'
  BY <1>2 DEF One, LinkedRecordExists, history
<1>17. Whole(o)'
  <2>1. Opening(o) /\ \A v2 \in sent : Stale(c, v2) => Stale(o, v2)
    BY <1>2, <1>13 DEF Opening, Stale
  <2> QED
    BY <1>2, <1>13, <2>1, WholeKept DEF One, history
<1> QED
  BY <1>2, <1>12, <1>15, <1>16, <1>17, OneStep

LEMMA OneCloseManifest ==
  ASSUME Alone, TypeOK, NEW p \in Procs, One(op[p]), CloseManifest(p)
  PROVE  AloneInv'
<1>1. PICK c : c = op[p]
  OBVIOUS
<1>2. /\ c.at = "close" /\ One(c) /\ c \in ClosingOp
      /\ UNCHANGED <<database, pages, records, history>>
  BY <1>1, OpShape DEF CloseManifest, TypeOK, public
<1>3. PICK to : to = recips[c.v]
  OBVIOUS
<1>4. Fits(c) /\ Rows
  BY <1>2 DEF One, Doing
<1>5. c.v \in sent
  BY <1>4, StatusMeans DEF Fits, StatusSays, Decided, Rows, Countersigned, ClientSigned
<1>6. to # None
  BY <1>3, <1>4, <1>5 DEF Rows
<1>7. PICK o : o = [at |-> "rewrite", v |-> c.v, to |-> to, show |-> c.show, next |-> c.next]
  OBVIOUS
<1>8. /\ op' = [op EXCEPT ![p] = o]
      /\ \/ manifest' = Manifest(to, FALSE) /\ leftover' = leftover
         \/ leftover' = TRUE
  BY <1>1, <1>3, <1>6, <1>7 DEF CloseManifest, Become, Warned, troubles
<1>9. o.at = "rewrite" /\ o.v = c.v /\ o.to = to /\ o.show = c.show /\ o.next = c.next
  BY <1>7
<1>10. Doing(o)
  BY <1>3, <1>4, <1>9 DEF Doing, Fits, Verbs, SendSteps
<1>11. LinkedRecordExists'
  BY <1>2 DEF One, LinkedRecordExists, history
<1>12. Whole(o)'
  <2>1. SUFFICES ASSUME ~leftover' PROVE Whole(o)'
    BY DEF Whole
  <2>2. ~leftover /\ manifest' = Manifest(to, FALSE)
    <3>1. ~(leftover' = TRUE)
      BY <2>1
    <3> QED
      BY <1>8, <2>1, <3>1
  <2>3. Status # "sent"
    BY <1>4, StatusMeans DEF Fits, Decided, StatusSays
  <2>4. ManifestFits'
    BY <1>2, <2>2, <2>3, RowsRead DEF ManifestFits, Answerable, Manifest
  <2>5. \A v \in sent : Stale(c, v) => Stale(o, v)'
    BY <1>2, <1>9 DEF Stale, SendSteps
  <2>6. \A v \in sent : Stale(c, v) \/ pages[recips[v]] \in Expected(v)
    BY <1>2, <2>2 DEF One, Whole
  <2> QED
    BY <1>2, <1>9, <2>4, <2>5, <2>6, RowsRead DEF Whole, database
<1> QED
  BY <1>2, <1>8, <1>10, <1>11, <1>12, OneStep

LEMMA OneRewritePages ==
  ASSUME Alone, TypeOK, NEW p \in Procs, One(op[p]), RewritePages(p)
  PROVE  AloneInv'
<1>1. PICK c : c = op[p]
  OBVIOUS
<1>2. /\ c.at = "rewrite" /\ One(c) /\ c \in Rewriting
      /\ UNCHANGED <<database, manifest, records, history>>
  BY <1>1, OpShape DEF RewritePages, TypeOK, private
<1>3. Fits(c) /\ Rows /\ c.to = recips[c.v]
  BY <1>2 DEF One, Doing
<1>4. c.v \in sent /\ c.to \in Attempts /\ versionOf[c.to] = c.v
  <2>1. c.v \in sent
    BY <1>3, StatusMeans DEF Fits, StatusSays, Decided, Rows, Countersigned, ClientSigned
  <2> QED
    BY <1>2, <1>3, <2>1 DEF Rows, TypeOK, DatabaseOK, Rewriting
<1>5. /\ pages' \in {pages, [a \in Attempts |-> IF a = c.to THEN c.show ELSE pages[a]]}
      /\ \/ leftover' = TRUE
         \/ leftover' = leftover /\ pages' = [a \in Attempts |-> IF a = c.to THEN c.show ELSE pages[a]]
  BY <1>1 DEF RewritePages, Warned, troubles
<1>6. PICK o : o = AfterClosing(c)
  OBVIOUS
<1>7. /\ op' = [op EXCEPT ![p] = o]
      /\ c.next = "supersede" => o.at = "supersede" /\ o.v = c.v
      /\ c.next # "supersede" => o.at = "idle"
  BY <1>1, <1>6 DEF RewritePages, AfterClosing, Become, Idle
<1>8. Doing(o)
  BY <1>3, <1>7 DEF Doing, Fits, Verbs, SendSteps
<1>9. LinkedRecordExists'
  <2>1. c.show = "recorded" => c.v \in records
    BY <1>3 DEF Fits
  <2> QED
    BY <1>2, <1>4, <1>5, <2>1 DEF One, LinkedRecordExists, history
<1>10. Whole(o)'
  <2>1. SUFFICES ASSUME ~leftover' PROVE Whole(o)'
    BY DEF Whole
  <2>2. ~leftover /\ pages' = [a \in Attempts |-> IF a = c.to THEN c.show ELSE pages[a]]
    BY <1>5, <2>1
  <2>3. ManifestFits'
    <3>1. ~Opening(c)
      BY <1>2 DEF Opening, SendSteps
    <3>2. ManifestFits
      BY <1>2, <2>2, <3>1 DEF One, Whole
    <3> QED
      BY <1>2, <3>2, RowsRead DEF ManifestFits, Answerable, database, history
  <2>4. ASSUME NEW v \in sent, v # c.v
        PROVE  pages'[recips[v]] \in Expected(v)
    <3>1. ~Stale(c, v)
      BY <1>2, <2>4 DEF Stale
    <3>2. pages[recips[v]] \in Expected(v)
      BY <1>2, <2>2, <3>1 DEF One, Whole
    <3>3. recips[v] \in Attempts /\ recips[v] # c.to
      BY <1>3, <1>4, <2>4 DEF Rows, TypeOK, DatabaseOK
    <3> QED
      BY <2>2, <3>2, <3>3
  <2>5. c.show \in Expected(c.v)
    <3>1. CASE Status = "draft" /\ c.v = latest - 1 /\ c.show = "revising"
      <4>1. ~withdrawn /\ latest \notin sent
        BY <1>3, <3>1, StatusMeans DEF StatusSays
      <4>2. IsLatestSent(c.v) /\ c.v # latest
        BY <1>3, <1>4, <3>1, <4>1 DEF IsLatestSent, Rows, TypeOK, DatabaseOK, Versions
      <4> QED
        BY <3>1, <4>1, <4>2 DEF Expected
    <3>2. CASE withdrawn /\ c.show = "withdrawn"
      BY <3>2 DEF Expected
    <3> QED
      BY <1>3, <3>1, <3>2 DEF Fits
  <2>6. pages'[recips[c.v]] \in Expected(c.v)
    BY <1>3, <1>4, <2>2, <2>5
  <2>7. \A v \in sent : pages'[recips[v]] \in Expected(v)
    BY <2>4, <2>6
  <2> QED
    BY <1>2, <1>7, <2>3, <2>7, RowsRead DEF Whole, database
<1> QED
  BY <1>2, <1>7, <1>8, <1>9, <1>10, OneStep

-----------------------------------------------------------------------------
(* One process: what the operator records *)

\* Once the latest version is sent, every earlier one is superseded.
LEMMA EarlierPages ==
  ASSUME TypeOK, Rows, latest \in sent, ~withdrawn
  PROVE  /\ latest \in Nat /\ IsLatestSent(latest)
         /\ \A v \in sent : v \in Nat /\ (IsLatestSent(v) => v = latest)
         /\ \A v \in sent : v # latest => Expected(v) = {"superseded"}
<1>1. latest \in Nat /\ \A v \in sent : v \in Nat /\ v <= latest
  BY DEF Rows, TypeOK, DatabaseOK, Versions
<1>2. IsLatestSent(latest)
  BY <1>1 DEF IsLatestSent
<1>3. \A v \in sent : IsLatestSent(v) => v = latest
  BY <1>1 DEF IsLatestSent
<1> QED
  BY <1>1, <1>2, <1>3 DEF Expected

\* A change on the latest version leaves the manifest and its pages to follow.
LEMMA LatestChanges ==
  ASSUME TypeOK, Rows, latest \in sent, ~withdrawn, NEW c, Whole(c), NEW o,
         UNCHANGED <<latest, sent, recips, withdrawn, emailed, manifest, pages, leftover>>,
         \A v \in sent : v # latest => ~Stale(c, v),
         o.at \notin {"manifest", "email", "record", "recording"},
         Opening(o)', Stale(o, latest)'
  PROVE  Whole(o)'
<1>1. \A v \in sent : v # latest => Expected(v) = {"superseded"} /\ Expected(v)' = {"superseded"}
  <2>1. \A v \in sent : v # latest => ~IsLatestSent(v)
    BY EarlierPages
  <2> QED
    BY <2>1 DEF Expected, IsLatestSent
<1>2. ~leftover => \A v \in sent : v # latest => pages[recips[v]] \in Expected(v)
  BY DEF Whole
<1> QED
  BY <1>1, <1>2 DEF Whole

LEMMA OneStartVerb ==
  ASSUME Alone, TypeOK, NEW p \in Procs, One(op[p]), NEW verb \in Verbs, StartVerb(p, verb)
  PROVE  AloneInv'
<1>1. PICK o : o = [at |-> verb, bound |-> {v \in sent : IsLatestSent(v)}, torn |-> sent]
  OBVIOUS
<1>2. /\ One(Idle) /\ Allowed(verb)
      /\ op' = [op EXCEPT ![p] = o]
      /\ UNCHANGED <<database, manifest, pages, records, history, leftover>>
  BY <1>1 DEF StartVerb, Become, private, public, troubles
<1>3. o.at = verb /\ o.bound = {v \in sent : IsLatestSent(v)} /\ o.torn = sent
  BY <1>1
<1>4. Doing(o)
  BY <1>2, <1>3 DEF Doing, Verbs, SendSteps
<1>5. LinkedRecordExists'
  BY <1>2 DEF One, LinkedRecordExists, history
<1>6. Whole(o)'
  <2>1. ~Opening(Idle) /\ \A v \in sent : ~Stale(Idle, v)
    BY DEF Opening, Stale, Idle, SendSteps
  <2> QED
    BY <1>2, <1>3, <2>1, WholeKept DEF One, Verbs, history
<1> QED
  BY <1>2, <1>4, <1>5, <1>6, OneStep

\* A verb runs under the guard it was started with, on the version it was read for.
LEMMA VerbHolds ==
  ASSUME TypeOK, NEW c, One(c), c.at \in Verbs \ {"withdraw"}
  PROVE  /\ Allowed(c.at) /\ Rows /\ c.bound = {latest} /\ latest \in sent /\ latest \in Nat
         /\ ~withdrawn /\ ~declined
         /\ c.at # "countersign" => signed = {}
         /\ \A v : ~Stale(c, v)
<1>1. Allowed(c.at) /\ Rows /\ c.bound = {v \in sent : IsLatestSent(v)}
  BY DEF One, Doing
<1>2. /\ c.at = "countersign" => Status = "accepted"
      /\ c.at # "countersign" => Status \in {"sent", "changes_requested"}
  BY <1>1 DEF Allowed, AllowedFrom, Verbs
<1>3. latest \in sent /\ ~withdrawn /\ ~declined /\ (c.at # "countersign" => signed = {})
  BY <1>1, <1>2, StatusMeans DEF StatusSays, Rows, ClientSigned
<1>4. c.bound = {latest} /\ latest \in Nat
  BY <1>1, <1>3, EarlierPages
<1>5. \A v : ~Stale(c, v)
  BY DEF Stale, Verbs
<1> QED
  BY <1>1, <1>3, <1>4, <1>5

LEMMA OneRecordAccept ==
  ASSUME Alone, TypeOK, NEW p \in Procs, One(op[p]), RecordAccept(p)
  PROVE  AloneInv'
<1>1. PICK c : c = op[p]
  OBVIOUS
<1>2. /\ c.at = "accept" /\ c.at \in Verbs \ {"withdraw"} /\ One(c)
      /\ UNCHANGED <<latest, sent, recips, changes, declined, withdrawn, manifest, pages,
                     records, versionOf, emailed, sentBy, leftover>>
  BY <1>1 DEF RecordAccept, Verbs, private, public, history, troubles
<1>3. /\ Rows /\ c.bound = {latest} /\ latest \in sent /\ ~withdrawn /\ ~declined /\ signed = {}
      /\ \A v : ~Stale(c, v)
  BY <1>2, VerbHolds
<1>4. signed' = {[version |-> latest, link |-> None, role |-> "client"]}
  BY <1>1, <1>3 DEF RecordAccept, Signature, ManualRow
<1>5. PICK o : o = Loading(FALSE)
  OBVIOUS
<1>6. op' = [op EXCEPT ![p] = o] /\ o.at = "load" /\ o.linked = FALSE
  BY <1>5 DEF RecordAccept, Become, Loading
<1>7. Rows'
  <2>1. \A v : Answered(v)' = Answered(v)
    BY <1>2, <1>3, <1>4 DEF Answered
  <2>2. ClientSigned(latest)'
    BY <1>2, <1>4 DEF ClientSigned
  <2> QED
    BY <1>2, <1>3, <1>4, <2>1, <2>2 DEF Rows, OnlyTheSendCounts
<1>8. Status' = "accepted"
  <2>1. StatusSays(Status)'
    BY <1>7, StatusMeansNext
  <2>2. ClientSigned(latest)' /\ ~Countersigned(latest)'
    BY <1>2, <1>4 DEF ClientSigned, Countersigned
  <2> QED
    BY <2>1, <2>2 DEF StatusSays
<1>9. Doing(o)'
  BY <1>6, <1>8 DEF Doing, Decided, Verbs, SendSteps
<1>10. Whole(o)'
  BY <1>2, <1>3, <1>6, LatestChanges DEF One, Opening, Stale
<1>11. LinkedRecordExists'
  BY <1>2 DEF One, LinkedRecordExists
<1> QED
  BY <1>6, <1>7, <1>9, <1>10, <1>11, OneCommand DEF One, TypeOK

LEMMA OneRecordChangeRequest ==
  ASSUME Alone, TypeOK, NEW p \in Procs, One(op[p]), RecordChangeRequest(p)
  PROVE  AloneInv'
<1>1. PICK c : c = op[p]
  OBVIOUS
<1>2. /\ c.at = "request_changes" /\ c.at \in Verbs \ {"withdraw"} /\ One(c)
      /\ UNCHANGED <<latest, sent, recips, signed, declined, withdrawn, manifest, pages,
                     records, versionOf, emailed, sentBy, leftover>>
  BY <1>1 DEF RecordChangeRequest, Verbs, private, public, history, troubles
<1>3. /\ Rows /\ c.bound = {latest} /\ latest \in sent /\ ~withdrawn /\ ~declined /\ signed = {}
      /\ \A v : ~Stale(c, v)
  BY <1>2, VerbHolds
<1>4. changes' = changes \cup {[version |-> latest, link |-> None]}
  BY <1>1, <1>3 DEF RecordChangeRequest, ManualRow
<1>5. PICK o : o = Loading(FALSE)
  OBVIOUS
<1>6. op' = [op EXCEPT ![p] = o] /\ o.at = "load" /\ o.linked = FALSE
  BY <1>5 DEF RecordChangeRequest, Become, Loading
<1>7. Rows'
  <2>1. \A v : Answered(v)' = Answered(v)
    BY <1>2, <1>4 DEF Answered
  <2> QED
    BY <1>2, <1>3, <1>4, <2>1 DEF Rows, OnlyTheSendCounts
<1>8. Status' = "changes_requested"
  <2>1. StatusSays(Status)'
    BY <1>7, StatusMeansNext
  <2>2. PICK x : x = [version |-> latest, link |-> None]
    OBVIOUS
  <2>3. x \in changes' /\ x.version = latest
    BY <1>4, <2>2
  <2> QED
    BY <1>2, <1>3, <2>1, <2>3 DEF StatusSays
<1>9. Doing(o)'
  BY <1>6, <1>8 DEF Doing, Decided, Verbs, SendSteps
<1>10. Whole(o)'
  BY <1>2, <1>3, <1>6, LatestChanges DEF One, Opening, Stale
<1>11. LinkedRecordExists'
  BY <1>2 DEF One, LinkedRecordExists
<1> QED
  BY <1>6, <1>7, <1>9, <1>10, <1>11, OneCommand DEF One, TypeOK

LEMMA OneRecordDecline ==
  ASSUME Alone, TypeOK, NEW p \in Procs, One(op[p]), RecordDecline(p)
  PROVE  AloneInv'
<1>1. PICK c : c = op[p]
  OBVIOUS
<1>2. /\ c.at = "decline" /\ c.at \in Verbs \ {"withdraw"} /\ One(c) /\ declined' = TRUE
      /\ UNCHANGED <<latest, sent, recips, signed, changes, withdrawn, manifest, pages,
                     records, versionOf, emailed, sentBy, leftover>>
  BY <1>1 DEF RecordDecline, Verbs, private, public, history, troubles
<1>3. Rows /\ latest \in sent /\ ~withdrawn /\ signed = {} /\ \A v : ~Stale(c, v)
  BY <1>2, VerbHolds
<1>4. PICK o : o = Loading(FALSE)
  OBVIOUS
<1>5. op' = [op EXCEPT ![p] = o] /\ o.at = "load" /\ o.linked = FALSE
  BY <1>4 DEF RecordDecline, Become, Loading
<1>6. Rows'
  BY <1>2, <1>3 DEF Rows, OnlyTheSendCounts, Answered, ClientSigned, Linked
<1>7. Status' = "declined"
  <2>1. StatusSays(Status)'
    BY <1>6, StatusMeansNext
  <2> QED
    BY <1>2, <2>1 DEF StatusSays
<1>8. Doing(o)'
  BY <1>5, <1>7 DEF Doing, Decided, Verbs, SendSteps
<1>9. Whole(o)'
  BY <1>2, <1>3, <1>5, LatestChanges DEF One, Opening, Stale
<1>10. LinkedRecordExists'
  BY <1>2 DEF One, LinkedRecordExists
<1> QED
  BY <1>5, <1>6, <1>8, <1>9, <1>10, OneCommand DEF One, TypeOK

LEMMA OneRecordCountersign ==
  ASSUME Alone, TypeOK, NEW p \in Procs, One(op[p]), RecordCountersign(p)
  PROVE  AloneInv'
<1>1. PICK c : c = op[p]
  OBVIOUS
<1>2. /\ c.at = "countersign" /\ c.at \in Verbs \ {"withdraw"} /\ One(c)
      /\ UNCHANGED <<latest, sent, recips, changes, declined, withdrawn, manifest, pages,
                     records, versionOf, emailed, sentBy, leftover>>
  BY <1>1 DEF RecordCountersign, Verbs, private, public, history, troubles
<1>3. /\ Rows /\ c.bound = {latest} /\ latest \in sent /\ ~withdrawn /\ ~declined /\ Allowed(c.at)
      /\ \A v : ~Stale(c, v)
  BY <1>2, VerbHolds
<1>4. signed' = signed \cup {[version |-> latest, link |-> None, role |-> "countersign"]}
  BY <1>1, <1>3 DEF RecordCountersign, Signature, ManualRow
<1>5. PICK o : o = [at |-> "upload", v |-> latest]
  OBVIOUS
<1>6. op' = [op EXCEPT ![p] = o] /\ o.at = "upload" /\ o.v = latest
  BY <1>1, <1>3, <1>5 DEF RecordCountersign, Become
<1>7. ClientSigned(latest)
  <2>1. Status = "accepted"
    BY <1>2, <1>3 DEF Allowed, AllowedFrom
  <2>2. StatusSays(Status)
    BY <1>3, StatusMeans
  <2> QED
    BY <2>1, <2>2 DEF StatusSays
<1>8. Rows'
  <2>1. \A v : Answered(v)' = Answered(v)
    BY <1>2, <1>4 DEF Answered
  <2>2. ClientSigned(latest)'
    BY <1>2, <1>4, <1>7 DEF ClientSigned
  <2> QED
    BY <1>2, <1>3, <1>4, <2>1, <2>2 DEF Rows, OnlyTheSendCounts
<1>9. Status' = "executed"
  <2>1. StatusSays(Status)'
    BY <1>8, StatusMeansNext
  <2>2. Countersigned(latest)'
    <3>1. PICK s : s = [version |-> latest, link |-> None, role |-> "countersign"]
      OBVIOUS
    <3>2. s \in signed' /\ s.version = latest' /\ s.role = "countersign"
      BY <1>2, <1>4, <3>1
    <3> QED
      BY <3>2 DEF Countersigned
  <2> QED
    BY <2>1, <2>2 DEF StatusSays
<1>10. Doing(o)'
  BY <1>2, <1>6, <1>9 DEF Doing, Verbs, SendSteps
<1>11. Whole(o)'
  BY <1>2, <1>3, <1>6, LatestChanges DEF One, Opening, Stale
<1>12. LinkedRecordExists'
  BY <1>2 DEF One, LinkedRecordExists
<1> QED
  BY <1>6, <1>8, <1>10, <1>11, <1>12, OneCommand DEF One, TypeOK

LEMMA OneUploadRecord ==
  ASSUME Alone, TypeOK, NEW p \in Procs, One(op[p]), UploadRecord(p)
  PROVE  AloneInv'
<1>1. PICK c : c = op[p]
  OBVIOUS
<1>2. /\ c.at = "upload" /\ One(c)
      /\ UNCHANGED <<database, manifest, pages, history, leftover>>
  BY <1>1 DEF UploadRecord, private, troubles, Fault
<1>3. c.v = latest /\ Status = "executed"
  BY <1>2 DEF One, Doing
<1>4. PICK linked \in BOOLEAN :
        /\ op' = [op EXCEPT ![p] = Loading(linked)]
        /\ records \subseteq records' /\ (linked => latest \in records')
  BY <1>1, <1>3 DEF UploadRecord, Become
<1>5. PICK o : o = Loading(linked)
  OBVIOUS
<1>6. op' = [op EXCEPT ![p] = o] /\ o.at = "load" /\ o.linked = linked
  BY <1>4, <1>5 DEF Loading
<1>7. Rows'
  BY <1>2, RowsKept DEF One
<1>8. Doing(o)'
  BY <1>2, <1>3, <1>4, <1>6, RowsRead DEF Doing, Decided, database, Verbs, SendSteps
<1>9. LinkedRecordExists'
  BY <1>2, <1>4 DEF One, LinkedRecordExists, history
<1>10. Whole(o)'
  <2>1. Opening(o) /\ \A v \in sent : Stale(c, v) => Stale(o, v)
    BY <1>2, <1>6 DEF Opening, Stale
  <2> QED
    BY <1>2, <1>6, <2>1, WholeKept DEF One, history
<1> QED
  BY <1>6, <1>7, <1>8, <1>9, <1>10, OneCommand DEF One, TypeOK

LEMMA OneRegenerateRecord ==
  ASSUME Alone, TypeOK, NEW p \in Procs, One(op[p]), RegenerateRecord(p)
  PROVE  AloneInv'
<1>1. /\ One(Idle) /\ Status = "executed"
      /\ UNCHANGED <<database, manifest, pages, records, history, leftover>>
  BY DEF RegenerateRecord, private, public, troubles
<1>2. latest \in sent /\ ~withdrawn
  <2>1. StatusSays(Status) /\ Rows
    BY <1>1, StatusMeans DEF One
  <2>2. Countersigned(latest)
    BY <1>1, <2>1 DEF StatusSays
  <2> QED
    BY <2>1, <2>2 DEF Rows, Countersigned
<1>3. PICK v \in sent : IsLatestSent(v) /\ op' = [op EXCEPT ![p] = [at |-> "upload", v |-> v]]
  BY DEF RegenerateRecord, Become
<1>4. v = latest
  BY <1>1, <1>2, <1>3, EarlierPages DEF One
<1>5. PICK o : o = [at |-> "upload", v |-> latest]
  OBVIOUS
<1>6. op' = [op EXCEPT ![p] = o] /\ o.at = "upload" /\ o.v = latest
  BY <1>3, <1>4, <1>5
<1>7. Doing(o)
  BY <1>1, <1>6 DEF Doing, Verbs, SendSteps
<1>8. LinkedRecordExists'
  BY <1>1 DEF One, LinkedRecordExists, history
<1>9. Whole(o)'
  <2>1. ~Opening(Idle) /\ \A w \in sent : ~Stale(Idle, w)
    BY DEF Opening, Stale, Idle, SendSteps
  <2> QED
    BY <1>1, <1>6, <2>1, WholeKept DEF One, history
<1> QED
  BY <1>1, <1>6, <1>7, <1>8, <1>9, OneStep

LEMMA OneAddVersion ==
  ASSUME Alone, TypeOK, NEW p \in Procs, One(op[p]), AddVersion(p)
  PROVE  AloneInv'
<1>1. PICK c : c = op[p]
  OBVIOUS
<1>2. /\ c.at = "revise" /\ c.at \in Verbs \ {"withdraw"} /\ One(c) /\ latest' = latest + 1
      /\ UNCHANGED <<sent, recips, signed, changes, declined, withdrawn, manifest, pages,
                     records, versionOf, emailed, sentBy, leftover>>
  BY <1>1 DEF AddVersion, Verbs, private, public, history, troubles
<1>3. /\ Rows /\ c.bound = {latest} /\ latest \in sent /\ latest \in Nat
      /\ ~withdrawn /\ ~declined /\ signed = {}
      /\ \A v : ~Stale(c, v)
  BY <1>2, VerbHolds
<1>4. PICK o : o = Closing(latest, "revising", "idle")
  OBVIOUS
<1>5. /\ op' = [op EXCEPT ![p] = o]
      /\ o.at = "close" /\ o.v = latest /\ o.show = "revising" /\ o.next = "idle"
  BY <1>1, <1>3, <1>4 DEF AddVersion, Become, Closing
<1>6. 1..latest \subseteq sent /\ sent \subseteq 1..latest
  <2>1. 1..latest - 1 \subseteq sent /\ sent \subseteq 1..latest
    BY <1>3 DEF Rows
  <2> QED
    BY <1>3, <2>1
<1>7. latest' - 1 = latest /\ latest' \notin sent
  BY <1>2, <1>3, <1>6
<1>8. Rows'
  <2>1. 1..latest' - 1 \subseteq sent' /\ sent' \subseteq 1..latest'
    BY <1>2, <1>3, <1>6, <1>7
  <2> QED
    BY <1>2, <1>3, <2>1 DEF Rows, OnlyTheSendCounts, Answered
<1>9. Status' = "draft"
  <2>1. StatusSays(Status)'
    BY <1>8, StatusMeansNext
  <2> QED
    BY <1>2, <1>3, <1>7, <2>1 DEF StatusSays
<1>10. Doing(o)'
  BY <1>2, <1>3, <1>5, <1>7, <1>9 DEF Doing, Fits, Verbs, SendSteps
<1>11. LinkedRecordExists'
  BY <1>2 DEF One, LinkedRecordExists
<1>12. Whole(o)'
  <2>1. \A v \in sent : v # latest => Expected(v) = {"superseded"} /\ Expected(v)' = {"superseded"}
    <3>1. \A v \in sent : v # latest => ~IsLatestSent(v)
      BY <1>3, EarlierPages
    <3> QED
      BY <1>2, <1>3, <3>1 DEF Expected, IsLatestSent
  <2>2. ~leftover => \A v \in sent : v # latest => pages[recips[v]] \in Expected(v)
    BY <1>2, <1>3 DEF One, Whole
  <2>3. Opening(o)'
    BY <1>5 DEF Opening
  <2>4. \A v \in sent : v = latest => Stale(o, v)'
    BY <1>5, <1>2 DEF Stale
  <2> QED
    BY <1>2, <1>5, <2>1, <2>2, <2>3, <2>4 DEF Whole
<1> QED
  BY <1>5, <1>8, <1>10, <1>11, <1>12, OneCommand DEF One, TypeOK

LEMMA OneRecordWithdrawal ==
  ASSUME Alone, TypeOK, NEW p \in Procs, One(op[p]), RecordWithdrawal(p)
  PROVE  AloneInv'
<1>1. PICK c : c = op[p]
  OBVIOUS
<1>2. /\ c.at = "withdraw" /\ c.at \in Verbs /\ One(c) /\ withdrawn' = TRUE
      /\ UNCHANGED <<latest, sent, recips, signed, changes, declined, manifest, pages,
                     records, versionOf, emailed, sentBy, leftover>>
  BY <1>1 DEF RecordWithdrawal, Verbs, private, public, history, troubles
<1>3. /\ Rows /\ Allowed(c.at) /\ c.torn = sent
      /\ ~Opening(c) /\ \A v : ~Stale(c, v)
  BY <1>2 DEF One, Doing, Opening, Stale, SendSteps
<1>4. Status \in {"draft", "sent", "changes_requested"}
  BY <1>2, <1>3 DEF Allowed, AllowedFrom
<1>5. /\ signed = {} /\ ~declined
      /\ sent = {} => Status = "draft"
  <2>1. StatusSays(Status) /\ latest \in Versions
    BY <1>3, StatusMeans DEF TypeOK, DatabaseOK
  <2> QED
    BY <1>3, <1>4, <2>1 DEF StatusSays, Rows
<1>6. PICK o : o = [at |-> "teardown", torn |-> sent]
  OBVIOUS
<1>7. op' = [op EXCEPT ![p] = o] /\ o.at = "teardown" /\ o.torn = sent
  BY <1>1, <1>3, <1>6 DEF RecordWithdrawal, Become
<1>8. Rows'
  BY <1>2, <1>3, <1>5 DEF Rows, OnlyTheSendCounts, Answered
<1>9. Status' = "withdrawn"
  BY <1>2 DEF Status
<1>10. Doing(o)'
  BY <1>2, <1>7 DEF Doing, Verbs, SendSteps
<1>11. LinkedRecordExists'
  BY <1>2 DEF One, LinkedRecordExists
<1>12. Whole(o)'
  <2>1. \A v \in sent' : Stale(o, v)'
    BY <1>2, <1>7 DEF Stale
  <2>2. ~leftover /\ ~Opening(o)' => ManifestFits'
    <3>1. ~Opening(o)' => sent = {}
      BY <1>7 DEF Opening
    <3>2. ~leftover /\ sent = {} => ~Answerable
      BY <1>2, <1>3, <1>5 DEF One, Whole, ManifestFits
    <3> QED
      BY <1>2, <1>9, <3>1, <3>2 DEF ManifestFits, Answerable
  <2> QED
    BY <1>2, <1>7, <2>1, <2>2 DEF Whole
<1> QED
  BY <1>7, <1>8, <1>10, <1>11, <1>12, OneCommand DEF One, TypeOK

LEMMA OneTearDown ==
  ASSUME Alone, TypeOK, NEW p \in Procs, One(op[p]), TearDown(p)
  PROVE  AloneInv'
<1>1. PICK c : c = op[p]
  OBVIOUS
<1>2. /\ c.at = "teardown" /\ One(c) /\ Rows /\ withdrawn /\ c.torn \subseteq sent
      /\ UNCHANGED <<database, manifest, records, history>>
  BY <1>1 DEF TearDown, One, Doing, private
<1>3. CASE c.torn = {} /\ op' = [op EXCEPT ![p] = Idle] /\ pages' = pages /\ leftover' = leftover
  <2>1. Doing(Idle)
    BY DEF Doing, Idle, Verbs, SendSteps
  <2>2. LinkedRecordExists'
    BY <1>2, <1>3 DEF One, LinkedRecordExists, history
  <2>3. ~Opening(c) /\ \A v \in sent : ~Stale(c, v)
    BY <1>2, <1>3 DEF Opening, Stale, SendSteps
  <2>4. Whole(Idle)'
    BY <1>2, <1>3, <2>3, WholeKept DEF One, Idle, history
  <2> QED
    BY <1>2, <1>3, <2>1, <2>2, <2>4, OneStep
<1>4. ASSUME NEW v \in c.torn, c.torn = {v}, op' = [op EXCEPT ![p] = Closing(v, "withdrawn", "idle")],
             pages' = pages, leftover' = leftover
      PROVE  AloneInv'
  <2>1. PICK o : o = Closing(v, "withdrawn", "idle")
    OBVIOUS
  <2>2. o.at = "close" /\ o.v = v /\ o.show = "withdrawn" /\ o.next = "idle"
    BY <2>1 DEF Closing
  <2>3. Doing(o)
    BY <1>2, <1>4, <2>2 DEF Doing, Fits, Verbs, SendSteps
  <2>4. LinkedRecordExists'
    BY <1>2, <1>4 DEF One, LinkedRecordExists, history
  <2>5. Opening(o) /\ \A w \in sent : Stale(c, w) => Stale(o, w)
    BY <1>2, <1>4, <2>2 DEF Opening, Stale, SendSteps
  <2>6. Whole(o)'
    BY <1>2, <1>4, <2>2, <2>5, WholeKept DEF One, history
  <2> QED
    BY <1>2, <1>4, <2>1, <2>3, <2>4, <2>6, OneStep
<1>5. ASSUME NEW v \in c.torn, c.torn # {v},
             op' = [op EXCEPT ![p] = [at |-> "teardown", torn |-> c.torn \ {v}]],
             pages' \in {pages, [a \in Attempts |-> IF a = recips[v] THEN "withdrawn" ELSE pages[a]]},
             \/ leftover' = TRUE
             \/ /\ leftover' = leftover
                /\ pages' = [a \in Attempts |-> IF a = recips[v] THEN "withdrawn" ELSE pages[a]]
      PROVE  AloneInv'
  <2>1. PICK o : o = [at |-> "teardown", torn |-> c.torn \ {v}]
    OBVIOUS
  <2>2. o.at = "teardown" /\ o.torn = c.torn \ {v} /\ o.torn # {}
    BY <1>5, <2>1
  <2>3. Doing(o)
    BY <1>2, <2>2 DEF Doing, Verbs, SendSteps
  <2>4. LinkedRecordExists'
    BY <1>2, <1>5 DEF One, LinkedRecordExists, history
  <2>5. Whole(o)'
    <3>1. SUFFICES ASSUME ~leftover' PROVE Whole(o)'
      BY DEF Whole
    <3>2. /\ ~leftover
          /\ pages' = [a \in Attempts |-> IF a = recips[v] THEN "withdrawn" ELSE pages[a]]
      BY <1>5, <3>1
    <3>3. \A w \in sent : recips[w] \in Attempts /\ versionOf[recips[w]] = w
      BY <1>2 DEF Rows, TypeOK, DatabaseOK
    <3>4. \A w \in sent : Expected(w) = {"withdrawn"}
      BY <1>2 DEF Expected
    <3>5. pages'[recips[v]] = "withdrawn"
      BY <1>2, <3>2, <3>3
    <3>6. \A w \in sent : w # v => pages'[recips[w]] = pages[recips[w]]
      BY <1>2, <3>2, <3>3
    <3>7. \A w \in sent : w # v => (Stale(c, w) => Stale(o, w)')
      BY <1>2, <2>2 DEF Stale, SendSteps
    <3>8. \A w \in sent : Stale(o, w)' \/ pages'[recips[w]] \in Expected(w)
      BY <1>2, <3>2, <3>4, <3>5, <3>6, <3>7 DEF One, Whole
    <3>9. Opening(o)'
      BY <2>2 DEF Opening
    <3> QED
      BY <1>2, <2>2, <3>8, <3>9, RowsRead DEF Whole, database
  <2> QED
    BY <1>2, <1>5, <2>1, <2>3, <2>4, <2>5, OneStep
<1> QED
  BY <1>1, <1>3, <1>4, <1>5 DEF TearDown, Become, Warned, troubles

-----------------------------------------------------------------------------
(* One process: sync, and what happens to a command from outside *)

LEMMA OneStartSync ==
  ASSUME Alone, TypeOK, NEW p \in Procs, One(op[p]), StartSync(p)
  PROVE  AloneInv'
<1>1. PICK o : o = [at |-> "sync"]
  OBVIOUS
<1>2. /\ One(Idle) /\ Status \in {"sent", "changes_requested"}
      /\ op' = [op EXCEPT ![p] = o] /\ o.at = "sync"
      /\ UNCHANGED <<database, manifest, pages, records, history, leftover>>
  BY <1>1 DEF StartSync, Become, private, public, troubles
<1>3. Doing(o)
  BY <1>2 DEF Doing, Verbs, SendSteps
<1>4. LinkedRecordExists'
  BY <1>2 DEF One, LinkedRecordExists, history
<1>5. Whole(o)'
  <2>1. ~Opening(Idle) /\ \A v \in sent : ~Stale(Idle, v)
    BY DEF Opening, Stale, Idle, SendSteps
  <2> QED
    BY <1>2, <2>1, WholeKept DEF One, history
<1> QED
  BY <1>2, <1>3, <1>4, <1>5, OneStep

LEMMA OneLoadSync ==
  ASSUME Alone, TypeOK, NEW p \in Procs, One(op[p]), LoadSync(p)
  PROVE  AloneInv'
<1>1. PICK c : c = op[p]
  OBVIOUS
<1>2. /\ c.at = "sync" /\ One(c) /\ Rows /\ Status \in {"sent", "changes_requested"}
      /\ UNCHANGED <<database, manifest, pages, records, history, leftover>>
  BY <1>1 DEF LoadSync, One, Doing, private, public, troubles
<1>3. PICK v \in sent :
        /\ IsLatestSent(v)
        /\ op' = [op EXCEPT ![p] = [at |-> "fetch", v |-> v, was |-> Status,
                                    left |-> Live(v) \ Answered(v), got |-> {}]]
  BY <1>1 DEF LoadSync, Become
<1>4. latest \in sent /\ ~withdrawn
  <2>1. StatusSays(Status)
    BY <1>2, StatusMeans
  <2> QED
    BY <1>2, <2>1 DEF StatusSays
<1>5. v = latest
  BY <1>2, <1>3, <1>4, EarlierPages
<1>6. PICK o : o = [at |-> "fetch", v |-> v, was |-> Status,
                    left |-> Live(v) \ Answered(v), got |-> {}]
  OBVIOUS
<1>7. op' = [op EXCEPT ![p] = o] /\ o.at = "fetch" /\ o.v = latest /\ o.was = Status
  BY <1>3, <1>5, <1>6
<1>8. Doing(o)
  BY <1>2, <1>7 DEF Doing, Verbs, SendSteps
<1>9. LinkedRecordExists'
  BY <1>2 DEF One, LinkedRecordExists, history
<1>10. Whole(o)'
  <2>1. ~Opening(c) /\ \A w \in sent : ~Stale(c, w)
    BY <1>2 DEF Opening, Stale, SendSteps
  <2> QED
    BY <1>2, <1>7, <2>1, WholeKept DEF One, history
<1> QED
  BY <1>2, <1>7, <1>8, <1>9, <1>10, OneStep

LEMMA OneFetchAnswer ==
  ASSUME Alone, TypeOK, NEW p \in Procs, One(op[p]), FetchAnswer(p)
  PROVE  AloneInv'
<1>1. PICK c : c = op[p]
  OBVIOUS
<1>2. /\ c.at = "fetch" /\ One(c) /\ c \in Pulling
      /\ UNCHANGED <<database, manifest, pages, records, history, leftover>>
  BY <1>1, OpShape DEF FetchAnswer, TypeOK, Fault, private, public, troubles
<1>3. PICK o : /\ op' = [op EXCEPT ![p] = o]
               /\ \/ o = Idle
                  \/ o.at \in {"fetch", "pull"} /\ o.v = c.v /\ o.was = c.was
  <2>1. CASE op' = [op EXCEPT ![p].at = "pull"]
    <3>1. PICK o : o = [c EXCEPT !.at = "pull"]
      OBVIOUS
    <3>2. op' = [op EXCEPT ![p] = o] /\ o.at = "pull" /\ o.v = c.v /\ o.was = c.was
      BY <1>1, <1>2, <2>1, <3>1 DEF Pulling
    <3> QED
      BY <3>2
  <2>2. ASSUME NEW l, op' = [op EXCEPT ![p].left = @ \ {l},
                                       ![p].got = IF answers[l] = None THEN @ ELSE @ \cup {l}]
        PROVE  \E o : /\ op' = [op EXCEPT ![p] = o]
                      /\ o.at \in {"fetch", "pull"} /\ o.v = c.v /\ o.was = c.was
    <3>1. PICK o : o = [c EXCEPT !.left = @ \ {l},
                                 !.got = IF answers[l] = None THEN @ ELSE @ \cup {l}]
      OBVIOUS
    <3>2. op' = [op EXCEPT ![p] = o]
      BY <1>1, <2>2, <3>1
    <3>3. o.at = "fetch" /\ o.v = c.v /\ o.was = c.was
      BY <1>2, <3>1 DEF Pulling
    <3> QED
      BY <3>2, <3>3
  <2>3. CASE op' = [op EXCEPT ![p] = Idle]
    BY <2>3
  <2> QED
    BY <1>1, <2>1, <2>2, <2>3 DEF FetchAnswer, Move, Become
<1>4. o.at \in {"idle", "fetch", "pull"} /\ (o.at # "idle" => o.v = c.v /\ o.was = c.was)
  BY <1>3 DEF Idle
<1>5. /\ c.was = Status /\ c.v = latest /\ c.was \in {"sent", "changes_requested"}
      /\ Status \in {"sent", "accepted", "changes_requested"}
  BY <1>2 DEF One, Doing
<1>6. Doing(o)
  BY <1>4, <1>5 DEF Doing, Verbs, SendSteps
<1>7. LinkedRecordExists'
  BY <1>2 DEF One, LinkedRecordExists, history
<1>8. Whole(o)'
  <2>1. ~Opening(c) /\ \A v \in sent : ~Stale(c, v)
    BY <1>2 DEF Opening, Stale, SendSteps
  <2> QED
    BY <1>2, <1>4, <2>1, WholeKept DEF One, history
<1> QED
  BY <1>2, <1>3, <1>6, <1>7, <1>8, OneStep

LEMMA OneRecordOnlineResponse ==
  ASSUME Alone, TypeOK, NEW p \in Procs, One(op[p]), RecordOnlineResponse(p)
  PROVE  AloneInv'
<1>1. PICK c : c = op[p]
  OBVIOUS
<1>2. /\ c.at = "pull" /\ One(c) /\ Rows /\ c \in Pulling
      /\ c.v = latest /\ c.was \in {"sent", "changes_requested"}
      /\ (c.was = "changes_requested" => Status = "changes_requested")
      /\ UNCHANGED <<latest, sent, recips, declined, withdrawn, manifest, pages,
                     records, versionOf, emailed, sentBy, leftover>>
  BY <1>1, OpShape DEF RecordOnlineResponse, One, Doing, TypeOK, private, public, history, troubles
<1>3. PICK l \in c.got :
        /\ op' = [op EXCEPT ![p].got = @ \ {l}]
        /\ \/ /\ Records(latest, l)
              /\ signed' = signed \cup {[version |-> latest, link |-> l, role |-> "client"]}
              /\ changes' = changes
           \/ /\ Records(latest, l)
              /\ changes' = changes \cup {[version |-> latest, link |-> l]}
              /\ signed' = signed
           \/ signed' = signed /\ changes' = changes
  BY <1>1, <1>2 DEF RecordOnlineResponse, Signature
<1>4. PICK o : o = [c EXCEPT !.got = @ \ {l}]
  OBVIOUS
<1>5. op' = [op EXCEPT ![p] = o]
  BY <1>1, <1>3, <1>4
<1>6. o.at = "pull" /\ o.v = latest /\ o.was = c.was
  BY <1>2, <1>4 DEF Pulling
<1>7. CASE signed' = signed /\ changes' = changes
  <2>1. UNCHANGED database /\ UNCHANGED history /\ UNCHANGED <<manifest, pages, records, leftover>>
    BY <1>2, <1>7 DEF database, history
  <2>2. Doing(o)
    BY <1>2, <1>6 DEF One, Doing, Verbs, SendSteps
  <2>3. LinkedRecordExists'
    BY <1>2 DEF One, LinkedRecordExists
  <2>4. Whole(o)'
    <3>1. (Opening(c) => Opening(o)) /\ \A v \in sent : Stale(c, v) => Stale(o, v)
      BY <1>2, <1>6 DEF Opening, Stale, SendSteps
    <3> QED
      BY <1>2, <1>6, <2>1, <3>1, WholeKept DEF One, history
  <2> QED
    BY <1>2, <1>5, <2>1, <2>2, <2>3, <2>4, OneStep
<1>8. CASE Records(latest, l)
  <2>1. recips[latest] = l[1] /\ latest \in sent /\ Status = "sent"
    BY <1>8 DEF Records, OnVersion, IsLatestSent
  <2>2. /\ ~withdrawn /\ ~declined /\ signed = {}
        /\ c.was = "sent"
    <3>1. StatusSays(Status)
      BY <1>2, StatusMeans
    <3> QED
      BY <1>2, <2>1, <3>1 DEF StatusSays
  <2>3. l[1] = sentBy[latest] /\ latest \in Versions
    BY <1>2, <2>1 DEF Rows, TypeOK, DatabaseOK
  <2>4. ~Stale(c, latest) /\ ~Opening(c) /\ \A v \in sent : v # latest => ~Stale(c, v)
    BY <1>2, <2>1, <2>2 DEF Stale, Opening, SendSteps
  <2>5. CASE /\ signed' = signed \cup {[version |-> latest, link |-> l, role |-> "client"]}
             /\ changes' = changes
    <3>1. PICK s : s = [version |-> latest, link |-> l, role |-> "client"]
      OBVIOUS
    <3>2. signed' = {s} /\ s.version = latest /\ s.link = l /\ s.role = "client"
      BY <2>2, <2>5, <3>1
    <3>3. OnlyTheSendCounts'
      <4>1. \A v \in Versions : \A k \in Answered(v)' : k \in Answered(v) \/ (v = latest /\ k = l)
        BY <2>2, <2>5, <3>2 DEF Answered
      <4> QED
        BY <1>2, <2>3, <4>1 DEF Rows, OnlyTheSendCounts
    <3>4. ClientSigned(latest)' /\ ~Countersigned(latest)'
      BY <1>2, <3>2 DEF ClientSigned, Countersigned
    <3>5. Rows'
      BY <1>2, <2>1, <2>2, <2>5, <3>2, <3>3, <3>4 DEF Rows
    <3>6. Status' = "accepted"
      BY <3>4, <3>5, StatusMeansNext DEF StatusSays
    <3>7. Doing(o)'
      BY <1>2, <1>6, <2>2, <3>6 DEF Doing, Verbs, SendSteps
    <3>8. Whole(o)'
      BY <1>2, <1>6, <2>1, <2>2, <2>4, <3>6, LatestChanges DEF One, Opening, Stale
    <3>9. LinkedRecordExists'
      BY <1>2 DEF One, LinkedRecordExists
    <3> QED
      BY <1>5, <3>5, <3>7, <3>8, <3>9, OneCommand DEF One, TypeOK
  <2>6. CASE changes' = changes \cup {[version |-> latest, link |-> l]} /\ signed' = signed
    <3>1. PICK x : x = [version |-> latest, link |-> l]
      OBVIOUS
    <3>2. changes' = changes \cup {x} /\ x.version = latest /\ x.link = l
      BY <2>6, <3>1
    <3>3. OnlyTheSendCounts'
      <4>1. \A v \in Versions : \A k \in Answered(v)' : k \in Answered(v) \/ (v = latest /\ k = l)
        BY <2>6, <3>2 DEF Answered
      <4> QED
        BY <1>2, <2>3, <4>1 DEF Rows, OnlyTheSendCounts
    <3>4. Rows'
      BY <1>2, <2>1, <2>2, <2>6, <3>2, <3>3 DEF Rows
    <3>5. Status' = "changes_requested"
      <4>1. StatusSays(Status)'
        BY <3>4, StatusMeansNext
      <4> QED
        BY <1>2, <2>1, <2>2, <2>6, <3>2, <4>1 DEF StatusSays
    <3>6. Doing(o)'
      BY <1>2, <1>6, <2>2, <3>5 DEF Doing, Verbs, SendSteps
    <3>7. Whole(o)'
      BY <1>2, <1>6, <2>1, <2>2, <2>4, <3>5, LatestChanges DEF One, Opening, Stale
    <3>8. LinkedRecordExists'
      BY <1>2 DEF One, LinkedRecordExists
    <3> QED
      BY <1>5, <3>4, <3>6, <3>7, <3>8, OneCommand DEF One, TypeOK
  <2> QED
    BY <1>3, <1>7, <2>5, <2>6
<1> QED
  BY <1>3, <1>7, <1>8

LEMMA OneFinishSync ==
  ASSUME Alone, TypeOK, NEW p \in Procs, One(op[p]), FinishSync(p)
  PROVE  AloneInv'
<1>1. PICK c : c = op[p]
  OBVIOUS
<1>2. /\ c.at = "pull" /\ One(c)
      /\ UNCHANGED <<database, manifest, pages, records, history, leftover>>
  BY <1>1 DEF FinishSync, private, public, troubles
<1>3. /\ c.was \in {"sent", "changes_requested"} /\ Status \in {"sent", "accepted", "changes_requested"}
      /\ (c.was = "changes_requested" => Status = "changes_requested")
  BY <1>2 DEF One, Doing
<1>4. PICK o : o = IF Status = c.was THEN Idle ELSE Loading(FALSE)
  OBVIOUS
<1>5. /\ op' = [op EXCEPT ![p] = o]
      /\ Status = c.was => o.at = "idle"
      /\ Status # c.was => o.at = "load" /\ o.linked = FALSE
  BY <1>1, <1>4 DEF FinishSync, Become, Idle, Loading
<1>6. Doing(o)
  BY <1>3, <1>5 DEF Doing, Decided, Verbs, SendSteps
<1>7. LinkedRecordExists'
  BY <1>2 DEF One, LinkedRecordExists, history
<1>8. Whole(o)'
  <2>1. (Opening(c) => Opening(o)) /\ \A v \in sent : Stale(c, v) => Stale(o, v)
    BY <1>2, <1>5 DEF Opening, Stale, SendSteps
  <2>2. o.at \in {"idle", "load"}
    BY <1>5
  <2> QED
    BY <1>2, <2>1, <2>2, WholeKept DEF One, history
<1> QED
  BY <1>2, <1>5, <1>6, <1>7, <1>8, OneStep

LEMMA OneCrash ==
  ASSUME Alone, TypeOK, NEW p \in Procs, One(op[p]), Crash(p)
  PROVE  AloneInv'
<1>1. /\ UNCHANGED database /\ UNCHANGED history /\ UNCHANGED <<manifest, pages, records>>
      /\ op' = [op EXCEPT ![p] = Idle] /\ leftover' = TRUE
  BY DEF Crash, Become, private, public
<1>2. Doing(Idle)
  BY DEF Doing, Idle, Verbs, SendSteps
<1>3. LinkedRecordExists' /\ Whole(Idle)'
  BY <1>1 DEF One, LinkedRecordExists, Whole, history
<1> QED
  BY <1>1, <1>2, <1>3, OneStep

\* What the Worker keeps of the browsers' requests is its own.
LEMMA OneServes ==
  ASSUME AloneInv, UNCHANGED <<database, manifest, public, op, history, leftover>>
  PROVE  AloneInv'
<1>1. ASSUME NEW c, One(c) PROVE One(c)'
  <2>1. UNCHANGED <<records, pages, emailed>>
    BY DEF public, history
  <2>2. Rows' /\ Doing(c)'
    BY <1>1, <2>1, RowsKept, DoingKept DEF One
  <2>3. LinkedRecordExists'
    BY <1>1, <2>1 DEF One, LinkedRecordExists, history
  <2>4. Whole(c)'
    BY <1>1, <2>1, WholeKept DEF One
  <2> QED
    BY <2>2, <2>3, <2>4 DEF One
<1>2. op' = op
  OBVIOUS
<1>3. \A c : One(c) => One(c)'
  BY <1>1
<1>4. \A p \in Procs : One(op[p])'
  <2> SUFFICES ASSUME NEW p \in Procs PROVE One(op[p])'
    OBVIOUS
  <2>1. PICK c : c = op[p]
    OBVIOUS
  <2>2. One(c)'
    BY <1>3, <2>1 DEF AloneInv
  <2>3. op'[p] = c
    BY <1>2, <2>1
  <2> QED
    BY <2>2, <2>3
<1>5. Procs = {} => One(Idle)'
  BY <1>3 DEF AloneInv
<1> QED
  BY <1>4, <1>5 DEF AloneInv

LEMMA AloneInit == ASSUME Init PROVE AloneInv
<1>1. 1..latest - 1 = {}
  BY DEF Init
<1>2. Rows
  BY <1>1 DEF Init, Rows, OnlyTheSendCounts, Answered
<1>3. LinkedRecordExists
  BY ShowsAssumption DEF Init, LinkedRecordExists, Shows
<1>4. Doing(Idle)
  BY DEF Doing, Idle, Verbs, SendSteps
<1>5. Whole(Idle)
  <2>1. Status = "draft"
    BY DEF Init, Status
  <2> QED
    BY <2>1 DEF Init, Whole, ManifestFits, Answerable, Idle
<1>6. One(Idle)
  BY <1>2, <1>3, <1>4, <1>5 DEF One
<1>7. \A p \in Procs : op[p] = Idle
  BY DEF Init
<1> QED
  BY <1>6, <1>7 DEF AloneInv

LEMMA AloneStep == ASSUME Alone, TypeOK, AloneInv, [Next]_vars PROVE AloneInv'
<1>1. ASSUME NEW p \in Procs,
             \/ StartSend(p) \/ StartSync(p) \/ RegenerateRecord(p)
             \/ (\E verb \in Verbs : StartVerb(p, verb))
             \/ Continue(p) \/ Crash(p)
      PROVE  AloneInv'
  <2>1. One(op[p])
    BY DEF AloneInv
  <2>2. CASE \/ StartSend(p) \/ StartSync(p) \/ RegenerateRecord(p)
             \/ (\E verb \in Verbs : StartVerb(p, verb)) \/ Crash(p)
    BY <2>1, <2>2, OneStartSend, OneStartSync, OneRegenerateRecord, OneStartVerb, OneCrash
  <2>3. CASE Continue(p)
    BY <2>1, <2>3, OneEnsureLatestUnsent, OneFreezeRecipients, OnePublishPages, OneOpenManifest,
       OneEmailLink, OneSendFails, OneMarkSent, OneUnfreeze, OneUnopenManifest, OneSupersede,
       OneRepublishLoad, OneCloseManifest, OneRewritePages, OneRecordAccept,
       OneRecordChangeRequest, OneRecordDecline, OneRecordCountersign, OneUploadRecord,
       OneAddVersion, OneRecordWithdrawal, OneTearDown, OneLoadSync, OneFetchAnswer,
       OneRecordOnlineResponse, OneFinishSync DEF Continue
  <2> QED
    BY <1>1, <2>2, <2>3
<1>2. CASE UNCHANGED vars
  BY <1>2, OneServes DEF vars, private, troubles
<1>3. ASSUME NEW b \in Browsers,
             (\E l \in Links, action \in Answers : ReadManifest(b, l, action)) \/ Respond(b)
      PROVE  AloneInv'
  BY <1>3, OneServes DEF ReadManifest, Respond, ReadClosed, StoreAnswer, MarkClosed, Fault,
     private, troubles
<1> QED
  BY <1>1, <1>2, <1>3 DEF Next

\* With one process at work every state is one the command it runs can rely on.
THEOREM AloneInvariant == Alone /\ Spec => []AloneInv
<1>1. Alone => [](Alone)
  OBVIOUS
<1>2. TypeOK /\ Alone /\ AloneInv /\ [Next]_vars => AloneInv'
  BY AloneStep
<1> QED
  BY <1>1, <1>2, AloneInit, TypeCorrect, PTL DEF Spec

LEMMA AloneMeans ==
  ASSUME AloneInv
  PROVE  /\ Rows /\ LinkedRecordExists
         /\ (\A p \in Procs : op[p] = Idle) => Whole(Idle)
<1>1. CASE Procs = {}
  BY <1>1 DEF AloneInv, One
<1>2. CASE Procs # {}
  <2>1. PICK p \in Procs : One(op[p])
    BY <1>2 DEF AloneInv
  <2> QED
    BY <2>1 DEF One
<1> QED
  BY <1>1, <1>2

\* With one process at work, the links of a send that rolled back or was killed
\* never count.
THEOREM OnlySendsCount == Alone /\ Spec => []OnlyTheSendCounts
<1>1. AloneInv => OnlyTheSendCounts
  BY AloneMeans DEF Rows
<1> QED
  BY <1>1, AloneInvariant, PTL

\* With one process at work, a version is marked sent only when every recipient
\* was mailed their own link.
THEOREM SentToEveryone == Alone /\ Spec => []SentReachedEveryone
<1>1. AloneInv => SentReachedEveryone
  BY AloneMeans DEF Rows, SentReachedEveryone, Linked
<1> QED
  BY <1>1, AloneInvariant, PTL

\* With one process at work, no page links a signing record that is not there.
THEOREM LinkedRecordsExist == Alone /\ Spec => []LinkedRecordExists
<1>1. AloneInv => LinkedRecordExists
  BY AloneMeans
<1> QED
  BY <1>1, AloneInvariant, PTL

\* With one process at work, between commands that were not cut short the
\* manifest answers the latest version's recipients while the document is sent,
\* and nobody who holds a link otherwise.
THEOREM ManifestTrue == Alone /\ Spec => []ManifestTellsTheTruth
<1>1. AloneInv => ManifestTellsTheTruth
  <2> SUFFICES ASSUME AloneInv, Quiet, ~leftover
               PROVE  /\ Status = "sent" => manifest = Manifest(recips[latest], TRUE)
                      /\ Answerable => Status = "sent" /\ manifest.to = recips[latest]
    BY DEF ManifestTellsTheTruth
  <2>1. Whole(Idle)
    BY AloneMeans DEF Quiet
  <2>2. ManifestFits
    BY <2>1 DEF Whole, Opening, Idle, SendSteps
  <2> QED
    BY <2>2 DEF ManifestFits, Manifest
<1> QED
  BY <1>1, AloneInvariant, PTL

\* With one process at work, between commands that were not cut short every
\* recipient's page of every version that was sent says where the document stands.
THEOREM PagesTrue == Alone /\ Spec => []PagesTellTheTruth
<1>1. AloneInv => PagesTellTheTruth
  <2> SUFFICES ASSUME AloneInv, Quiet, ~leftover
               PROVE  \A v \in sent : pages[recips[v]] \in Expected(v)
    BY DEF PagesTellTheTruth
  <2>1. Whole(Idle)
    BY AloneMeans DEF Quiet
  <2>2. \A v : ~Stale(Idle, v)
    BY DEF Stale, Idle
  <2> QED
    BY <2>1, <2>2 DEF Whole
<1> QED
  BY <1>1, AloneInvariant, PTL

-----------------------------------------------------------------------------
(* One process: the document lives the life its guard table allows *)

\* Only the latest version is ever agreed on.
LEMMA AgreedMeans ==
  ASSUME TypeOK, Rows
  PROVE  AcceptedVersion = IF signed = {} THEN None ELSE latest
<1>1. \A v \in Versions : ClientSigned(v) <=> v = latest /\ signed # {}
  BY DEF Rows, ClientSigned
<1>2. latest \in Versions
  BY DEF TypeOK, DatabaseOK
<1> HIDE DEF ClientSigned
<1> QED
  BY <1>1, <1>2 DEF AcceptedVersion

LEMMA AgreedMeansNext ==
  ASSUME TypeOK', Rows'
  PROVE  AcceptedVersion' = IF signed' = {} THEN None ELSE latest'
<1>1. \A v \in Versions : ClientSigned(v)' <=> v = latest' /\ signed' # {}
  BY DEF Rows, ClientSigned
<1>2. latest' \in Versions
  BY DEF TypeOK, DatabaseOK
<1>3. CASE signed' = {}
  BY <1>1, <1>3 DEF AcceptedVersion
<1>4. CASE signed' # {}
  <2>1. ClientSigned(latest)' /\ \A v \in Versions : ClientSigned(v)' <=> v = latest'
    BY <1>1, <1>2, <1>4
  <2> QED
    BY <1>2, <1>4, <2>1 DEF AcceptedVersion
<1> QED
  BY <1>3, <1>4

\* While the decisions stay, the document stands where it stood.
LEMMA LifeSame ==
  ASSUME UNCHANGED <<latest, sent, signed, changes, declined, withdrawn>>
  PROVE  UNCHANGED <<Status, latest, AcceptedVersion>>
BY DEF Status, AcceptedVersion, ClientSigned

\* What is known before and after a step.
Between ==
  /\ TypeOK /\ Rows /\ StatusSays(Status)
  /\ AcceptedVersion = IF signed = {} THEN None ELSE latest
  /\ (StatusSays(Status))'
  /\ AcceptedVersion' = IF signed' = {} THEN None ELSE latest'

LEMMA LifeSends ==
  ASSUME Between, NEW p \in Procs, One(op[p]), MarkSent(p)
  PROVE  Life!Send
<1>1. PICK c : c = op[p]
  OBVIOUS
<1>2. /\ c.at = "recording" /\ c.at \in SendSteps /\ c \in Ops /\ One(c)
      /\ sent' = sent \cup {c.v}
      /\ UNCHANGED <<latest, signed, changes, declined, withdrawn>>
  BY <1>1 DEF MarkSent, SendSteps, Between, TypeOK
<1>3. /\ c.v = latest /\ Status = "draft" /\ latest \notin sent
      /\ ~withdrawn /\ ~declined /\ signed = {}
  BY <1>2, SendHolds DEF Between
<1>4. \A x \in changes : x.version # latest
  BY <1>3 DEF Between, Rows
<1>5. Status' = "sent"
  BY <1>2, <1>3, <1>4 DEF Between, StatusSays
<1> QED
  BY <1>2, <1>3, <1>5 DEF Between, Life!Send, Life!Step

LEMMA LifeVerbs ==
  ASSUME Between, NEW p \in Procs, One(op[p]),
         \/ RecordAccept(p) \/ RecordChangeRequest(p) \/ RecordDecline(p)
         \/ RecordCountersign(p) \/ AddVersion(p)
  PROVE  Life!Next
<1>1. PICK c : c = op[p]
  OBVIOUS
<1>2. c.at \in Verbs \ {"withdraw"} /\ One(c)
  BY <1>1 DEF RecordAccept, RecordChangeRequest, RecordDecline, RecordCountersign, AddVersion, Verbs
<1>3. /\ Allowed(c.at) /\ c.bound = {latest} /\ latest \in sent /\ latest \in Nat
      /\ ~withdrawn /\ ~declined /\ (c.at # "countersign" => signed = {})
  BY <1>2, VerbHolds DEF Between
<1>4. sent \subseteq 1..latest
  BY DEF Between, Rows
<1>5. CASE RecordAccept(p)
  <2>1. c.at = "accept" /\ UNCHANGED <<latest, sent, changes, declined, withdrawn>>
    BY <1>1, <1>5 DEF RecordAccept
  <2>2. PICK s : s = [version |-> latest, link |-> None, role |-> "client"]
    OBVIOUS
  <2>3. signed' = {s} /\ s.version = latest /\ s.role = "client"
    BY <1>1, <1>3, <1>5, <2>1, <2>2 DEF RecordAccept, Signature, ManualRow
  <2>4. Status' = "accepted"
    BY <2>1, <2>3 DEF Between, StatusSays, ClientSigned, Countersigned
  <2>5. Status \in {"sent", "changes_requested"}
    BY <1>3, <2>1 DEF Allowed, AllowedFrom
  <2> QED
    BY <2>1, <2>3, <2>4, <2>5 DEF Between, Life!Next, Life!Accept, Life!Step, Life!Open
<1>6. CASE RecordChangeRequest(p)
  <2>1. c.at = "request_changes" /\ UNCHANGED <<latest, sent, signed, declined, withdrawn>>
    BY <1>1, <1>6 DEF RecordChangeRequest
  <2>2. PICK x : x = [version |-> latest, link |-> None]
    OBVIOUS
  <2>3. changes' = changes \cup {x} /\ x.version = latest
    BY <1>1, <1>3, <1>6, <2>2 DEF RecordChangeRequest, ManualRow
  <2>4. Status' = "changes_requested"
    BY <1>3, <2>1, <2>3 DEF Between, StatusSays
  <2>5. Status = "sent"
    BY <1>3, <2>1 DEF Allowed, AllowedFrom
  <2> QED
    BY <2>1, <2>4, <2>5 DEF Between, Life!Next, Life!RequestChanges, Life!Step
<1>7. CASE RecordDecline(p)
  <2>1. c.at = "decline" /\ declined' = TRUE /\ UNCHANGED <<latest, sent, signed, withdrawn>>
    BY <1>1, <1>7 DEF RecordDecline
  <2>2. Status' = "declined"
    BY <2>1 DEF Between, StatusSays
  <2>3. Status \in {"sent", "changes_requested"}
    BY <1>3, <2>1 DEF Allowed, AllowedFrom
  <2> QED
    BY <2>1, <2>2, <2>3 DEF Between, Life!Next, Life!Decline, Life!Step, Life!Open
<1>8. CASE RecordCountersign(p)
  <2>1. c.at = "countersign" /\ UNCHANGED <<latest, sent, declined, withdrawn>>
    BY <1>1, <1>8 DEF RecordCountersign
  <2>2. PICK s : s = [version |-> latest, link |-> None, role |-> "countersign"]
    OBVIOUS
  <2>3. signed' = signed \cup {s} /\ s.version = latest /\ s.role = "countersign"
    BY <1>1, <1>3, <1>8, <2>2 DEF RecordCountersign, Signature, ManualRow
  <2>4. Countersigned(latest)'
    BY <2>1, <2>3 DEF Countersigned
  <2>5. Status' = "executed"
    BY <2>4 DEF Between, StatusSays
  <2>6. Status = "accepted"
    BY <1>3, <2>1 DEF Allowed, AllowedFrom
  <2>7. signed # {}
    BY <2>6 DEF Between, StatusSays, ClientSigned
  <2> QED
    BY <2>1, <2>3, <2>5, <2>6, <2>7 DEF Between, Life!Next, Life!Countersign, Life!Step
<1>9. CASE AddVersion(p)
  <2>1. c.at = "revise" /\ latest' = latest + 1 /\ UNCHANGED <<sent, signed, declined, withdrawn>>
    BY <1>1, <1>9 DEF AddVersion
  <2>2. latest' \notin sent'
    BY <1>3, <1>4, <2>1
  <2>3. Status' = "draft"
    BY <1>3, <2>1, <2>2 DEF Between, StatusSays
  <2>4. Status \in {"sent", "changes_requested"}
    BY <1>3, <2>1 DEF Allowed, AllowedFrom
  <2>5. signed = {}
    BY <1>3, <2>1
  <2> QED
    BY <2>1, <2>3, <2>4, <2>5 DEF Between, Life!Next, Life!Revise, Life!Step, Life!Open
<1> QED
  BY <1>5, <1>6, <1>7, <1>8, <1>9

LEMMA LifeWithdraws ==
  ASSUME Between, NEW p \in Procs, One(op[p]), RecordWithdrawal(p)
  PROVE  Life!Withdraw
<1>1. PICK c : c = op[p]
  OBVIOUS
<1>2. c.at = "withdraw" /\ withdrawn' = TRUE /\ UNCHANGED <<latest, signed>>
  BY <1>1 DEF RecordWithdrawal
<1>3. Allowed("withdraw")
  BY <1>1, <1>2 DEF One, Doing, Verbs
<1>4. Status \in {"draft", "sent", "changes_requested"}
  BY <1>3 DEF Allowed, AllowedFrom
<1>5. Status' = "withdrawn"
  BY <1>2 DEF Status
<1> QED
  BY <1>2, <1>4, <1>5 DEF Between, Life!Withdraw, Life!Step, Life!Open

LEMMA LifeAnswers ==
  ASSUME Between, NEW p \in Procs, One(op[p]), RecordOnlineResponse(p)
  PROVE  [Life!Next]_<<Status, latest, AcceptedVersion>>
<1>1. PICK c : c = op[p]
  OBVIOUS
<1>2. /\ c.at = "pull" /\ c.v = latest
      /\ UNCHANGED <<latest, sent, declined, withdrawn>>
  BY <1>1 DEF RecordOnlineResponse, One, Doing
<1>3. PICK l :
        \/ /\ Records(latest, l)
           /\ signed' = signed \cup {[version |-> latest, link |-> l, role |-> "client"]}
           /\ changes' = changes
        \/ /\ Records(latest, l)
           /\ changes' = changes \cup {[version |-> latest, link |-> l]}
           /\ signed' = signed
        \/ signed' = signed /\ changes' = changes
  BY <1>1, <1>2 DEF RecordOnlineResponse, Signature
<1>4. CASE signed' = signed /\ changes' = changes
  BY <1>2, <1>4, LifeSame
<1>5. Records(latest, l) => Status = "sent" /\ signed = {} /\ latest \in sent /\ ~declined /\ ~withdrawn
  BY DEF Records, Between, StatusSays
<1>6. CASE /\ Records(latest, l) /\ changes' = changes
           /\ signed' = signed \cup {[version |-> latest, link |-> l, role |-> "client"]}
  <2>1. PICK s : s = [version |-> latest, link |-> l, role |-> "client"]
    OBVIOUS
  <2>2. signed' = {s} /\ s.version = latest /\ s.role = "client"
    BY <1>5, <1>6, <2>1
  <2>3. Status' = "accepted"
    BY <1>2, <2>2 DEF Between, StatusSays, ClientSigned, Countersigned
  <2> QED
    BY <1>2, <1>5, <1>6, <2>2, <2>3 DEF Between, Life!Next, Life!Accept, Life!Step, Life!Open
<1>7. CASE /\ Records(latest, l) /\ signed' = signed
           /\ changes' = changes \cup {[version |-> latest, link |-> l]}
  <2>1. PICK x : x = [version |-> latest, link |-> l]
    OBVIOUS
  <2>2. changes' = changes \cup {x} /\ x.version = latest
    BY <1>7, <2>1
  <2>3. Status' = "changes_requested"
    BY <1>2, <1>5, <1>7, <2>2 DEF Between, StatusSays
  <2> QED
    BY <1>2, <1>5, <1>7, <2>3 DEF Between, Life!Next, Life!RequestChanges, Life!Step
<1> QED
  BY <1>3, <1>4, <1>6, <1>7

LEMMA LifeStep ==
  ASSUME Alone, TypeOK, AloneInv, [Next]_vars
  PROVE  [Life!Next]_<<Status, latest, AcceptedVersion>>
<1>1. Between
  <2>1. Rows /\ Rows' /\ TypeOK'
    <3>1. AloneInv'
      BY AloneStep
    <3>2. Rows'
      <4>1. CASE Procs = {}
        BY <3>1, <4>1 DEF AloneInv, One
      <4>2. CASE Procs # {}
        BY <3>1, <4>2 DEF AloneInv, One
      <4> QED
        BY <4>1, <4>2
    <3> QED
      BY <3>2, AloneMeans, NextTyped
  <2>2. StatusSays(Status) /\ (StatusSays(Status))'
    BY <2>1, StatusMeans, StatusMeansNext
  <2>3. /\ AcceptedVersion = IF signed = {} THEN None ELSE latest
        /\ AcceptedVersion' = IF signed' = {} THEN None ELSE latest'
    BY <2>1, AgreedMeans, AgreedMeansNext
  <2> QED
    BY <2>1, <2>2, <2>3, Zenon DEF Between
<1>2. ASSUME NEW p \in Procs,
             \/ StartSend(p) \/ StartSync(p) \/ RegenerateRecord(p)
             \/ (\E verb \in Verbs : StartVerb(p, verb)) \/ Crash(p)
             \/ EnsureLatestUnsent(p) \/ FreezeRecipients(p) \/ PublishPages(p)
             \/ OpenManifest(p) \/ EmailLink(p) \/ SendFails(p)
             \/ Unfreeze(p) \/ UnopenManifest(p) \/ Supersede(p)
             \/ RepublishLoad(p) \/ CloseManifest(p) \/ RewritePages(p)
             \/ UploadRecord(p) \/ TearDown(p) \/ LoadSync(p) \/ FetchAnswer(p) \/ FinishSync(p)
      PROVE  UNCHANGED <<Status, latest, AcceptedVersion>>
  <2>1. UNCHANGED <<latest, sent, signed, changes, declined, withdrawn>>
    BY <1>2 DEF StartSend, StartSync, RegenerateRecord, StartVerb, Crash, EnsureLatestUnsent,
       FreezeRecipients, PublishPages, OpenManifest, EmailLink, SendFails, Unfreeze,
       UnopenManifest, Supersede, RepublishLoad, CloseManifest, RewritePages, UploadRecord,
       TearDown, LoadSync, FetchAnswer, FinishSync, database
  <2> QED
    BY <2>1, LifeSame
<1>3. ASSUME NEW p \in Procs,
             \/ MarkSent(p) \/ RecordAccept(p) \/ RecordChangeRequest(p) \/ RecordDecline(p)
             \/ RecordCountersign(p) \/ AddVersion(p) \/ RecordWithdrawal(p)
             \/ RecordOnlineResponse(p)
      PROVE  [Life!Next]_<<Status, latest, AcceptedVersion>>
  <2>1. One(op[p])
    BY DEF AloneInv
  <2>2. CASE MarkSent(p)
    BY <1>1, <2>1, <2>2, LifeSends DEF Life!Next
  <2>3. CASE RecordWithdrawal(p)
    BY <1>1, <2>1, <2>3, LifeWithdraws DEF Life!Next
  <2>4. CASE RecordOnlineResponse(p)
    BY <1>1, <2>1, <2>4, LifeAnswers
  <2>5. CASE \/ RecordAccept(p) \/ RecordChangeRequest(p) \/ RecordDecline(p)
             \/ RecordCountersign(p) \/ AddVersion(p)
    BY <1>1, <2>1, <2>5, LifeVerbs
  <2> QED
    BY <1>3, <2>2, <2>3, <2>4, <2>5
<1>4. CASE UNCHANGED vars
  BY <1>4, LifeSame DEF vars, database
<1>5. ASSUME NEW b \in Browsers,
             (\E l \in Links, action \in Answers : ReadManifest(b, l, action)) \/ Respond(b)
      PROVE  UNCHANGED <<Status, latest, AcceptedVersion>>
  BY <1>5, LifeSame DEF ReadManifest, Respond, ReadClosed, StoreAnswer, MarkClosed, database
<1> QED
  BY <1>2, <1>3, <1>4, <1>5 DEF Next, Continue

\* With one process at work, the status goes through the words the guard table
\* allows, and an acceptance binds the version that was latest when it was given.
THEOREM LivesTheLife == Alone /\ Spec => LifeSpec
<1>1. Init => Life!Init
  <2> SUFFICES ASSUME Init PROVE Life!Init
    OBVIOUS
  <2>1. Status = "draft"
    BY DEF Init, Status
  <2>2. AcceptedVersion = None
    BY DEF Init, AcceptedVersion, ClientSigned
  <2> QED
    BY <2>1, <2>2 DEF Init, Life!Init
<1>2. Alone => [](Alone)
  OBVIOUS
<1>3. Alone /\ TypeOK /\ AloneInv /\ [Next]_vars => [Life!Next]_<<Status, latest, AcceptedVersion>>
  BY LifeStep
<1> QED
  BY <1>1, <1>2, <1>3, TypeCorrect, AloneInvariant, PTL DEF LifeSpec, Life!Spec, Spec

=============================================================================
