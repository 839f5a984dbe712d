-------------------------- MODULE DocumentSigning --------------------------
(***************************************************************************)
(* One document sent for signature (crates/nigel-core/src/documents/ and   *)
(* workers/document-response/): its rows, the objects it has in the        *)
(* private and the public bucket, the commands that processes run against  *)
(* it, and the Worker that answers its recipients' browsers.               *)
(*                                                                         *)
(* Each send draws fresh link tokens, so a send is an attempt a and a link *)
(* is <<a, role>>.  A command is cut wherever it is between two            *)
(* transactions or two calls to a bucket or the mailer, and its guard's    *)
(* read is cut from the write it guards unless one IMMEDIATE transaction   *)
(* covers both.                                                            *)
(***************************************************************************)
EXTENDS Integers, FiniteSets

CONSTANTS
  Procs,        \* processes, or server requests, that work on the document
  Browsers,     \* requests the Worker serves at once
  None,         \* SQL NULL, or an object that is not there
  MaxVersions,  \* bound: versions filed
  MaxAttempts,  \* bound: sends started
  MaxAnswers,   \* bound: requests the Worker finds the version open for
  MaxFaults,    \* bound: calls to a bucket or the mailer that fail
  MaxCrashes    \* bound: processes killed in the middle of a command

ASSUME BoundsAssumption ==
  /\ MaxVersions \in Nat \ {0} /\ MaxAttempts \in Nat
  /\ MaxAnswers \in Nat /\ MaxFaults \in Nat /\ MaxCrashes \in Nat

Versions == 1..MaxVersions
Attempts == 1..MaxAttempts
Roles    == {"signer", "collaborator"}
Links    == Attempts \X Roles
Answers  == {"accept", "request_changes"}

ASSUME NoneAssumption == None \notin Versions \cup Attempts \cup Links

VARIABLES
  latest,     \* document_versions: the highest number
  sent,       \* document_versions: those with sent_at
  recips,     \* document_recipients: per version, the send whose links they are
  signed,     \* document_signatures
  changes,    \* document_change_requests
  declined,   \* documents.declined_at IS NOT NULL
  withdrawn,  \* documents.withdrawn_at IS NOT NULL
  manifest,   \* private bucket: manifest.json, one for the document
  answers,    \* private bucket: a response per link
  closed,     \* private bucket: the closed marker per version
  pages,      \* public bucket: what a send's pages show
  records,    \* public bucket: versions with a signing record
  op,         \* what each process is in the middle of
  req,        \* what the Worker is in the middle of, per request
  clock,      \* the Worker's clock, ticking once per stamp
  versionOf,  \* history: the version each send was started for
  emailed,    \* history: the links that reached an inbox
  sentBy,     \* history: the send that marked each version sent
  leftover,   \* history: a cleanup was cut short, by a crash or with a warning
  faults, crashes

database == <<latest, sent, recips, signed, changes, declined, withdrawn>>
private  == <<manifest, answers, closed>>
public   == <<pages, records>>
worker   == <<req, clock>>
history  == <<versionOf, emailed, sentBy>>
troubles == <<leftover, faults, crashes>>

vars == <<database, private, public, op, worker, history, troubles>>

Idle == [at |-> "idle"]

Become(p, state) == op' = [op EXCEPT ![p] = state]
Move(p, at)      == op' = [op EXCEPT ![p].at = at]

-----------------------------------------------------------------------------
(* Status, derived on every read *)

ClientSigned(v)  == \E s \in signed : s.version = v /\ s.role = "client"
Countersigned(v) == \E s \in signed : s.version = v /\ s.role = "countersign"

\* Mutant: a change request outlives the revision that answered it.
StatusAnyRequest ==
  IF withdrawn THEN "withdrawn"
  ELSE IF \E s \in signed : s.role = "countersign" THEN "executed"
  ELSE IF declined THEN "declined"
  ELSE IF latest \notin sent THEN "draft"
  ELSE IF ClientSigned(latest) THEN "accepted"
  ELSE IF changes # {} THEN "changes_requested"
  ELSE "sent"

Status ==
  IF withdrawn THEN "withdrawn"
  ELSE IF \E s \in signed : s.role = "countersign" THEN "executed"
  ELSE IF declined THEN "declined"
  ELSE IF latest \notin sent THEN "draft"
  ELSE IF ClientSigned(latest) THEN "accepted"
  ELSE IF \E c \in changes : c.version = latest THEN "changes_requested"
  ELSE "sent"

AllowedFrom ==
  [send            |-> {"draft"},
   revise          |-> {"sent", "changes_requested"},
   accept          |-> {"sent", "changes_requested"},
   decline         |-> {"sent", "changes_requested"},
   request_changes |-> {"sent"},
   countersign     |-> {"accepted"},
   withdraw        |-> {"draft", "sent", "changes_requested"}]

Allowed(action) == Status \in AllowedFrom[action]

IsLatestSent(v) == v \in sent /\ \A w \in sent : w <= v

\* Mutant: freezing the recipients of a resend leaves the earlier ones in place.
OnVersionUndeleted(v, l) == recips[v] # None /\ versionOf[l[1]] = v

\* A link of a recipient of the version.
OnVersion(v, l) == recips[v] = l[1]

Live(v) == {l \in Links : OnVersion(v, l)}

\* The links whose responses are recorded on a version.
Answered(v) == {x.link : x \in {y \in signed \cup changes : y.version = v}} \ {None}

-----------------------------------------------------------------------------
Init ==
  /\ latest = 1 /\ sent = {} /\ recips = [v \in Versions |-> None]
  /\ signed = {} /\ changes = {} /\ declined = FALSE /\ withdrawn = FALSE
  /\ manifest = None
  /\ answers = [l \in Links |-> None]
  /\ closed = [v \in Versions |-> None]
  /\ pages = [a \in Attempts |-> None] /\ records = {}
  /\ op = [p \in Procs |-> Idle]
  /\ req = [b \in Browsers |-> Idle] /\ clock = 0
  /\ versionOf = [a \in Attempts |-> None]
  /\ emailed = {} /\ sentBy = [v \in Versions |-> None]
  /\ leftover = FALSE /\ faults = 0 /\ crashes = 0

\* A call to a bucket or the mailer fails.
Fault == faults < MaxFaults /\ faults' = faults + 1 /\ UNCHANGED crashes

\* It fails where the command can only warn.
Warned == Fault /\ leftover' = TRUE


-----------------------------------------------------------------------------
(* Send: load, freeze, publish, manifest, email, record, supersede *)

LatestUnsent(v) == v = latest /\ v \notin sent

StartSend(p) ==
  /\ op[p] = Idle
  /\ Allowed("send")
  /\ \E a \in Attempts :
       /\ \A b \in Attempts : (versionOf[b] = None) <=> (a <= b)
       /\ versionOf' = [versionOf EXCEPT ![a] = latest]
       /\ Become(p, [at |-> "freeze", v |-> latest, a |-> a, to |-> None,
                     opened |-> FALSE, left |-> Roles])
  /\ UNCHANGED <<database, private, public, worker, emailed, sentBy, troubles>>

Ensured == [freeze |-> "freezing", record |-> "recording", unfreeze |-> "unfreezing"]

\* ensure_latest_unsent, read before the write it guards.
EnsureLatestUnsent(p) ==
  /\ op[p].at \in DOMAIN Ensured
  /\ \/ /\ LatestUnsent(op[p].v)
        /\ Move(p, Ensured[op[p].at])
        /\ UNCHANGED leftover
     \/ /\ ~LatestUnsent(op[p].v) /\ op[p].at # "unfreeze"
        /\ Move(p, "unfreeze")
        /\ UNCHANGED leftover
     \/ /\ ~LatestUnsent(op[p].v) /\ op[p].at = "unfreeze"
        /\ Move(p, "unopen")
        /\ leftover' = TRUE
  /\ UNCHANGED <<database, private, public, worker, history, faults, crashes>>

\* The recipients an earlier attempt froze are deleted with their links.
FreezeRecipients(p) ==
  /\ op[p].at = "freezing"
  /\ recips' = [recips EXCEPT ![op[p].v] = op[p].a]
  /\ Move(p, "publish")
  /\ UNCHANGED <<latest, sent, signed, changes, declined, withdrawn,
                 private, public, worker, history, troubles>>

OpenPages(p) == [a \in Attempts |-> IF a = recips[op[p].v] THEN "open" ELSE pages[a]]

\* The recipients are read back: a page was rendered for this send's links only.
PublishPages(p) ==
  /\ op[p].at = "publish"
  /\ \/ /\ recips[op[p].v] \in {op[p].a, None}
        /\ op' = [op EXCEPT ![p].to = recips[op[p].v], ![p].at = "manifest"]
        /\ pages' = OpenPages(p)
     \/ /\ recips[op[p].v] \notin {op[p].a, None}
        /\ Move(p, "unfreeze") /\ UNCHANGED pages
  /\ UNCHANGED <<database, private, records, worker, history, troubles>>

Manifest(to, open) == [to |-> to, open |-> open]

OpenManifest(p) ==
  /\ op[p].at = "manifest"
  /\ manifest' = Manifest(op[p].to, TRUE)
  /\ op' = [op EXCEPT ![p].opened = TRUE, ![p].at = "email",
                      ![p].left = IF op[p].to = None THEN {} ELSE Roles]
  /\ UNCHANGED <<database, answers, closed, public, worker, history, troubles>>

\* The signer is listed first.
IsNextRole(r, left) == r \in left /\ ("signer" \in left => r = "signer")

EmailLink(p) ==
  /\ op[p].at = "email"
  /\ \/ /\ op[p].left = {}
        /\ Move(p, "record") /\ UNCHANGED emailed
     \/ \E r \in op[p].left :
          /\ IsNextRole(r, op[p].left)
          /\ op' = [op EXCEPT ![p].left = @ \ {r}]
          /\ emailed' = emailed \cup {<<op[p].to, r>>}
  /\ UNCHANGED <<database, private, public, worker, versionOf, sentBy, troubles>>

\* Mutant: an address that bounces does not stop the send.
SendFailsBeforeMail(p) ==
  /\ Fault /\ UNCHANGED <<leftover, manifest>>
  /\ \/ op[p].at \in {"publish", "manifest"} /\ UNCHANGED emailed /\ Move(p, "unfreeze")
     \/ /\ op[p].at = "email"
        /\ \E r \in op[p].left : IsNextRole(r, op[p].left) /\ op' = [op EXCEPT ![p].left = @ \ {r}]
        /\ UNCHANGED emailed
  /\ UNCHANGED <<database, answers, closed, public, worker, versionOf, sentBy>>

\* A call that failed may have gone through all the same.
SendFails(p) ==
  /\ Fault /\ UNCHANGED leftover
  /\ \/ /\ op[p].at = "publish" /\ UNCHANGED <<manifest, emailed>>
        /\ recips[op[p].v] \in {op[p].a, None}
        /\ pages' \in {pages, OpenPages(p)}
     \/ /\ op[p].at = "manifest" /\ UNCHANGED <<pages, emailed>>
        /\ manifest' \in {manifest, Manifest(op[p].to, TRUE)}
     \/ /\ op[p].at = "email" /\ UNCHANGED <<pages, manifest>>
        /\ \E r \in op[p].left : IsNextRole(r, op[p].left)
                                 /\ emailed' \in {emailed, emailed \cup {<<op[p].to, r>>}}
  /\ Move(p, "unfreeze")
  /\ UNCHANGED <<database, answers, closed, records, worker, versionOf, sentBy>>

MarkSent(p) ==
  /\ op[p].at = "recording"
  /\ sent' = sent \cup {op[p].v}
  /\ sentBy' = [sentBy EXCEPT ![op[p].v] = op[p].a]
  /\ Become(p, [at |-> "supersede", v |-> op[p].v])
  /\ UNCHANGED <<latest, recips, signed, changes, declined, withdrawn,
                 private, public, worker, versionOf, emailed, troubles>>

Unfreeze(p) ==
  /\ op[p].at = "unfreezing"
  /\ recips' = [recips EXCEPT ![op[p].v] = None]
  /\ Move(p, "unopen")
  /\ UNCHANGED <<latest, sent, signed, changes, declined, withdrawn,
                 private, public, worker, history, troubles>>

\* Mutant: the manifest of a send that failed stays open.
UnopenManifestSkipped(p) ==
  /\ op[p].at = "unopen"
  /\ Become(p, Idle)
  /\ UNCHANGED <<database, private, public, worker, history, troubles>>

\* Only a manifest the send knows it opened is closed again.
UnopenManifest(p) ==
  /\ op[p].at = "unopen"
  /\ \/ ~op[p].opened /\ UNCHANGED <<manifest, troubles>>
     \/ op[p].opened /\ manifest' = Manifest(op[p].to, FALSE) /\ UNCHANGED troubles
     \/ op[p].opened /\ Warned /\ manifest' \in {manifest, Manifest(op[p].to, FALSE)}
  /\ Become(p, Idle)
  /\ UNCHANGED <<database, answers, closed, public, worker, history>>

\* Every page of the earlier sent versions, by the recipients each was sent to.
Superseded(v) == {recips[w] : w \in {x \in sent : x < v}} \ {None}

Supersede(p) ==
  /\ op[p].at = "supersede"
  /\ \/ /\ pages' = [a \in Attempts |-> IF a \in Superseded(op[p].v) THEN "superseded" ELSE pages[a]]
        /\ UNCHANGED troubles
     \/ /\ Superseded(op[p].v) # {} /\ Warned
        /\ \E some \in SUBSET Superseded(op[p].v) :
             pages' = [a \in Attempts |-> IF a \in some THEN "superseded" ELSE pages[a]]
  /\ Become(p, Idle)
  /\ UNCHANGED <<database, private, records, worker, history>>

-----------------------------------------------------------------------------
(* Every change commits first; the manifest is closed and the pages of the *)
(* latest sent version rewritten after it, best effort.                    *)

Closing(v, show, next) == [at |-> "close", v |-> v, show |-> show, next |-> next]

Loading(linked) == [at |-> "load", linked |-> linked]

\* What the latest sent version's pages are to say, if anything changed on it.
PageState(v, linked) ==
  IF Status = "executed" /\ ClientSigned(v) /\ Countersigned(v)
  THEN IF linked THEN "recorded" ELSE "executed"
  ELSE IF Status = "accepted" \/ Status = "changes_requested" \/ Status = "declined"
  THEN Status ELSE None

RepublishLoad(p) ==
  /\ op[p].at = "load"
  /\ \E v \in sent :
       /\ IsLatestSent(v)
       /\ LET show == PageState(v, op[p].linked)
          IN  Become(p, IF show = None THEN Idle ELSE Closing(v, show, "supersede"))
  /\ UNCHANGED <<database, private, public, worker, history, troubles>>

\* A version with no recipients has nothing published to tear down.
AfterClosing(o) == IF o.next = "supersede" THEN [at |-> "supersede", v |-> o.v] ELSE Idle

CloseManifest(p) ==
  /\ op[p].at = "close"
  /\ LET to == recips[op[p].v]
     IN  \/ /\ to = None
            /\ Become(p, AfterClosing(op[p]))
            /\ UNCHANGED <<manifest, troubles>>
         \/ /\ to # None
            /\ Become(p, [at |-> "rewrite", v |-> op[p].v, to |-> to,
                          show |-> op[p].show, next |-> op[p].next])
            /\ \/ manifest' = Manifest(to, FALSE) /\ UNCHANGED troubles
               \/ manifest' \in {manifest, Manifest(to, FALSE)} /\ Warned
  /\ UNCHANGED <<database, answers, closed, public, worker, history>>

RewritePages(p) ==
  /\ op[p].at = "rewrite"
  /\ LET rewritten == [a \in Attempts |-> IF a = op[p].to THEN op[p].show ELSE pages[a]]
     IN  \/ pages' = rewritten /\ UNCHANGED troubles
         \/ Warned /\ pages' \in {pages, rewritten}
  /\ Become(p, AfterClosing(op[p]))
  /\ UNCHANGED <<database, private, records, worker, history>>

-----------------------------------------------------------------------------
(* What the operator records by hand *)

Verbs == {"accept", "request_changes", "decline", "countersign", "withdraw", "revise"}

\* The guard, and the version the record will be bound to.
StartVerb(p, verb) ==
  /\ op[p] = Idle
  /\ Allowed(verb)
  /\ verb = "revise" => latest < MaxVersions
  /\ Become(p, [at |-> verb, bound |-> {v \in sent : IsLatestSent(v)}, torn |-> sent])
  /\ UNCHANGED <<database, private, public, worker, history, troubles>>

ManualRow(v)     == [version |-> v, link |-> None]
Signature(row, role) == [version |-> row.version, link |-> row.link, role |-> role]

RecordAccept(p) ==
  /\ op[p].at = "accept"
  /\ \E v \in op[p].bound : signed' = signed \cup {Signature(ManualRow(v), "client")}
  /\ Become(p, Loading(FALSE))
  /\ UNCHANGED <<latest, sent, recips, changes, declined, withdrawn,
                 private, public, worker, history, troubles>>

RecordChangeRequest(p) ==
  /\ op[p].at = "request_changes"
  /\ \E v \in op[p].bound : changes' = changes \cup {ManualRow(v)}
  /\ Become(p, Loading(FALSE))
  /\ UNCHANGED <<latest, sent, recips, signed, declined, withdrawn,
                 private, public, worker, history, troubles>>

RecordDecline(p) ==
  /\ op[p].at = "decline"
  /\ declined' = TRUE
  /\ Become(p, Loading(FALSE))
  /\ UNCHANGED <<latest, sent, recips, signed, changes, withdrawn,
                 private, public, worker, history, troubles>>

\* Mutant: the countersignature is bound to the latest version when it is written.
RecordCountersignLatest(p) ==
  /\ op[p].at = "countersign"
  /\ signed' = signed \cup {Signature(ManualRow(latest), "countersign")}
  /\ Become(p, [at |-> "upload", v |-> latest])
  /\ UNCHANGED <<latest, sent, recips, changes, declined, withdrawn,
                 private, public, worker, history, troubles>>

RecordCountersign(p) ==
  /\ op[p].at = "countersign"
  /\ \E v \in op[p].bound :
       /\ signed' = signed \cup {Signature(ManualRow(v), "countersign")}
       /\ Become(p, [at |-> "upload", v |-> v])
  /\ UNCHANGED <<latest, sent, recips, changes, declined, withdrawn,
                 private, public, worker, history, troubles>>

\* Mutant: the pages link the record whether it went up or not.
UploadRecordLinksAnyway(p) ==
  /\ op[p].at = "upload"
  /\ \/ records' = records \cup {op[p].v} /\ UNCHANGED troubles
     \/ records' = records /\ Fault /\ UNCHANGED leftover
  /\ Become(p, Loading(TRUE))
  /\ UNCHANGED <<database, private, pages, worker, history>>

\* A page links the record only once the record is up.
UploadRecord(p) ==
  /\ op[p].at = "upload"
  /\ \/ /\ records' = records \cup {op[p].v}
        /\ Become(p, Loading(TRUE))
        /\ UNCHANGED troubles
     \/ /\ Fault /\ UNCHANGED leftover
        /\ records' \in {records, records \cup {op[p].v}}
        /\ Become(p, Loading(FALSE))
  /\ UNCHANGED <<database, private, pages, worker, history>>

\* "document signing-record", for an executed document.
RegenerateRecord(p) ==
  /\ op[p] = Idle
  /\ Status = "executed"
  /\ \E v \in sent : IsLatestSent(v) /\ Become(p, [at |-> "upload", v |-> v])
  /\ UNCHANGED <<database, private, public, worker, history, troubles>>

\* Mutant: the number is raised for the file and again for the row.
AddVersionTwice(p) ==
  /\ op[p].at = "revise"
  /\ latest < MaxVersions
  /\ latest' = latest + 2
  /\ \E v \in op[p].bound : Become(p, Closing(v, "revising", "idle"))
  /\ UNCHANGED <<sent, recips, signed, changes, declined, withdrawn,
                 private, public, worker, history, troubles>>

\* The number is taken inside the transaction, the version to tear down before it.
AddVersion(p) ==
  /\ op[p].at = "revise"
  /\ latest < MaxVersions
  /\ latest' = latest + 1
  /\ \E v \in op[p].bound : Become(p, Closing(v, "revising", "idle"))
  /\ UNCHANGED <<sent, recips, signed, changes, declined, withdrawn,
                 private, public, worker, history, troubles>>

\* Mutant: only the newest sent version is torn down.
RecordWithdrawalOfNewest(p) ==
  /\ op[p].at = "withdraw"
  /\ withdrawn' = TRUE
  /\ Become(p, [at |-> "teardown", torn |-> op[p].bound])
  /\ UNCHANGED <<latest, sent, recips, signed, changes, declined,
                 private, public, worker, history, troubles>>

RecordWithdrawal(p) ==
  /\ op[p].at = "withdraw"
  /\ withdrawn' = TRUE
  /\ Become(p, [at |-> "teardown", torn |-> op[p].torn])
  /\ UNCHANGED <<latest, sent, recips, signed, changes, declined,
                 private, public, worker, history, troubles>>

\* Oldest first; the manifest is closed with the newest.
TearDown(p) ==
  /\ op[p].at = "teardown"
  /\ \/ /\ op[p].torn = {}
        /\ Become(p, Idle)
        /\ UNCHANGED <<pages, troubles>>
     \/ \E v \in op[p].torn :
          /\ op[p].torn = {v}
          /\ Become(p, Closing(v, "withdrawn", "idle"))
          /\ UNCHANGED <<pages, troubles>>
     \/ \E v \in op[p].torn :
          LET rewritten == [a \in Attempts |-> IF a = recips[v] THEN "withdrawn" ELSE pages[a]]
          IN  /\ op[p].torn # {v} /\ \A w \in op[p].torn : v <= w
              /\ Become(p, [at |-> "teardown", torn |-> op[p].torn \ {v}])
              /\ \/ pages' = rewritten /\ UNCHANGED troubles
                 \/ pages' \in {pages, rewritten} /\ Warned
  /\ UNCHANGED <<database, private, records, worker, history>>

-----------------------------------------------------------------------------
(* Sync *)

\* Answers of the latest sent version's links that are not recorded yet.
StartSync(p) ==
  /\ op[p] = Idle
  /\ Status \in {"sent", "changes_requested"}
  /\ Become(p, [at |-> "sync"])
  /\ UNCHANGED <<database, private, public, worker, history, troubles>>

LoadSync(p) ==
  /\ op[p].at = "sync"
  /\ \E v \in sent :
       /\ IsLatestSent(v)
       /\ Become(p, [at |-> "fetch", v |-> v, was |-> Status,
                     left |-> Live(v) \ Answered(v), got |-> {}])
  /\ UNCHANGED <<database, private, public, worker, history, troubles>>

IsNextLink(l, left) == l \in left /\ (l[2] = "collaborator" => <<l[1], "signer">> \notin left)

\* Mutant: the fetch stops at the first recipient who has not answered.
FetchAnswerStops(p) ==
  /\ op[p].at = "fetch"
  /\ \/ /\ op[p].left = {}
        /\ Move(p, "pull")
        /\ UNCHANGED troubles
     \/ \E l \in op[p].left :
          /\ IsNextLink(l, op[p].left)
          /\ op' = IF answers[l] = None
                   THEN [op EXCEPT ![p].left = {}]
                   ELSE [op EXCEPT ![p].left = @ \ {l}, ![p].got = @ \cup {l}]
          /\ UNCHANGED troubles
     \/ /\ op[p].left # {} /\ Fault /\ UNCHANGED leftover
        /\ Become(p, Idle)
  /\ UNCHANGED <<database, private, public, worker, history>>

FetchAnswer(p) ==
  /\ op[p].at = "fetch"
  /\ \/ /\ op[p].left = {}
        /\ Move(p, "pull")
        /\ UNCHANGED troubles
     \/ \E l \in op[p].left :
          /\ IsNextLink(l, op[p].left)
          /\ op' = [op EXCEPT ![p].left = @ \ {l},
                              ![p].got = IF answers[l] = None THEN @ ELSE @ \cup {l}]
          /\ UNCHANGED troubles
     \/ /\ op[p].left # {} /\ Fault /\ UNCHANGED leftover
        /\ Become(p, Idle)
  /\ UNCHANGED <<database, private, public, worker, history>>

\* Sorted by receivedAt.
IsEarliest(l, got) == l \in got /\ \A k \in got : answers[l].at <= answers[k].at

\* Mutant: the wider guard table of the manual verbs.
RecordsWhenAllowed(v, l) ==
  /\ OnVersion(v, l)
  /\ l \notin Answered(v)
  /\ IsLatestSent(v)
  /\ versionOf[l[1]] = v
  /\ answers[l].action = "accept" => l[2] = "signer"
  /\ Allowed(answers[l].action)

\* record_online_response: what it takes for a response to be recorded.
Records(v, l) ==
  /\ OnVersion(v, l)
  /\ l \notin Answered(v)
  /\ IsLatestSent(v)
  /\ versionOf[l[1]] = v
  /\ answers[l].action = "accept" => l[2] = "signer"
  /\ Status = "sent"

RecordOnlineResponse(p) ==
  /\ op[p].at = "pull"
  /\ \E l \in op[p].got :
       /\ IsEarliest(l, op[p].got)
       /\ op' = [op EXCEPT ![p].got = @ \ {l}]
       /\ LET row == [version |-> op[p].v, link |-> l]
          IN  \/ /\ Records(op[p].v, l) /\ answers[l].action = "accept"
                 /\ signed' = signed \cup {Signature(row, "client")}
                 /\ changes' = changes
              \/ /\ Records(op[p].v, l) /\ answers[l].action = "request_changes"
                 /\ changes' = changes \cup {row}
                 /\ signed' = signed
              \/ /\ ~Records(op[p].v, l)
                 /\ UNCHANGED <<signed, changes>>
  /\ UNCHANGED <<latest, sent, recips, declined, withdrawn,
                 private, public, worker, history, troubles>>

FinishSync(p) ==
  /\ op[p].at = "pull"
  /\ op[p].got = {}
  /\ Become(p, IF Status = op[p].was THEN Idle ELSE Loading(FALSE))
  /\ UNCHANGED <<database, private, public, worker, history, troubles>>

-----------------------------------------------------------------------------
(* The Worker, one await at a time *)

Serve(b, state) == req' = [req EXCEPT ![b] = state]

CheckRequest(l, action) ==
  /\ manifest # None
  /\ manifest.open
  /\ manifest.to = l[1]
  /\ action = "accept" => l[2] = "signer"

\* A recipient answers from a page whose link reached them, and the manifest is
\* read.  A request that is refused leaves nothing behind.
ReadManifest(b, l, action) ==
  /\ req[b] = Idle
  /\ l \in emailed
  /\ CheckRequest(l, action)
  /\ Serve(b, [at |-> "closed", link |-> l, action |-> action, stamp |-> 0])
  /\ UNCHANGED <<database, private, public, op, clock, history, troubles>>

\* The response is stamped as soon as no marker is found.
ReadClosed(b) ==
  /\ req[b].at = "closed"
  /\ \/ /\ closed[versionOf[req[b].link[1]]] # None
        /\ Serve(b, Idle) /\ UNCHANGED clock
     \/ /\ closed[versionOf[req[b].link[1]]] = None
        /\ clock < MaxAnswers
        /\ clock' = clock + 1
        /\ req' = [req EXCEPT ![b].at = "store", ![b].stamp = clock]
  /\ UNCHANGED <<database, private, public, op, history, troubles>>

StoreAnswer(b) ==
  /\ req[b].at = "store"
  /\ IF answers[req[b].link] = None
     THEN /\ answers' = [answers EXCEPT ![req[b].link] =
                           [action |-> req[b].action, at |-> req[b].stamp]]
          /\ req' = [req EXCEPT ![b].at = "mark"]
     ELSE UNCHANGED answers /\ Serve(b, Idle)
  /\ UNCHANGED <<database, manifest, closed, public, op, clock, history, troubles>>

\* The first writer wins; a marker that cannot be written is given up.
MarkClosed(b) ==
  /\ req[b].at = "mark"
  /\ LET v == versionOf[req[b].link[1]]
     IN  \/ /\ closed' = [closed EXCEPT ![v] = IF @ = None THEN req[b].action ELSE @]
            /\ UNCHANGED troubles
         \/ closed' = closed /\ Fault /\ UNCHANGED leftover
  /\ Serve(b, Idle)
  /\ UNCHANGED <<database, manifest, answers, public, op, clock, history>>

-----------------------------------------------------------------------------
\* A process killed in the middle: what it committed or uploaded stays.
Crash(p) ==
  /\ op[p] # Idle
  /\ crashes < MaxCrashes
  /\ crashes' = crashes + 1
  /\ leftover' = TRUE
  /\ Become(p, Idle)
  /\ UNCHANGED <<database, private, public, worker, history, faults>>

Continue(p) ==
  \/ EnsureLatestUnsent(p) \/ FreezeRecipients(p) \/ PublishPages(p)
  \/ OpenManifest(p) \/ EmailLink(p) \/ SendFails(p) \/ MarkSent(p)
  \/ Unfreeze(p) \/ UnopenManifest(p) \/ Supersede(p)
  \/ RepublishLoad(p) \/ CloseManifest(p) \/ RewritePages(p)
  \/ RecordAccept(p) \/ RecordChangeRequest(p) \/ RecordDecline(p)
  \/ RecordCountersign(p) \/ UploadRecord(p)
  \/ AddVersion(p) \/ RecordWithdrawal(p) \/ TearDown(p)
  \/ LoadSync(p) \/ FetchAnswer(p) \/ RecordOnlineResponse(p) \/ FinishSync(p)

Respond(b) == ReadClosed(b) \/ StoreAnswer(b) \/ MarkClosed(b)

Next ==
  \/ \E p \in Procs :
       \/ StartSend(p) \/ StartSync(p) \/ RegenerateRecord(p)
       \/ \E verb \in Verbs : StartVerb(p, verb)
       \/ Continue(p)
       \/ Crash(p)
  \/ \E b \in Browsers :
       \/ \E l \in Links, action \in Answers : ReadManifest(b, l, action)
       \/ Respond(b)

Spec == Init /\ [][Next]_vars

\* A command that began runs on, and the scheduled sync keeps coming round.
Fairness ==
  /\ \A p \in Procs : WF_vars(Continue(p))
  /\ SF_vars(\E p \in Procs : StartSync(p))

FairSpec == Spec /\ Fairness

-----------------------------------------------------------------------------
(* Properties *)

Shows == {"open", "revising", "superseded", "accepted", "changes_requested",
          "declined", "executed", "recorded", "withdrawn"}

\* A page that is not there shows none of these.
ASSUME ShowsAssumption == None \notin Shows

Row == [version : Versions, link : Links \cup {None}]

\* What a process may be in the middle of.
SendSteps == {"freeze", "freezing", "publish", "manifest", "email", "record",
              "recording", "unfreeze", "unfreezing", "unopen"}
After     == {"supersede", "idle"}
Statuses  == {"draft", "sent", "changes_requested", "accepted", "declined",
              "executed", "withdrawn"}

SendState == [at : SendSteps, v : Versions, a : Attempts, to : Attempts \cup {None},
              opened : BOOLEAN, left : SUBSET Roles]
Sending   == {o \in SendState : (o.at = "email" /\ o.to = None) => o.left = {}}
OnOne     == [at : {"supersede", "upload"}, v : Versions]
LoadingOp == [at : {"load"}, linked : BOOLEAN]
ClosingOp == [at : {"close"}, v : Versions, show : Shows, next : After]
Rewriting == [at : {"rewrite"}, v : Versions, to : Attempts, show : Shows, next : After]
Deciding  == [at : Verbs, bound : SUBSET Versions, torn : SUBSET Versions]
Tearing   == [at : {"teardown"}, torn : SUBSET Versions]
Syncing   == [at : {"sync"}]
Pulling   == [at : {"fetch", "pull"}, v : Versions, was : Statuses,
              left : SUBSET Links, got : SUBSET Links]

Ops == {Idle} \cup Sending \cup OnOne \cup LoadingOp \cup ClosingOp \cup Rewriting
         \cup Deciding \cup Tearing \cup Syncing \cup Pulling

Requests == {Idle} \cup [at : {"closed", "store", "mark"}, link : Links,
                         action : Answers, stamp : 0..MaxAnswers]

DatabaseOK ==
  /\ latest \in Versions
  /\ sent \subseteq Versions
  /\ recips \in [Versions -> Attempts \cup {None}]
  /\ signed \subseteq [version : Versions, link : Links \cup {None},
                       role : {"client", "countersign"}]
  /\ changes \subseteq Row
  /\ declined \in BOOLEAN /\ withdrawn \in BOOLEAN

PrivateOK ==
  /\ manifest \in {None} \cup [to : Attempts \cup {None}, open : BOOLEAN]
  /\ answers \in [Links -> {None} \cup [action : Answers, at : 0..MaxAnswers]]
  /\ closed \in [Versions -> Answers \cup {None}]

PublicOK == pages \in [Attempts -> Shows \cup {None}] /\ records \subseteq Versions

WorkerOK == req \in [Browsers -> Requests] /\ clock \in 0..MaxAnswers

HistoryOK ==
  /\ versionOf \in [Attempts -> Versions \cup {None}]
  /\ emailed \subseteq Links
  /\ sentBy \in [Versions -> Attempts \cup {None}]

TroublesOK == leftover \in BOOLEAN /\ faults \in 0..MaxFaults /\ crashes \in 0..MaxCrashes

\* The rows, the objects and every command's own copies have their types.
TypeOK ==
  /\ DatabaseOK /\ PrivateOK /\ PublicOK /\ WorkerOK /\ HistoryOK /\ TroublesOK
  /\ op \in [Procs -> Ops]

Quiet == \A p \in Procs : op[p] = Idle

\* A version takes one online response, whoever of its recipients gives it and
\* however many syncs pull it at once: an acceptance and a change request that
\* crossed at the Worker are never both recorded.
OneOnlineResponse ==
  \A v \in Versions :
    /\ \A l, k \in Answered(v) : l = k
    /\ \A s \in signed, c \in changes :
         ~(s.version = v /\ c.version = v /\ s.link # None /\ c.link # None)

\* A document is executed on the very version its client accepted.
CountersignsTheAccepted == \A v \in Versions : Countersigned(v) => ClientSigned(v)

\* The links of a send that rolled back, or was killed, never count: what is
\* recorded online came through a link of the send that went through.
OnlyTheSendCounts == \A v \in Versions : \A l \in Answered(v) : l[1] = sentBy[v]

\* A version is marked sent only when every recipient was mailed their own link.
SentReachedEveryone == \A v \in sent : {sentBy[v]} \X Roles \subseteq emailed

\* Someone holds a link the open manifest answers to.
Answerable == manifest # None /\ manifest.open /\ \E r \in Roles : <<manifest.to, r>> \in emailed

\* Between commands the manifest is open for the latest version's recipients
\* while the document is sent, and closed to everyone who holds a link otherwise.
ManifestTellsTheTruth ==
  (Quiet /\ ~leftover) =>
    /\ Status = "sent" => manifest = Manifest(recips[latest], TRUE)
    /\ Answerable => Status = "sent" /\ manifest.to = recips[latest]

\* Withdrawing closes the manifest: nobody who holds a link can answer.
WithdrawnIsClosed == (Quiet /\ ~leftover /\ withdrawn) => ~Answerable

\* What the pages of a sent version should show.
Expected(v) ==
  IF withdrawn THEN {"withdrawn"}
  ELSE IF ~IsLatestSent(v) THEN {"superseded"}
  ELSE IF v # latest THEN {"revising"}
  ELSE IF Status = "sent" THEN {"open"}
  ELSE IF Status = "executed" THEN {"executed", "recorded"}
  ELSE {Status}

\* Between commands every recipient's page of every version that was sent says
\* where the document stands now.
PagesTellTheTruth ==
  (Quiet /\ ~leftover) => \A v \in sent : pages[recips[v]] \in Expected(v)

\* A version waiting for its signer can be answered: the Worker holds no marker
\* against it, unless one of the very links it was sent with was used.
SentCanBeAnswered ==
  (Quiet /\ ~leftover /\ Status = "sent") =>
    closed[latest] = None \/ \E l \in Live(latest) : answers[l] # None

\* No page ever links a signing record that is not there.
LinkedRecordExists ==
  \A a \in Attempts : pages[a] = "recorded" => versionOf[a] \in records

\* A response stored for a version that waits for one moves the document on:
\* it is recorded, or the operator acted first.
StoredAnswerSettles ==
  (Status = "sent" /\ \E l \in Live(latest) : answers[l] # None) ~> (Status # "sent")

\* The status goes through the words the guard table allows, and an acceptance
\* binds the version that was latest when it was given.
AcceptedVersion ==
  IF \E v \in Versions : ClientSigned(v)
  THEN CHOOSE v \in Versions : ClientSigned(v)
  ELSE None

Life == INSTANCE DocumentLife WITH
          status <- Status, version <- latest, agreed <- AcceptedVersion

LifeSpec == Life!Spec
=============================================================================
