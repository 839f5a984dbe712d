---------------------------- MODULE DatabaseGate ----------------------------
(***************************************************************************)
(* The gate between requests and what rewrites the database file under     *)
(* them: encrypting, rekeying, decrypting and switching the data directory *)
(* (server/state.rs, server/routes/mod.rs, settings.rs, status.rs,         *)
(* imports.rs, password.rs).                                               *)
(*                                                                         *)
(* A request waits its turn at the gate, reads which database is served,   *)
(* and hands its guard to a task on the blocking pool. The client may hang *)
(* up at any point; a task that has begun runs to its end.                 *)
(***************************************************************************)
EXTENDS Naturals, FiniteSets, Sequences, SequencesExt

CONSTANTS
  Requests,   \* requests in flight at once
  Nothing,    \* no password
  Dirs,       \* data directories with books in them
  Passwords,
  MaxFaults   \* bound: tasks that fail halfway and processes that die

ASSUME GateAssumption == Nothing \notin Passwords /\ MaxFaults \in Nat

VARIABLES
  served,     \* the directory whose database is served (AppState.db_path)
  stored,     \* the directory settings.json names
  keyed,      \* the process's database password, or Nothing
  cipher,     \* directory -> the password its file is encrypted with, or Nothing
  request,    \* what each request is doing
  queue,      \* requests waiting at the gate, in order
  guards,     \* requests whose guard is held, by the request or by its task
  faults,     \* bound: how many faults there were
  botched     \* history: a decrypt failed after its file was in place

gateVars == <<served, stored, keyed, cipher, request, queue, guards, faults, botched>>

\* What a request wants: to read or write books, to unlock them, or to change
\* the file or which file it is.
Rewriters == {"set", "change", "remove", "switch"}
Kinds == {"read", "unlock"} \cup Rewriters

\* Where it is: waiting, let in, or with its task at work on the file: opened,
\* checking a password, the password found right, the new file in place, the
\* new key adopted.
GateStages == {"away", "queued", "admitted", "open", "verifying", "verified", "swapped", "adopted"}
Away == [at |-> "away", kind |-> "read", dir |-> Nothing, key |-> Nothing, client |-> FALSE]

GateInit ==
  /\ served \in Dirs /\ stored = served
  /\ cipher \in [Dirs -> Passwords \cup {Nothing}]
  /\ keyed \in {Nothing, cipher[served]}
  /\ request = [r \in Requests |-> Away]
  /\ queue = <<>> /\ guards = {} /\ faults = 0 /\ botched = FALSE

(* ------------------------------ the steps ------------------------------ *)

files == <<served, stored, keyed, cipher, botched>>
At(r, stage) == request[r].at = stage
Moves(r, stage) == request' = [request EXCEPT ![r].at = stage]

\* A task at work has its database open.
HasOpen(r) == request[r].at \in {"open", "verifying", "swapped", "adopted"}

\* The task or the request ends, and its guard with it.
Ends(r) ==
  /\ request' = [request EXCEPT ![r] = Away] /\ guards' = guards \ {r} /\ queue' = queue

\* The unlock route asks whether there is anything to unlock before it waits;
\* the import routes look the upload up in the directory served before it.
Arrive(r, kind, key) ==
  /\ At(r, "away")
  /\ kind = "unlock" => cipher[served] # Nothing /\ keyed = Nothing
  /\ (key = Nothing) <=> kind \in {"read", "switch"}
  /\ request' = [request EXCEPT ![r] =
       [at |-> "queued", kind |-> kind, dir |-> served, key |-> key, client |-> TRUE]]
  /\ queue' = Append(queue, r)
  /\ UNCHANGED <<files, guards, faults>>

\* Mutant: a reader passes the rewriters that wait.
MayEnterReadersFirst(r) ==
  IF request[r].kind \in Rewriters THEN Head(queue) = r /\ guards = {}
  ELSE \A q \in guards : request[q].kind \notin Rewriters

\* tokio's lock is fair: a reader shares the gate with readers, and nobody
\* passes a request that was there before.
MayEnter(r) ==
  /\ queue # <<>> /\ Head(queue) = r
  /\ IF request[r].kind \in Rewriters THEN guards = {}
     ELSE \A q \in guards : request[q].kind \notin Rewriters

Admit(r) ==
  /\ At(r, "queued") /\ MayEnter(r)
  /\ Moves(r, "admitted") /\ queue' = RemoveFirst(queue, r) /\ guards' = guards \cup {r}
  /\ UNCHANGED <<files, faults>>

\* Mutant: the guard is the request's, not its task's.
HangupReleases(r) ==
  /\ request[r].client
  /\ IF HasOpen(r) THEN Moves(r, request[r].at) /\ queue' = queue
     ELSE request' = [request EXCEPT ![r] = Away] /\ queue' = RemoveFirst(queue, r)
  /\ guards' = guards \ {r}
  /\ UNCHANGED <<files, faults>>

\* The client hangs up: a request that has not begun its task is dropped, with
\* its guard; a task goes on.
Hangup(r) ==
  /\ request[r].client
  /\ IF HasOpen(r)
     THEN request' = [request EXCEPT ![r].client = FALSE] /\ UNCHANGED <<queue, guards>>
     ELSE /\ request' = [request EXCEPT ![r] = Away]
          /\ queue' = RemoveFirst(queue, r) /\ guards' = guards \ {r}
  /\ UNCHANGED <<files, faults>>

\* What the request finds under its guard, and whether its task can begin.
Fit(r) ==
  CASE request[r].kind = "read"   -> cipher[served] = keyed
    [] request[r].kind = "unlock" -> cipher[served] = request[r].key
    [] request[r].kind = "set"    -> cipher[served] = Nothing
    [] request[r].kind \in {"change", "remove"} -> cipher[served] # Nothing
    [] OTHER -> TRUE

\* Mutant: the path is the one read before the wait.
OpenAsArrived(r) ==
  /\ At(r, "admitted") /\ Fit(r)
  /\ Moves(r, IF request[r].kind \in {"change", "remove"} THEN "verifying" ELSE "open")
  /\ UNCHANGED <<files, queue, guards, faults>>

Open(r) ==
  /\ At(r, "admitted") /\ Fit(r)
  /\ request' = [request EXCEPT ![r].dir = served,
       ![r].at = IF request[r].kind \in {"change", "remove"} THEN "verifying" ELSE "open"]
  /\ UNCHANGED <<files, queue, guards, faults>>

Refuse(r) == At(r, "admitted") /\ ~Fit(r) /\ Ends(r) /\ UNCHANGED <<files, faults>>

Finish(r) == At(r, "open") /\ request[r].kind = "read" /\ Ends(r) /\ UNCHANGED <<files, faults>>

\* The current password is checked in a task of its own, under the same guard,
\* which goes back to the request if that is still there.
Verify(r) ==
  /\ At(r, "verifying")
  /\ IF cipher[request[r].dir] = request[r].key /\ request[r].client
     THEN Moves(r, "verified") /\ UNCHANGED <<queue, guards>> ELSE Ends(r)
  /\ UNCHANGED <<files, faults>>

Proceed(r) == At(r, "verified") /\ Moves(r, "open") /\ UNCHANGED <<files, queue, guards, faults>>

\* The file is replaced or rekeyed in place; a switch saves the settings.
Rewrite(r, new) ==
  /\ At(r, "open") /\ request[r].kind \in Rewriters
  /\ CASE request[r].kind = "set"    -> new = request[r].key
       [] request[r].kind = "remove" -> new = Nothing
       [] request[r].kind = "change" -> new \in Passwords
       [] OTHER -> new \in Dirs
  /\ IF request[r].kind = "switch" THEN stored' = new /\ cipher' = cipher
     ELSE cipher' = [cipher EXCEPT ![request[r].dir] = new] /\ stored' = stored
  /\ request' = [request EXCEPT ![r].at = "swapped", ![r].key = new]
  /\ UNCHANGED <<served, keyed, botched, queue, guards, faults>>

\* Mutant: a switch keeps the key of the directory it leaves.
AdoptKeepsKey(r) ==
  /\ At(r, "swapped") /\ Ends(r)
  /\ IF request[r].kind = "switch" THEN served' = request[r].key /\ keyed' = keyed
     ELSE keyed' = request[r].key /\ served' = served
  /\ UNCHANGED <<stored, cipher, botched, faults>>

\* Only then does the process take the new key, or the new directory with none.
Adopt(r) ==
  /\ At(r, "swapped") /\ Ends(r)
  /\ IF request[r].kind = "switch" THEN served' = request[r].key /\ keyed' = Nothing
     ELSE keyed' = request[r].key /\ served' = served
  /\ UNCHANGED <<stored, cipher, botched, faults>>

\* An unlock takes the key, then migrates; it gives the key back if that fails.
TakeKey(r) ==
  /\ At(r, "open") /\ request[r].kind = "unlock"
  /\ keyed' = request[r].key /\ Moves(r, "adopted")
  /\ UNCHANGED <<served, stored, cipher, botched, queue, guards, faults>>

Migrated(r) == At(r, "adopted") /\ Ends(r) /\ UNCHANGED <<files, faults>>

MigrationFails(r) ==
  /\ faults < MaxFaults /\ faults' = faults + 1
  /\ At(r, "adopted") /\ Ends(r) /\ keyed' = Nothing
  /\ UNCHANGED <<served, stored, cipher, botched>>

\* A rewrite fails before the file is in place, or after it, when its
\* permissions cannot be set (password.rs); the settings' last step is the
\* rename, and rekeying is one statement.
RewriteFails(r) ==
  /\ faults < MaxFaults /\ faults' = faults + 1
  /\ \/ At(r, "open") /\ request[r].kind \in Rewriters /\ botched' = botched
     \/ At(r, "swapped") /\ request[r].kind \in {"set", "remove"}
          /\ botched' = (botched \/ request[r].kind = "remove")
  /\ Ends(r) /\ UNCHANGED <<served, stored, keyed, cipher>>

\* The process dies and starts again on the directory the settings name,
\* without a key.
Restart ==
  /\ faults < MaxFaults /\ faults' = faults + 1
  /\ served' = stored /\ keyed' = Nothing /\ botched' = FALSE
  /\ request' = [r \in Requests |-> Away] /\ queue' = <<>> /\ guards' = {}
  /\ UNCHANGED <<stored, cipher>>

(* --------------------------- the specification ------------------------- *)

TaskStep(r) ==
  \/ Open(r) \/ Refuse(r) \/ Finish(r) \/ Verify(r) \/ Proceed(r)
  \/ \E new \in Dirs \cup Passwords \cup {Nothing} : Rewrite(r, new)
  \/ Adopt(r) \/ TakeKey(r) \/ Migrated(r)

GateNext ==
  \/ \E r \in Requests :
       \/ \E kind \in Kinds, key \in Passwords \cup {Nothing} : Arrive(r, kind, key)
       \/ Admit(r) \/ Hangup(r) \/ TaskStep(r) \/ MigrationFails(r) \/ RewriteFails(r)
  \/ Restart

\* The runtime polls what it can let in, and blocking tasks run to their end.
GateFairness == \A r \in Requests : WF_gateVars(Admit(r)) /\ WF_gateVars(TaskStep(r))

GateSpec == GateInit /\ [][GateNext]_gateVars /\ GateFairness

(* ------------------------------ properties ----------------------------- *)

\* Who waits is in the queue once, and who was let in holds a guard until its
\* task is done, its client there or not.
GateTypeOK ==
  /\ served \in Dirs /\ stored \in Dirs
  /\ cipher \in [Dirs -> Passwords \cup {Nothing}] /\ keyed \in Passwords \cup {Nothing}
  /\ request \in [Requests ->
       [at : GateStages, kind : Kinds, dir : Dirs \cup {Nothing},
        key : Passwords \cup Dirs \cup {Nothing}, client : BOOLEAN]]
  /\ IsInjective(queue) /\ Range(queue) = {r \in Requests : At(r, "queued")}
  /\ guards = {r \in Requests : request[r].at \notin {"away", "queued"}}

\* Nobody has the database open while its file is rewritten or the directory
\* is switched, though the client that asked for either hung up long ago.
NobodyReadsARewrittenFile ==
  \A r, q \in Requests :
    HasOpen(r) /\ request[r].kind \in Rewriters /\ HasOpen(q) => r = q

\* What a task has open is the database the server serves, from the task's
\* first statement to its last.
OpensTheServedBooks == \A r \in Requests : HasOpen(r) => request[r].dir = served

\* The key the process holds is the key of the file it serves, whenever no
\* rewrite is under way; a decrypt that fails after its file is in place is
\* the exception until a restart.
KeyFitsTheFile ==
  (\A r \in guards : request[r].kind \notin Rewriters) /\ keyed # Nothing /\ ~botched
    => cipher[served] = keyed

\* Whoever waits at the gate gets in, a rewrite among readers that never stop
\* coming as well, unless the client hangs up or the process dies.
EveryoneGetsTheirTurn == \A r \in Requests : At(r, "queued") ~> ~At(r, "queued")
=============================================================================
