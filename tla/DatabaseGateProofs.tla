------------------------ MODULE DatabaseGateProofs ------------------------
(***************************************************************************)
(* Proofs about DatabaseGate, for any number of requests, data directories,*)
(* passwords and faults.                                                   *)
(***************************************************************************)
EXTENDS DatabaseGate, SequenceTheorems, NaturalsInduction, WellFoundedInduction, TLAPS

-----------------------------------------------------------------------------
(* The inductive invariant *)

\* What a request holds at any stage.
Records ==
  [at : GateStages, kind : Kinds, dir : Dirs \cup {Nothing},
   key : Passwords \cup Dirs \cup {Nothing}, client : BOOLEAN]

\* The stages that have read the directory they work on.
Working == {"verifying", "verified", "open", "swapped", "adopted"}

\* The variables have their types.
GateKinds ==
  /\ served \in Dirs /\ stored \in Dirs
  /\ cipher \in [Dirs -> Passwords \cup {Nothing}] /\ keyed \in Passwords \cup {Nothing}
  /\ request \in [Requests -> Records] /\ guards \subseteq Requests

\* A request has a place in the gate from when it is let in until it answers.
Held == \A r \in Requests : r \in guards <=> request[r].at \notin {"away", "queued"}

\* One that rewrites has the gate to itself.
Alone == \A r, q \in guards : request[r].kind \in Rewriters => r = q

\* The stages only some kinds of request reach.
Staged ==
  \A r \in Requests :
    /\ request[r].at \in {"verifying", "verified"} => request[r].kind \in {"change", "remove"}
    /\ request[r].at = "swapped" => request[r].kind \in Rewriters
    /\ request[r].at = "adopted" => request[r].kind = "unlock"

\* What a request carries: the password it names, and once it has swapped
\* a file or a directory, what it swapped to.
KeysGiven ==
  \A r \in Requests :
    /\ request[r].at \notin {"away", "swapped"} /\ request[r].kind \in {"unlock", "set", "change", "remove"}
         => request[r].key \in Passwords
    /\ request[r].at = "swapped" /\ request[r].kind = "switch" => request[r].key \in Dirs

\* The directory a task works on is the one being served all along: only a
\* switch moves it, and a switch is alone.
WorkOnServed == \A r \in Requests : request[r].at \in Working => request[r].dir = served

\* What a task saw to be so is so until it ends: the key that opened the file,
\* the key the file was rewritten with, and that the file had none.
Found ==
  \A r \in Requests :
    /\ request[r].at \in {"open", "adopted"} /\ request[r].kind = "unlock" => cipher[served] = request[r].key
    /\ request[r].at = "swapped" /\ request[r].kind # "switch" => cipher[served] = request[r].key
    /\ request[r].at \in {"open", "swapped"} /\ request[r].kind = "set" /\ ~botched => keyed = Nothing

\* The key in memory opens the served file, but for the moment between the
\* file's swap and the key's, and after a decrypt that failed past its rename.
KeyHeld ==
  keyed # Nothing /\ ~botched /\ (\A r \in Requests : request[r].at = "swapped" => request[r].kind = "switch")
    => cipher[served] = keyed

\* The four parts a property follows from and the four they rest on.
GateInv ==
  /\ GateKinds /\ Held /\ Alone /\ Staged /\ KeysGiven /\ WorkOnServed /\ Found /\ KeyHeld
-----------------------------------------------------------------------------
(* The steps *)

\* A request that waits at the gate has nothing open.
LEMMA ArriveKeeps ==
  ASSUME GateInv, NEW r \in Requests, NEW kind \in Kinds, NEW key \in Passwords \cup {Nothing}, Arrive(r, kind, key)
  PROVE  GateInv'
<1>1. GateKinds'
  BY DEF GateInv, GateKinds, Records, GateStages, Arrive, files
<1>2. Held'
  BY DEF GateInv, Held, Arrive, At
<1>3. Alone'
  BY DEF GateInv, Held, Alone, Arrive, At
<1>4. Staged'
  BY DEF GateInv, Staged, Arrive
<1>5. KeysGiven'
  BY DEF GateInv, KeysGiven, Arrive
<1>6. WorkOnServed'
  BY DEF GateInv, WorkOnServed, Arrive, files
<1>7. Found'
  BY DEF GateInv, Found, Arrive, files
<1>8. KeyHeld'
  BY DEF GateInv, KeyHeld, Arrive, At, files
<1> QED
  BY <1>1, <1>2, <1>3, <1>4, <1>5, <1>6, <1>7, <1>8 DEF GateInv

\* Whoever is let in is alone or among requests that rewrite nothing, and reads
\* the directory then.
LEMMA AdmitKeeps ==
  ASSUME GateInv, NEW r \in Requests, Admit(r)
  PROVE  GateInv'
<1>1. GateKinds'
  BY DEF GateInv, GateKinds, Records, GateStages, Admit, Moves, files
<1>2. Held'
  BY DEF GateInv, GateKinds, Held, Admit, Moves
<1>3. Alone'
  BY DEF GateInv, Alone, Admit, MayEnter, Moves
<1>4. Staged'
  BY DEF GateInv, Staged, Admit, Moves
<1>5. KeysGiven'
  BY DEF GateInv, KeysGiven, Admit, At, Moves
<1>6. WorkOnServed'
  BY DEF GateInv, WorkOnServed, Working, Admit, Moves, files
<1>7. Found'
  BY DEF GateInv, Found, Admit, Moves, files
<1>8. KeyHeld'
  BY DEF GateInv, KeyHeld, Admit, At, Moves, files
<1> QED
  BY <1>1, <1>2, <1>3, <1>4, <1>5, <1>6, <1>7, <1>8 DEF GateInv

\* A client that is gone takes its place in the gate along only when no task has
\* the database open.
LEMMA HangupKeeps ==
  ASSUME GateInv, NEW r \in Requests, Hangup(r)
  PROVE  GateInv'
<1>1. GateKinds'
  <2>1. request' \in [Requests -> Records] /\ guards' \subseteq Requests
    <3>1. [request[r] EXCEPT !.client = FALSE] \in Records
      BY DEF GateInv, GateKinds, Records
    <3>2. Away \in Records
      BY DEF Away, Records, GateStages, Kinds
    <3> QED
      BY <3>1, <3>2 DEF GateInv, GateKinds, Hangup
  <2> QED
    BY <2>1 DEF GateInv, GateKinds, Hangup, files
<1>2. Held'
  BY DEF GateInv, GateKinds, Records, Held, Hangup, Away
<1>3. Alone'
  BY DEF GateInv, GateKinds, Records, Alone, Hangup
<1>4. Staged'
  BY DEF GateInv, GateKinds, Records, Staged, Hangup, Away
<1>5. KeysGiven'
  BY DEF GateInv, GateKinds, Records, KeysGiven, Hangup, Away
<1>6. WorkOnServed'
  BY DEF GateInv, GateKinds, Records, Staged, WorkOnServed, Working, Hangup, Away, files
<1>7. Found'
  BY DEF GateInv, GateKinds, Records, Found, Hangup, Away, files
<1>8. KeyHeld'
  BY DEF GateInv, GateKinds, Records, KeyHeld, Hangup, HasOpen, files
<1> QED
  BY <1>1, <1>2, <1>3, <1>4, <1>5, <1>6, <1>7, <1>8 DEF GateInv

\* A task opens the file with the key in memory or the password it was given.
LEMMA OpenKeeps ==
  ASSUME GateInv, NEW r \in Requests, Open(r)
  PROVE  GateInv'
<1>1. GateKinds'
  BY DEF GateInv, GateKinds, Records, Open, At
<1>2. Held'
  BY DEF GateInv, GateKinds, Held, Open, At
<1>3. Alone'
  BY DEF GateInv, GateKinds, Alone, Open
<1>4. Staged'
  BY DEF GateInv, GateKinds, Staged, Open
<1>5. KeysGiven'
  BY DEF GateInv, GateKinds, KeysGiven, Open, At
<1>6. WorkOnServed'
  BY DEF GateInv, GateKinds, WorkOnServed, Open, files
<1>7. Found'
  BY DEF GateInv, GateKinds, Held, Alone, Staged, Found, KeyHeld, Open, Fit, At, files
<1>8. KeyHeld'
  BY DEF GateInv, Held, Alone, Staged, KeyHeld, Open, At, files
<1> QED
  BY <1>1, <1>2, <1>3, <1>4, <1>5, <1>6, <1>7, <1>8 DEF GateInv

\* A refused request changes nothing.
LEMMA RefuseKeeps ==
  ASSUME GateInv, NEW r \in Requests, Refuse(r)
  PROVE  GateInv'
<1>1. GateKinds'
  BY DEF GateInv, GateKinds, Records, GateStages, Kinds, Refuse, Ends, Away, files
<1>2. Held'
  BY DEF GateInv, GateKinds, Held, Refuse, Ends, Away
<1>3. Alone'
  BY DEF GateInv, Alone, Refuse, Ends
<1>4. Staged'
  BY DEF GateInv, Staged, Refuse, Ends, Away
<1>5. KeysGiven'
  BY DEF GateInv, KeysGiven, Refuse, Ends, Away
<1>6. WorkOnServed'
  BY DEF GateInv, WorkOnServed, Working, Refuse, Ends, Away, files
<1>7. Found'
  BY DEF GateInv, Found, Refuse, Ends, Away, files
<1>8. KeyHeld'
  BY DEF GateInv, KeyHeld, Refuse, Ends, At, files
<1> QED
  BY <1>1, <1>2, <1>3, <1>4, <1>5, <1>6, <1>7, <1>8 DEF GateInv

\* Nor does one that answers.
LEMMA FinishKeeps ==
  ASSUME GateInv, NEW r \in Requests, Finish(r)
  PROVE  GateInv'
<1>1. GateKinds'
  BY DEF GateInv, GateKinds, Records, GateStages, Finish, Ends, Away, files
<1>2. Held'
  BY DEF GateInv, GateKinds, Held, Finish, Ends, Away
<1>3. Alone'
  BY DEF GateInv, Alone, Finish, Ends
<1>4. Staged'
  BY DEF GateInv, Staged, Finish, Ends, Away
<1>5. KeysGiven'
  BY DEF GateInv, KeysGiven, Finish, Ends, Away
<1>6. WorkOnServed'
  BY DEF GateInv, WorkOnServed, Working, Finish, Ends, Away, files
<1>7. Found'
  BY DEF GateInv, Found, Finish, Ends, Away, files
<1>8. KeyHeld'
  BY DEF GateInv, KeyHeld, Finish, Ends, At, files
<1> QED
  BY <1>1, <1>2, <1>3, <1>4, <1>5, <1>6, <1>7, <1>8 DEF GateInv

\* A password is verified in a task of its own, the gate held.
LEMMA VerifyKeeps ==
  ASSUME GateInv, NEW r \in Requests, Verify(r)
  PROVE  GateInv'
<1>1. GateKinds'
  <2>1. request' \in [Requests -> Records] /\ guards' \subseteq Requests
    <3>1. [request[r] EXCEPT !.at = "verified"] \in Records
      BY DEF GateInv, GateKinds, Records, GateStages
    <3>2. Away \in Records
      BY DEF Away, Records, GateStages, Kinds
    <3> QED
      BY <3>1, <3>2 DEF GateInv, GateKinds, Verify, Moves, Ends
  <2> QED
    BY <2>1 DEF GateInv, GateKinds, Verify, files
<1>2. Held'
  BY DEF GateInv, GateKinds, Records, Held, Verify, Ends, Moves, Away, At
<1>3. Alone'
  BY DEF GateInv, GateKinds, Records, Alone, Verify, Ends, Moves
<1>4. Staged'
  BY DEF GateInv, GateKinds, Records, Staged, WorkOnServed, Verify, Ends, Moves, Away, At
<1>5. KeysGiven'
  BY DEF GateInv, GateKinds, Records, KeysGiven, Verify, Ends, Moves, Away, At
<1>6. WorkOnServed'
  BY DEF GateInv, GateKinds, Records, WorkOnServed, Working, Verify, Ends, Moves, Away, At, files
<1>7. Found'
  BY DEF GateInv, GateKinds, Records, Found, Verify, Ends, Moves, Away, files
<1>8. KeyHeld'
  BY DEF GateInv, Held, Alone, Staged, KeyHeld, Verify, At, files
<1> QED
  BY <1>1, <1>2, <1>3, <1>4, <1>5, <1>6, <1>7, <1>8 DEF GateInv

\* The second task of a change finds the file the first verified: nothing came
\* between.
LEMMA ProceedKeeps ==
  ASSUME GateInv, NEW r \in Requests, Proceed(r)
  PROVE  GateInv'
<1>1. GateKinds'
  BY DEF GateInv, GateKinds, Records, GateStages, Proceed, Moves, files
<1>2. Held'
  BY DEF GateInv, Held, Proceed, Moves, At
<1>3. Alone'
  BY DEF GateInv, Alone, Proceed, Moves
<1>4. Staged'
  BY DEF GateInv, Staged, Proceed, Moves
<1>5. KeysGiven'
  BY DEF GateInv, KeysGiven, Proceed, Moves, At
<1>6. WorkOnServed'
  BY DEF GateInv, WorkOnServed, Working, Proceed, Moves, At, files
<1>7. Found'
  BY DEF GateInv, Staged, Found, Proceed, Moves, At, files
<1>8. KeyHeld'
  BY DEF GateInv, KeyHeld, Proceed, Moves, At, files
<1> QED
  BY <1>1, <1>2, <1>3, <1>4, <1>5, <1>6, <1>7, <1>8 DEF GateInv

\* The file, or the directory the settings name, is swapped.
LEMMA RewriteKeeps ==
  ASSUME GateInv, NEW r \in Requests, NEW new \in Dirs \cup Passwords \cup {Nothing}, Rewrite(r, new)
  PROVE  GateInv'
<1>1. GateKinds'
  <2>1. request' \in [Requests -> Records]
    <3>1. [request[r] EXCEPT !.at = "swapped", !.key = new] \in Records
      BY DEF GateInv, GateKinds, Records, GateStages
    <3> QED
      BY <3>1 DEF GateInv, GateKinds, Rewrite
  <2>2. stored' \in Dirs
    BY DEF GateInv, GateKinds, Rewrite
  <2>3. cipher' \in [Dirs -> Passwords \cup {Nothing}]
    <3>1. CASE request[r].kind = "switch"
      BY <3>1 DEF GateInv, GateKinds, Rewrite
    <3>2. CASE request[r].kind # "switch"
      <4>1. new \in Passwords \cup {Nothing}
        BY <3>2 DEF GateInv, KeysGiven, Rewrite, At, Rewriters
      <4> QED
        BY <3>2, <4>1 DEF GateInv, GateKinds, Rewrite
    <3> QED
      BY <3>1, <3>2
  <2> QED
    BY <2>1, <2>2, <2>3 DEF GateInv, GateKinds, Rewrite
<1>2. Held'
  BY DEF GateInv, GateKinds, Held, Rewrite, At
<1>3. Alone'
  BY DEF GateInv, Held, Alone, Rewrite, At
<1>4. Staged'
  BY DEF GateInv, GateKinds, Staged, Rewrite
<1>5. KeysGiven'
  BY DEF GateInv, GateKinds, KeysGiven, Rewrite
<1>6. WorkOnServed'
  BY DEF GateInv, GateKinds, WorkOnServed, Working, Rewrite, At
<1>7. Found'
  BY DEF GateInv, GateKinds, Held, Alone, WorkOnServed, Working, Found, Rewrite, At
<1>8. KeyHeld'
  BY DEF GateInv, GateKinds, KeyHeld, Rewrite
<1> QED
  BY <1>1, <1>2, <1>3, <1>4, <1>5, <1>6, <1>7, <1>8 DEF GateInv

\* The key, or the directory, in memory follows what was swapped.
LEMMA AdoptKeeps ==
  ASSUME GateInv, NEW r \in Requests, Adopt(r)
  PROVE  GateInv'
<1>1. GateKinds'
  BY DEF GateInv, GateKinds, Records, GateStages, Kinds, KeysGiven, Found, Adopt, Ends, Away, At
<1>2. Held'
  BY DEF GateInv, GateKinds, Held, Adopt, Ends, Away
<1>3. Alone'
  BY DEF GateInv, Alone, Adopt, Ends
<1>4. Staged'
  BY DEF GateInv, Staged, Adopt, Ends, Away
<1>5. KeysGiven'
  BY DEF GateInv, KeysGiven, Adopt, Ends, Away
<1>6. WorkOnServed'
  BY DEF GateInv, GateKinds, Held, Alone, Staged, WorkOnServed, Working, Adopt, Ends, Away, At
<1>7. Found'
  BY DEF GateInv, GateKinds, Held, Alone, Staged, Found, Adopt, Ends, Away, At
<1>8. KeyHeld'
  BY DEF GateInv, Found, KeyHeld, Adopt, At
<1> QED
  BY <1>1, <1>2, <1>3, <1>4, <1>5, <1>6, <1>7, <1>8 DEF GateInv

\* An unlock keeps the key that opened the file.
LEMMA TakeKeyKeeps ==
  ASSUME GateInv, NEW r \in Requests, TakeKey(r)
  PROVE  GateInv'
<1>1. GateKinds'
  BY DEF GateInv, GateKinds, Records, GateStages, Found, TakeKey, Moves, At
<1>2. Held'
  BY DEF GateInv, Held, TakeKey, Moves, At
<1>3. Alone'
  BY DEF GateInv, Alone, TakeKey, Moves
<1>4. Staged'
  BY DEF GateInv, Staged, TakeKey, Moves
<1>5. KeysGiven'
  BY DEF GateInv, KeysGiven, TakeKey, Moves, At
<1>6. WorkOnServed'
  BY DEF GateInv, WorkOnServed, Working, TakeKey, Moves, At
<1>7. Found'
  BY DEF GateInv, Rewriters, Held, Alone, Found, TakeKey, Moves, At
<1>8. KeyHeld'
  BY DEF GateInv, Found, KeyHeld, TakeKey, At
<1> QED
  BY <1>1, <1>2, <1>3, <1>4, <1>5, <1>6, <1>7, <1>8 DEF GateInv

\* Migrations done, the unlock answers.
LEMMA MigratedKeeps ==
  ASSUME GateInv, NEW r \in Requests, Migrated(r)
  PROVE  GateInv'
<1>1. GateKinds'
  BY DEF GateInv, GateKinds, Records, GateStages, Kinds, Migrated, Ends, Away, files
<1>2. Held'
  BY DEF GateInv, GateKinds, Held, Migrated, Ends, Away
<1>3. Alone'
  BY DEF GateInv, Alone, Migrated, Ends
<1>4. Staged'
  BY DEF GateInv, Staged, Migrated, Ends, Away
<1>5. KeysGiven'
  BY DEF GateInv, KeysGiven, Migrated, Ends, Away
<1>6. WorkOnServed'
  BY DEF GateInv, WorkOnServed, Working, Migrated, Ends, Away, files
<1>7. Found'
  BY DEF GateInv, Found, Migrated, Ends, Away, files
<1>8. KeyHeld'
  BY DEF GateInv, KeyHeld, Migrated, Ends, At, files
<1> QED
  BY <1>1, <1>2, <1>3, <1>4, <1>5, <1>6, <1>7, <1>8 DEF GateInv

\* A failed migration takes the key back.
LEMMA MigrationFailsKeeps ==
  ASSUME GateInv, NEW r \in Requests, MigrationFails(r)
  PROVE  GateInv'
<1>1. GateKinds'
  BY DEF GateInv, GateKinds, Records, GateStages, Kinds, MigrationFails, Ends, Away
<1>2. Held'
  BY DEF GateInv, GateKinds, Held, MigrationFails, Ends, Away
<1>3. Alone'
  BY DEF GateInv, Alone, MigrationFails, Ends
<1>4. Staged'
  BY DEF GateInv, Staged, MigrationFails, Ends, Away
<1>5. KeysGiven'
  BY DEF GateInv, KeysGiven, MigrationFails, Ends, Away
<1>6. WorkOnServed'
  BY DEF GateInv, WorkOnServed, Working, MigrationFails, Ends, Away
<1>7. Found'
  BY DEF GateInv, Found, MigrationFails, Ends, Away
<1>8. KeyHeld'
  BY DEF GateInv, KeyHeld, MigrationFails
<1> QED
  BY <1>1, <1>2, <1>3, <1>4, <1>5, <1>6, <1>7, <1>8 DEF GateInv

\* A rewrite fails before its rename, or after it when the permissions cannot be
\* set.
LEMMA RewriteFailsKeeps ==
  ASSUME GateInv, NEW r \in Requests, RewriteFails(r)
  PROVE  GateInv'
<1>1. GateKinds'
  BY DEF GateInv, GateKinds, Records, GateStages, Kinds, RewriteFails, Ends, Away
<1>2. Held'
  BY DEF GateInv, GateKinds, Held, RewriteFails, Ends, Away
<1>3. Alone'
  BY DEF GateInv, Alone, RewriteFails, Ends
<1>4. Staged'
  BY DEF GateInv, Staged, RewriteFails, Ends, Away
<1>5. KeysGiven'
  BY DEF GateInv, KeysGiven, RewriteFails, Ends, Away
<1>6. WorkOnServed'
  BY DEF GateInv, WorkOnServed, Working, RewriteFails, Ends, Away
<1>7. Found'
  BY DEF GateInv, GateKinds, Held, Alone, Found, RewriteFails, Ends, Away, At
<1>8. KeyHeld'
  <2>1. CASE request[r].at = "open"
    BY <2>1 DEF GateInv, KeyHeld, RewriteFails, Ends, At
  <2>2. CASE request[r].at = "swapped"
    BY <2>2 DEF GateInv, KeyHeld, Found, RewriteFails, At
  <2> QED
    BY <2>1, <2>2 DEF RewriteFails, At
<1> QED
  BY <1>1, <1>2, <1>3, <1>4, <1>5, <1>6, <1>7, <1>8 DEF GateInv

\* A restart forgets the requests and the key.
LEMMA RestartKeeps ==
  ASSUME GateInv, Restart
  PROVE  GateInv'
<1>1. GateKinds'
  BY DEF GateInv, GateKinds, Records, GateStages, Kinds, Restart, Away
<1>2. Held'
  BY DEF GateInv, Held, Restart, Away
<1>3. Alone'
  BY DEF GateInv, Alone, Restart
<1>4. Staged'
  BY DEF GateInv, Staged, Restart, Away
<1>5. KeysGiven'
  BY DEF GateInv, KeysGiven, Restart, Away
<1>6. WorkOnServed'
  BY DEF GateInv, WorkOnServed, Working, Restart, Away
<1>7. Found'
  BY DEF GateInv, Found, Restart, Away
<1>8. KeyHeld'
  BY DEF GateInv, KeyHeld, Restart
<1> QED
  BY <1>1, <1>2, <1>3, <1>4, <1>5, <1>6, <1>7, <1>8 DEF GateInv

\* A server starts without a key and with nobody in the gate.
LEMMA GateStarts ==
  ASSUME GateInit
  PROVE  GateInv
<1>1. Away \in Records
  BY DEF Away, Records, GateStages, Kinds
<1>2. GateKinds
  BY <1>1 DEF GateInit, GateKinds
<1>3. Held /\ Alone /\ Staged /\ KeysGiven /\ WorkOnServed /\ Found
  BY DEF GateInit, Held, Alone, Staged, KeysGiven, WorkOnServed, Working, Found, Away
<1>4. KeyHeld
  BY DEF GateInit, KeyHeld
<1> QED
  BY <1>2, <1>3, <1>4 DEF GateInv

\* A step of something else changes nothing.
LEMMA GateStutters ==
  ASSUME GateInv, UNCHANGED gateVars
  PROVE  GateInv'
  BY DEF GateInv, gateVars, GateKinds, Held, Alone, Staged, KeysGiven, WorkOnServed, Found, KeyHeld

-----------------------------------------------------------------------------
(* The theorems *)

\* The inductive invariant holds: each step of a request, a hang-up and a
\* restart keep it.
THEOREM GateInvariant == GateSpec => []GateInv
<1>1. GateInit => GateInv
  BY GateStarts
<1>2. GateInv /\ [GateNext]_gateVars => GateInv'
  <2> SUFFICES ASSUME GateInv, [GateNext]_gateVars
               PROVE  GateInv'
    OBVIOUS
  <2>1. CASE \E r \in Requests, kind \in Kinds, key \in Passwords \cup {Nothing} : Arrive(r, kind, key)
    BY <2>1, ArriveKeeps
  <2>2. CASE \E r \in Requests : Admit(r) \/ Hangup(r) \/ MigrationFails(r) \/ RewriteFails(r)
    BY <2>2, AdmitKeeps, HangupKeeps, MigrationFailsKeeps, RewriteFailsKeeps
  <2>3. CASE \E r \in Requests : TaskStep(r)
    <3>1. PICK r \in Requests : TaskStep(r)
      BY <2>3
    <3>2. CASE Open(r) \/ Refuse(r) \/ Finish(r) \/ Verify(r) \/ Proceed(r)
      BY <3>2, OpenKeeps, RefuseKeeps, FinishKeeps, VerifyKeeps, ProceedKeeps
    <3>3. CASE \E new \in Dirs \cup Passwords \cup {Nothing} : Rewrite(r, new)
      BY <3>3, RewriteKeeps
    <3>4. CASE Adopt(r) \/ TakeKey(r) \/ Migrated(r)
      BY <3>4, AdoptKeeps, TakeKeyKeeps, MigratedKeeps
    <3> QED
      BY <3>1, <3>2, <3>3, <3>4 DEF TaskStep
  <2>4. CASE Restart
    BY <2>4, RestartKeeps
  <2>5. CASE UNCHANGED gateVars
    BY <2>5, GateStutters
  <2> QED
    BY <2>1, <2>2, <2>3, <2>4, <2>5 DEF GateNext
<1> QED
  BY <1>1, <1>2, PTL DEF GateSpec

\* While a request encrypts, rekeys, decrypts or switches the file no other task
\* has a database open, though its client hung up long ago (spawn_blocking_holding
\* keeps the gate's guard in the task).
THEOREM RewritesAlone == GateSpec => []NobodyReadsARewrittenFile
<1>1. GateInv => NobodyReadsARewrittenFile
  BY DEF GateInv, Held, Alone, HasOpen, NobodyReadsARewrittenFile
<1> QED
  BY <1>1, GateInvariant, PTL

\* A task opens the database of the directory being served, however long it
\* waited at the gate (with_conn_api reads the path once it is let in).
THEOREM ServedOnly == GateSpec => []OpensTheServedBooks
<1>1. GateInv => OpensTheServedBooks
  BY DEF GateInv, WorkOnServed, Working, HasOpen, OpensTheServedBooks
<1> QED
  BY <1>1, GateInvariant, PTL

\* With no rewriter in the gate the key in memory opens the served file, but
\* after a decrypt that failed past its rename.
THEOREM KeysFit == GateSpec => []KeyFitsTheFile
<1>1. GateInv => KeyFitsTheFile
  BY DEF GateInv, Held, Staged, KeyHeld, KeyFitsTheFile
<1> QED
  BY <1>1, GateInvariant, PTL

-----------------------------------------------------------------------------
(* The queue *)

\* Of a set of numbers, one is least.
LEMMA LeastPlace ==
  ASSUME NEW T \in SUBSET Nat, T # {}
  PROVE  Min(T) \in T
<1> DEFINE R == {ss \in Nat \X Nat : ss[1] < ss[2]}
<1>1. IsWellFoundedOn(R, Nat)
  BY NatLessThanWellFounded DEF OpToRel
<1>2. \A k, n \in Nat : k < n => <<k, n>> \in R
  OBVIOUS
<1> HIDE DEF R
<1>3. \E n \in T : \A k \in T : ~(<<k, n>> \in R)
  BY <1>1, WFMin, Zenon
<1>4. PICK n \in T : \A k \in T : ~(<<k, n>> \in R)
  BY <1>3
<1>5. \A k \in T : k \in Nat /\ n \in Nat /\ ~(k < n)
  BY <1>2, <1>4
<1>6. \A k \in T : n <= k
  BY <1>5
<1> QED
  BY <1>6 DEF Min

\* One place gone, the rest keep their order.
LEMMA PlaceGone ==
  ASSUME NEW S, NEW s \in Seq(S), NEW k \in DOMAIN s
  PROVE  /\ RemoveAt(s, k) \in Seq(S) /\ DOMAIN RemoveAt(s, k) = 1 .. Len(s) - 1
         /\ \A i \in 1 .. Len(s) - 1 : RemoveAt(s, k)[i] = s[IF i < k THEN i ELSE i + 1]
<1>1. PICK n : n = Len(s)
  OBVIOUS
<1>2. n \in Nat /\ k \in 1..n /\ DOMAIN s = 1..n
  BY <1>1
<1>3. PICK a, b : a = SubSeq(s, 1, k - 1) /\ b = SubSeq(s, k + 1, n)
  OBVIOUS
<1>4. a \in Seq(S) /\ Len(a) = k - 1 /\ \A i \in 1..k - 1 : a[i] = s[i]
  BY <1>1, <1>2, <1>3
<1>5. b \in Seq(S) /\ Len(b) = n - k /\ \A i \in 1..n - k : b[i] = s[k + i]
  BY <1>1, <1>2, <1>3
<1>6. PICK c : c = a \o b
  OBVIOUS
<1>7. c \in Seq(S) /\ Len(c) = n - 1 /\ \A i \in 1..n - 1 : c[i] = IF i <= k - 1 THEN a[i] ELSE b[i - (k - 1)]
  <2>1. c \in Seq(S) /\ Len(c) = Len(a) + Len(b)
    BY <1>4, <1>5, <1>6, ConcatProperties
  <2>2. \A i \in 1..Len(a) + Len(b) : c[i] = IF i <= Len(a) THEN a[i] ELSE b[i - Len(a)]
    BY <1>4, <1>5, <1>6, ConcatProperties
  <2>3. (k - 1) + (n - k) = n - 1
    BY <1>2
  <2>4. Len(a) + Len(b) = n - 1
    BY <1>4, <1>5, <2>3
  <2> QED
    BY <1>4, <2>1, <2>2, <2>4
<1>8. ASSUME NEW i \in 1..n - 1 PROVE c[i] = s[IF i < k THEN i ELSE i + 1]
  <2>1. CASE i < k
    BY <1>2, <1>4, <1>7, <2>1
  <2>2. CASE ~(i < k)
    <3>1. i - (k - 1) \in 1..n - k /\ k + (i - (k - 1)) = i + 1
      BY <1>2, <2>2
    <3>2. c[i] = b[i - (k - 1)]
      BY <1>2, <1>7, <2>2
    <3> QED
      BY <1>5, <2>2, <3>1, <3>2
  <2> QED
    BY <2>1, <2>2
<1>9. RemoveAt(s, k) = c
  BY <1>1, <1>3, <1>6 DEF RemoveAt
<1> QED
  BY <1>1, <1>2, <1>7, <1>8, <1>9

\* One who is in a queue once is not in it any more; nobody else has left.
LEMMA LeavesQueue ==
  ASSUME NEW S, NEW s \in Seq(S), IsInjective(s), NEW e
  PROVE  /\ RemoveFirst(s, e) \in Seq(S) /\ IsInjective(RemoveFirst(s, e))
         /\ Range(RemoveFirst(s, e)) = Range(s) \ {e}
<1>1. CASE \A i \in 1..Len(s) : s[i] # e
  <2>1. RemoveFirst(s, e) = s
    BY <1>1 DEF RemoveFirst, SelectInSeq
  <2> QED
    BY <1>1, <2>1 DEF Range
<1>2. CASE \E i \in 1..Len(s) : s[i] = e
  <2>1. PICK places : places = {i \in 1..Len(s) : s[i] = e}
    OBVIOUS
  <2>2. PICK k : k = Min(places)
    OBVIOUS
  <2>3. RemoveFirst(s, e) = RemoveAt(s, k)
    BY <1>2, <2>1, <2>2 DEF RemoveFirst, SelectInSeq
  <2>4. k \in DOMAIN s /\ s[k] = e
    <3>1. places \in SUBSET Nat /\ places # {}
      BY <1>2, <2>1
    <3> QED
      BY <2>1, <2>2, <3>1, LeastPlace
  <2>5. PICK new : new = RemoveAt(s, k)
    OBVIOUS
  <2>6. PICK n : n = Len(s)
    OBVIOUS
  <2>7. n \in Nat /\ k \in 1..n /\ DOMAIN s = 1..n
    BY <2>4, <2>6
  <2>8. new \in Seq(S) /\ DOMAIN new = 1..n - 1 /\ \A i \in 1..n - 1 : new[i] = s[IF i < k THEN i ELSE i + 1]
    BY <2>4, <2>5, <2>6, PlaceGone
  <2>9. IsInjective(new)
    <3> SUFFICES ASSUME NEW i \in 1..n - 1, NEW j \in 1..n - 1, new[i] = new[j] PROVE i = j
      BY <2>8 DEF IsInjective
    <3>1. PICK a, b : a = (IF i < k THEN i ELSE i + 1) /\ b = (IF j < k THEN j ELSE j + 1)
      OBVIOUS
    <3>2. a \in 1..n /\ b \in 1..n
      BY <2>7, <3>1
    <3>3. a = b
      BY <2>7, <2>8, <3>1, <3>2 DEF IsInjective
    <3> QED
      BY <2>7, <3>1, <3>3
  <2>10. Range(new) = Range(s) \ {e}
    <3>1. ASSUME NEW i \in 1..n - 1 PROVE new[i] \in Range(s) \ {e}
      <4>1. PICK a : a = (IF i < k THEN i ELSE i + 1)
        OBVIOUS
      <4>2. a \in 1..n /\ a # k
        BY <2>7, <4>1
      <4>3. s[a] # e /\ new[i] = s[a]
        BY <2>4, <2>7, <2>8, <4>1, <4>2 DEF IsInjective
      <4> QED
        BY <2>7, <4>2, <4>3 DEF Range
    <3>2. ASSUME NEW a \in 1..n, s[a] # e PROVE \E i \in 1..n - 1 : new[i] = s[a]
      <4>1. PICK i : i = IF a < k THEN a ELSE a - 1
        OBVIOUS
      <4>2. i \in 1..n - 1 /\ a = IF i < k THEN i ELSE i + 1
        BY <2>4, <2>7, <3>2, <4>1
      <4> QED
        BY <2>8, <4>2
    <3>3. ASSUME NEW x \in Range(new) PROVE x \in Range(s) \ {e}
      <4>1. PICK i \in 1..n - 1 : x = new[i]
        BY <2>8 DEF Range
      <4> QED
        BY <3>1, <4>1
    <3>4. ASSUME NEW x \in Range(s) \ {e} PROVE x \in Range(new)
      <4>1. PICK a \in 1..n : x = s[a]
        BY <2>7 DEF Range
      <4>2. PICK i \in 1..n - 1 : new[i] = s[a]
        BY <3>2, <4>1
      <4> QED
        BY <2>8, <4>1, <4>2 DEF Range
    <3> QED
      BY <3>3, <3>4
  <2> QED
    BY <2>3, <2>5, <2>8, <2>9, <2>10
<1> QED
  BY <1>1, <1>2

\* Who waits is in the queue, once.
Waiters  == {r \in Requests : At(r, "queued")}
QueueInv == queue \in Seq(Requests) /\ IsInjective(queue) /\ Range(queue) = Waiters

LEMMA SameQueue ==
  ASSUME QueueInv, UNCHANGED queue, \A r \in Requests : At(r, "queued")' <=> At(r, "queued")
  PROVE  QueueInv'
<1>1. Waiters' = Waiters
  BY DEF Waiters
<1> QED
  BY <1>1 DEF QueueInv

LEMMA ArriveQueues ==
  ASSUME GateInv, QueueInv, NEW r \in Requests, NEW kind, NEW key, Arrive(r, kind, key)
  PROVE  QueueInv'
<1>1. PICK n \in Nat : n = Len(queue) /\ DOMAIN queue = 1..n
  BY DEF QueueInv
<1>2. queue' = Append(queue, r) /\ r \notin Range(queue)
  BY DEF QueueInv, Waiters, Arrive, At
<1>3. /\ queue' \in Seq(Requests) /\ DOMAIN queue' = 1..n + 1 /\ queue'[n + 1] = r
      /\ \A i \in 1..n : queue'[i] = queue[i]
  BY <1>1, <1>2 DEF QueueInv
<1>4. \A i \in 1..n + 1 : i = n + 1 \/ i \in 1..n
  BY <1>1
<1>5. \A i \in 1..n : queue[i] # r
  BY <1>1, <1>2 DEF Range
<1>6. IsInjective(queue')
  BY <1>1, <1>3, <1>4, <1>5 DEF QueueInv, IsInjective
<1>7. Range(queue') = Range(queue) \cup {r}
  <2>1. \A x \in Range(queue') : x \in Range(queue) \cup {r}
    BY <1>1, <1>3, <1>4 DEF Range
  <2>2. n + 1 \in 1..n + 1 /\ \A i \in 1..n : i \in 1..n + 1
    BY <1>1
  <2>3. \A x \in Range(queue) \cup {r} : x \in Range(queue')
    BY <1>1, <1>3, <2>2 DEF Range
  <2> QED
    BY <2>1, <2>3
<1>8. Waiters' = Waiters \cup {r}
  BY DEF GateInv, GateKinds, Waiters, At, Arrive
<1> QED
  BY <1>3, <1>6, <1>7, <1>8 DEF QueueInv

LEMMA LeaveQueues ==
  ASSUME QueueInv, NEW r \in Requests, queue' = RemoveFirst(queue, r), ~At(r, "queued")',
         \A q \in Requests : q # r => (At(q, "queued")' <=> At(q, "queued"))
  PROVE  QueueInv'
<1>1. Waiters' = Waiters \ {r}
  BY DEF Waiters
<1> QED
  BY <1>1, LeavesQueue DEF QueueInv

LEMMA GateQueues == GateInv /\ QueueInv /\ [GateNext]_gateVars => QueueInv'
<1> SUFFICES ASSUME GateInv, QueueInv, [GateNext]_gateVars PROVE QueueInv'
  OBVIOUS
<1>1. CASE UNCHANGED gateVars
  BY <1>1, SameQueue DEF gateVars, At
<1>2. ASSUME NEW r \in Requests, NEW kind \in Kinds, NEW key \in Passwords \cup {Nothing}, Arrive(r, kind, key)
      PROVE  QueueInv'
  BY <1>2, ArriveQueues
<1>3. ASSUME NEW r \in Requests, Admit(r) PROVE QueueInv'
  BY <1>3, LeaveQueues DEF Admit, Moves, At, GateInv, GateKinds, Records
<1>4. ASSUME NEW r \in Requests, Hangup(r) PROVE QueueInv'
  <2>1. CASE HasOpen(r)
    BY <1>4, <2>1, SameQueue DEF Hangup, At, GateInv, GateKinds, Records
  <2>2. CASE ~HasOpen(r)
    BY <1>4, <2>2, LeaveQueues DEF Hangup, At, Away, GateInv, GateKinds, Records
  <2> QED
    BY <2>1, <2>2
<1>5. ASSUME NEW r \in Requests, TaskStep(r) \/ MigrationFails(r) \/ RewriteFails(r) PROVE QueueInv'
  <2>1. UNCHANGED queue
    BY <1>5 DEF TaskStep, Open, Refuse, Finish, Verify, Proceed, Rewrite, Adopt, TakeKey, Migrated,
       MigrationFails, RewriteFails, Ends
  <2>2. ~At(r, "queued")
    BY <1>5 DEF TaskStep, Open, Refuse, Finish, Verify, Proceed, Rewrite, Adopt, TakeKey, Migrated,
       MigrationFails, RewriteFails, At
  <2>3. request'[r].at # "queued" /\ \A q \in Requests : q # r => request'[q] = request[q]
    <3>1. request \in [Requests -> Records]
      BY DEF GateInv, GateKinds
    <3>2. CASE Ends(r)
      BY <3>1, <3>2 DEF Ends, Away
    <3>3. CASE Open(r) \/ Verify(r) \/ Proceed(r) \/ TakeKey(r)
      BY <3>1, <3>3 DEF Open, Verify, Proceed, TakeKey, Moves, Ends, Away, Records
    <3>4. CASE \E new \in Dirs \cup Passwords \cup {Nothing} : Rewrite(r, new)
      BY <3>1, <3>4 DEF Rewrite, Records
    <3> QED
      BY <1>5, <3>2, <3>3, <3>4 DEF TaskStep, Refuse, Finish, Adopt, Migrated, MigrationFails, RewriteFails
  <2>4. \A q \in Requests : At(q, "queued")' <=> At(q, "queued")
    BY <2>2, <2>3 DEF At, GateInv, GateKinds
  <2> QED
    BY <2>1, <2>4, SameQueue
<1>6. CASE Restart
  <2>1. Waiters' = {} /\ queue' = <<>>
    BY <1>6 DEF Waiters, Restart, At, Away
  <2> QED
    BY <2>1 DEF QueueInv, IsInjective, Range
<1> QED
  BY <1>1, <1>2, <1>3, <1>4, <1>5, <1>6 DEF GateNext

\* The variables have their types; who waits is in the queue once, and who was
\* let in holds a guard until its task is done, its client there or not.
THEOREM GateTyped == GateSpec => []GateTypeOK
<1>1. GateInit => QueueInv
  BY DEF GateInit, QueueInv, Waiters, At, Away, IsInjective, Range
<1>2. GateInv /\ QueueInv => GateTypeOK
  BY DEF GateInv, GateKinds, Held, Records, QueueInv, Waiters, GateTypeOK
<1> QED
  BY <1>1, <1>2, GateQueues, GateInvariant, PTL DEF GateSpec
=============================================================================
