---------------------------- MODULE DocumentLife ----------------------------
(***************************************************************************)
(* What the guard table promises about a document, on its own              *)
(* (crates/nigel-core/src/documents/guards.rs): the words its status goes  *)
(* through and the version its parties end up agreeing on.                 *)
(***************************************************************************)
EXTENDS Naturals

CONSTANT None

VARIABLES
  status,   \* the derived status
  version,  \* the number of the latest version
  agreed    \* the version the client accepted

Init == status = "draft" /\ version = 1 /\ agreed = None

Step(from, to) == status \in from /\ status' = to

Open == {"sent", "changes_requested"}

Send           == Step({"draft"}, "sent") /\ UNCHANGED <<version, agreed>>
RequestChanges == Step({"sent"}, "changes_requested") /\ UNCHANGED <<version, agreed>>
Decline        == Step(Open, "declined") /\ UNCHANGED <<version, agreed>>
Withdraw       == Step(Open \cup {"draft"}, "withdrawn") /\ UNCHANGED <<version, agreed>>
Revise         == Step(Open, "draft") /\ version' = version + 1 /\ UNCHANGED agreed
Accept         == Step(Open, "accepted") /\ agreed' = version /\ UNCHANGED version
Countersign    == Step({"accepted"}, "executed") /\ UNCHANGED <<version, agreed>>

Next == Send \/ RequestChanges \/ Decline \/ Withdraw \/ Revise \/ Accept \/ Countersign

Spec == Init /\ [][Next]_<<status, version, agreed>>
=============================================================================
