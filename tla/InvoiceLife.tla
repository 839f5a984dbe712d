---------------------------- MODULE InvoiceLife ----------------------------
(***************************************************************************)
(* What the books promise of one invoice: money only comes in, the figures *)
(* never move under a payment, and void, paid and deleted are final.       *)
(***************************************************************************)
EXTENDS Naturals

CONSTANT Totals  \* what the line items can add up to

VARIABLES
  standing,  \* "draft", "open", "paid", "void" or "deleted"
  total,     \* what is billed, nothing once deleted
  received   \* what was paid

Init == standing = "draft" /\ total \in Totals /\ received = 0

\* The standing follows the money, in a step of its own.
Settles == received >= total

Edit    == standing = "draft" /\ received = 0 /\ total' \in Totals /\ UNCHANGED <<standing, received>>
Receive == standing \in {"draft", "open", "paid"} /\ received' > received /\ UNCHANGED <<standing, total>>
Settle  == Settles /\ standing \in {"draft", "open"} /\ standing' = "paid" /\ UNCHANGED <<total, received>>
Send    == ~Settles /\ standing = "draft" /\ standing' = "open" /\ UNCHANGED <<total, received>>
Void    == received = 0 /\ standing \in {"draft", "open"} /\ standing' = "void" /\ UNCHANGED <<total, received>>
Delete  == received = 0 /\ standing = "draft" /\ standing' = "deleted" /\ total' = 0 /\ UNCHANGED received

Next == Edit \/ Receive \/ Settle \/ Send \/ Void \/ Delete

Spec == Init /\ [][Next]_<<standing, total, received>>
=============================================================================
