---------------------------- MODULE MCInvoicing ----------------------------
(* Invoicing on small instances: no due date or one on the first day, totals *)
(* of one or two units, payments by hand of one.                            *)
EXTENDS Invoicing, TLC

MCDueDates == {None, 0}

Symmetry == Permutations(Procs)
=============================================================================
