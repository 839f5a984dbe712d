------------------------- MODULE MCDocumentSigning -------------------------
(* Instances of DocumentSigning for TLC. *)
EXTENDS DocumentSigning, TLC

\* Requests at the Worker, and commands, are interchangeable.
Interchangeable == Permutations(Procs) \cup Permutations(Browsers)
=============================================================================
