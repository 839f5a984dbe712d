----------------------------- MODULE DeskProofs -----------------------------
(***************************************************************************)
(* Proofs about MCDesk: each of the four parts it puts side by side is     *)
(* itself there, so what is proved of the parts is true of the whole.      *)
(***************************************************************************)
EXTENDS MCDesk, BooksProofs, DatabaseGateProofs, DocumentFilesProofs, ClientsProofs

\* A step of the whole is a step of one part and leaves the others alone.
LEMMA OnePartMoves ==
  [DeskNext]_deskVars =>
    [BooksNext]_booksVars /\ [GateNext]_gateVars /\ [FilesNext]_filesVars /\ [ClientsNext]_clientsVars
BY DEF DeskNext, deskVars

LEMMA EachPart == DeskSpec => BooksSpec /\ GateSpec /\ FilesSpec /\ ClientsSpec
<1>1. DeskInit => BooksInit /\ GateInit /\ FilesInit /\ ClientsInit
  BY DEF DeskInit
<1> QED
  BY <1>1, OnePartMoves, PTL DEF DeskSpec, BooksSpec, GateSpec, FilesSpec, ClientsSpec

\* Whatever is at work, the books', the gate's, the folder's and the clients'
\* variables are of their kind, what a row refers to is there, and who waits for
\* or holds the gate or the write lock may.
THEOREM DeskTyped == DeskSpec => []DeskTypeOK
<1>1. BooksTypeOK /\ GateTypeOK /\ FilesTypeOK /\ ClientsTypeOK => DeskTypeOK
  BY DEF DeskTypeOK
<1> QED
  BY <1>1, EachPart, BooksTyped, GateTyped, FilesTyped, ClientsTyped, PTL
=============================================================================
