--------------------------- MODULE SealedHistory ---------------------------
(***************************************************************************)
(* What the sealing engine does to a layer's tokens, one step a call: a    *)
(* history of sealed pages that only grows, by a copy of the full, finite  *)
(* tail.  The tail then restarts behind its copy, unless the publication   *)
(* failed, when it stays; every other failure of a seal changes nothing.   *)
(***************************************************************************)
EXTENDS Integers, Sequences

CONSTANTS Layers, PageSize, Begins

VARIABLES history, tail

EmptyTail == [begin |-> 0, count |-> 0, finite |-> TRUE]

Init ==
  /\ history = [l \in Layers |-> <<>>]
  /\ tail = [l \in Layers |-> EmptyTail]

\* The tail is staged where the caller says it is.
Stage(l) ==
  /\ \E b \in Begins, n \in 1 .. PageSize, f \in BOOLEAN :
       tail' = [tail EXCEPT ![l] = [begin |-> b, count |-> n, finite |-> f]]
  /\ UNCHANGED history

\* A stage that fails may have overwritten the keys.
StageFails(l) ==
  /\ \E f \in BOOLEAN : tail' = [tail EXCEPT ![l].finite = f]
  /\ UNCHANGED history

\* A full and finite tail becomes the last page of the history.
Join(l) ==
  /\ tail[l].count = PageSize /\ tail[l].finite
  /\ history' = [history EXCEPT ![l] = Append(@, [begin |-> tail[l].begin, finite |-> TRUE])]

Seal(l) == Join(l) /\ tail' = [tail EXCEPT ![l] = [EmptyTail EXCEPT !.begin = tail[l].begin + PageSize]]
PublishFails(l) == Join(l) /\ UNCHANGED tail

Clear == history' = [l \in Layers |-> <<>>] /\ tail' = [l \in Layers |-> EmptyTail]

Next == Clear \/ \E l \in Layers : Stage(l) \/ StageFails(l) \/ Seal(l) \/ PublishFails(l)
Spec == Init /\ [][Next]_<<history, tail>>
=============================================================================
