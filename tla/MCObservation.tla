--------------------------- MODULE MCObservation ---------------------------
(* Instances of Observation for TLC. *)
EXTENDS Observation

\* A server that publishes every receipt, or only the first, which its list names twice.
MCAllowLists == {[receipt : {1}, copy : {1, 2}]}

\* Receipts may bear a time before 1970, and two may bear the same.
MCTimes == {-1, 1}

===========================================================================
