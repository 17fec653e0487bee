--------------------------- MODULE MCSealAnchor ---------------------------
(* Instances of SealAnchor for TLC. *)
EXTENDS SealAnchor, TLC

\* No property of the run speaks of a particular caller or value, or of liveness.
Symmetry == Permutations(Callers) \cup Permutations(Bytes) \cup Permutations(Commitments)

===========================================================================
