--------------------------- MODULE MCRequestApi ---------------------------
(* Instances of RequestApi for TLC. *)
EXTENDS RequestApi, TLC

Symmetry == Permutations(Keys) \cup Permutations(Callers) \cup Permutations(Intents)

===========================================================================
