---------------------------- MODULE MCDispatch ----------------------------
(* Instances of Dispatch for TLC. *)
EXTENDS Dispatch, TLC

\* Values of one kind are interchangeable: the module only compares them for
\* equality.  Not used with temporal properties.
Symmetry ==
    Permutations(Mandates) \cup Permutations(Requests) \cup Permutations(Deployments)
    \cup Permutations(Dispatchers) \cup Permutations(Operators)

===========================================================================
