--------------------------- MODULE OrderedChecks ---------------------------
(* Validation in the style of the code: a sequence of <<fails, error>>, the first that
   fails giving the error. *)
EXTENDS Naturals, Sequences

Failing(checks) == {i \in DOMAIN checks : checks[i][1]}

Passes(checks) == Failing(checks) = {}

FirstError(checks) ==
    checks[CHOOSE i \in Failing(checks) : \A j \in Failing(checks) : i <= j][2]

=============================================================================
