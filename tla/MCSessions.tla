---------------------------- MODULE MCSessions ----------------------------
(* Bounded instance of Sessions. *)
EXTENDS Sessions

=============================================================================
