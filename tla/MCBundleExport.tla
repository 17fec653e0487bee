-------------------------- MODULE MCBundleExport --------------------------
(* Instances of BundleExport for TLC. *)
EXTENDS BundleExport, TLC

CONSTANTS n1, gap, r1, r2, p1, e1, e2

\* r1 refers to the node of its webhook; r2 shares it and has a gap.
MCRefs == r1 :> <<n1>> @@ r2 :> <<n1, gap>>

MCProcessOf == e1 :> p1 @@ e2 :> p1

===========================================================================
