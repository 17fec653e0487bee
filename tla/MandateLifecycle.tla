------------------------- MODULE MandateLifecycle -------------------------
(***************************************************************************)
(* What the dispatch and reconciliation use cases promise about a mandate, *)
(* with no stores, callers, versions or messages: a mandate is issued,     *)
(* reserved once, sent to the provider at most once, and ends consumed or  *)
(* abandoned.  The diagrams of dispatch.rs and reconciliation.rs are this  *)
(* module.  Dispatch implements it when callers present the versions       *)
(* their callers in the repository present (Dispatch!Disciplined).         *)
(***************************************************************************)
EXTENDS Naturals

CONSTANT Mandates

VARIABLES
    state,    \* the life-cycle state of each mandate
    called,   \* mandates whose action has been sent to the provider
    effected  \* mandates for which the provider created a deployment

vars == <<state, called, effected>>

States == {"absent", "issued", "reserved", "consumed", "quarantined", "abandoned"}

TypeOK ==
    /\ state \in [Mandates -> States]
    /\ called \subseteq Mandates
    /\ effected \subseteq Mandates

Init ==
    /\ state = [m \in Mandates |-> "absent"]
    /\ called = {}
    /\ effected = {}

Move(m, from, to) ==
    /\ state[m] = from
    /\ state' = [state EXCEPT ![m] = to]
    /\ UNCHANGED <<called, effected>>

Issue(m) == Move(m, "absent", "issued")

Reserve(m) == Move(m, "issued", "reserved")

(* The one call to the provider, made while the mandate is reserved. *)
Call(m) ==
    /\ state[m] = "reserved"
    /\ m \notin called
    /\ called' = called \cup {m}
    /\ UNCHANGED <<state, effected>>

(* The provider may act on a call long after its caller has given up. *)
Effect(m) ==
    /\ m \in called
    /\ m \notin effected
    /\ effected' = effected \cup {m}
    /\ UNCHANGED <<state, called>>

(* Success is never simulated: consuming needs a deployment that exists. *)
Consume(m) ==
    /\ m \in effected
    /\ \/ Move(m, "reserved", "consumed")
       \/ Move(m, "quarantined", "consumed")

Quarantine(m) ==
    /\ m \in called
    /\ Move(m, "reserved", "quarantined")

Abandon(m) == Move(m, "quarantined", "abandoned")

Next ==
    \E m \in Mandates :
        \/ Issue(m)
        \/ Reserve(m)
        \/ Call(m)
        \/ Effect(m)
        \/ Consume(m)
        \/ Quarantine(m)
        \/ Abandon(m)

Spec == Init /\ [][Next]_vars

=============================================================================
