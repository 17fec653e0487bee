--------------------------- MODULE MCAgentTools ---------------------------
(* Instances of AgentTools for TLC. *)
EXTENDS AgentTools, TLC

CONSTANTS a1, a2, m1, m2, n1

MCContext ==
    [installation_id |-> 5, repository_id |-> 1, repository_name |-> n1,
     environment_id |-> 1, environment_name |-> "production"]

MCTenantOf == a1 :> "t1" @@ a2 :> "t2"

\* The whole profile, as an administrator should set it.
Base ==
    [repository_owner |-> "owner", repository_name |-> "repo",
     environment_name |-> "production", task |-> "deploy", auto_merge |-> FALSE,
     production_environment |-> TRUE, transient_environment |-> FALSE,
     artifact_digest |-> <<>>,
     required_contexts |-> [mode |-> "ExplicitNonEmpty", names |-> <<1, 2>>],
     deployment_gate_policy_digest |-> <<"gate", "ExplicitNonEmpty", <<1, 2>>>>]

\* Other contexts than those of the digest, an environment the adapter does not serve, and
\* a configuration the profile forbids.
MCConfigs ==
    {Base,
     [Base EXCEPT !.required_contexts = [mode |-> "AllSubmitted", names |-> <<>>]],
     [Base EXCEPT !.environment_name = "staging"],
     [Base EXCEPT !.repository_name = "padded"]}

MCTargets ==
    {[repository_id |-> 1, commit_sha |-> "c1", environment_id |-> 1],
     [repository_id |-> 1, commit_sha |-> "c2", environment_id |-> 1],
     [repository_id |-> 1, commit_sha |-> "upper", environment_id |-> 1]}

MCEarlier ==
    m1 :> [tenant |-> "t1", target |-> [repository_id |-> 1, commit_sha |-> "c1", environment_id |-> 1]]
    @@ m2 :> [tenant |-> "t2", target |-> [repository_id |-> 1, commit_sha |-> "c2", environment_id |-> 1]]

===========================================================================
