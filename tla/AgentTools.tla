---------------------------- MODULE AgentTools ----------------------------
(***************************************************************************)
(* The MCP tools (piteka-mcp, mcp.rs) over the intent normalizer and the   *)
(* GitHub adapter.  An agent's call is checked, its intent recomputed from *)
(* the tenant's configuration, and only then handed to the backend, whose  *)
(* part that is not in the repository is marked external: it keeps the     *)
(* requests and the mandates people grant on them, and dispatches what the *)
(* agent's own arguments say.  The configuration may change between any    *)
(* two awaits of a call.                                                   *)
(***************************************************************************)
EXTENDS IntentNormalizer, GitHubAdapter

CONSTANTS
    Tenants,       \* tenants
    TenantOf,      \* the tenant of each agent's service identity
    Configs,       \* what the administrators of a tenant may configure
    Targets,       \* the repository, commit and environment agents ask for
    Mandates,      \* mandate identifiers
    Earlier,       \* the tenant and target of each, where it was issued before
    MaxCalls,      \* bound: calls
    MaxRequests,   \* bound: requests on record
    MaxChanges     \* bound: changes of keys, names and configurations

ASSUME AgentToolsAssumption ==
    /\ TenantOf \in [Callers -> Tenants]
    /\ Earlier \in [Mandates -> [tenant : Tenants, target : Targets]]
    /\ {MaxCalls, MaxRequests, MaxChanges} \subseteq Nat

VARIABLES
    config,     \* external: the configuration of each tenant
    gates,      \* history: the gate digests each tenant's administrators have set
    requests,   \* external: the pending requests
    mandates,   \* external: what each mandate is for, if issued, and whether it is spent
    call,       \* the call each agent has under way
    at,         \* the step it is at
    answer,     \* the last answer to each agent
    effects,    \* history: what its last call has brought about
    calls,      \* number of calls
    changes     \* number of changes around the tools

toolVars == <<config, gates, requests, mandates, call, at, answer, effects, calls, changes>>

vars == <<adapterVars, toolVars>>

ObjectTools ==
    {"piteka_get_action_status", "piteka_get_receipt", "piteka_export_dispute_bundle",
     "piteka_verify_bundle"}

ToolCatalog ==
    ObjectTools \cup {"piteka_request_deployment", "piteka_execute_approved_deployment"}

\* What the transport and the checks tell apart of the rest of a message.
Forms == {"good", "noId", "noMethod", "initialize", "tools/list", "otherMethod", "large",
          "unknownTool", "undecodable", "blank"}

TypeOK ==
    /\ AdapterTypeOK
    /\ config \in [Tenants -> Configs]
    /\ Cardinality(requests) <= MaxRequests
    /\ \A m \in Mandates : mandates[m] # None => mandates[m].tenant \in Tenants
    /\ at \in [Callers -> {"idle", "object", "intent", "backend", "dispatch", "bound"}]
    /\ \A a \in Callers : effects[a] \subseteq {"requested", "spent"}
    /\ calls \in 0..MaxCalls /\ changes \in 0..MaxChanges

-----------------------------------------------------------------------------
(* Intents *)

\* recompute_intent_id: the tenant's configuration, completed by the arguments, is normalized.
Completed(settings, target) ==
    [commit_sha |-> target.commit_sha, ref_field |-> target.commit_sha,
     repository_id |-> target.repository_id, environment_id |-> target.environment_id,
     repository_owner |-> settings.repository_owner,
     repository_name |-> settings.repository_name,
     environment_name |-> settings.environment_name,
     task |-> settings.task, auto_merge |-> settings.auto_merge,
     production_environment |-> settings.production_environment,
     transient_environment |-> settings.transient_environment,
     artifact_digest |-> settings.artifact_digest,
     required_contexts |-> settings.required_contexts,
     deployment_gate_policy_digest |-> settings.deployment_gate_policy_digest]

Input(tenant, target) == Completed(config[tenant], target)

RecomputeIntent(tenant, target) == Normalize(Input(tenant, target), tenant, 0, 0, <<>>)

\* The intents an agent may name: those on record and those it can compute itself.
IntentsKnown ==
    {r.intent : r \in requests} \cup {mandates[m].intent : m \in {x \in Mandates : mandates[x] # None}}
    \cup {RecomputeIntent(x[1], x[2]).intent :
            x \in {y \in Tenants \X Targets : RecomputeIntent(y[1], y[2]).ok}}

\* What an intent can be, and what is issued and answered: none of it is None.
Intents ==
    {BuildGithubActionIntent(Profile(Completed(c, g)), t, 0, 0, <<>>) :
        t \in Tenants, c \in Configs, g \in Targets}

Issued == [tenant : Tenants, intent : Intents, attempt : Nat]

Codes ==
    {"OK", "METHOD_NOT_FOUND", "ARGUMENTS_TOO_LARGE", "TOOL_NOT_FOUND", "MALFORMED_ARGUMENTS",
     "INTENT_MISMATCH", "BACKEND_ERROR", "RESPONSE_TOO_LARGE"} \cup Errors

ASSUME NoneAssumption ==
    None \notin Issued \cup [ok : BOOLEAN, code : Codes] \cup [ok : {FALSE}, error : Errors]

\* A mandate issued before, under the configuration of that time.
IssuedEarlier(m) ==
    LET computed == RecomputeIntent(Earlier[m].tenant, Earlier[m].target)
    IN  IF computed.ok
        THEN [tenant |-> Earlier[m].tenant, intent |-> computed.intent, attempt |-> 0]
        ELSE None

Init ==
    /\ AdapterInit
    /\ config \in {[t \in Tenants |-> c] : c \in Configs}
    /\ gates = [t \in Tenants |-> {config[t].deployment_gate_policy_digest}]
    /\ requests = {}
    /\ mandates \in {[m \in Mandates |-> None], [m \in Mandates |-> IssuedEarlier(m)]}
    /\ call = [a \in Callers |-> None]
    /\ at = [a \in Callers |-> "idle"]
    /\ answer = [a \in Callers |-> None]
    /\ effects = [a \in Callers |-> {}]
    /\ calls = 0 /\ changes = 0

-----------------------------------------------------------------------------
(* The transport and the checks of call_tool *)

ValidateDeploymentFields(target) ==
    << <<\/ target.repository_id = 0 \/ target.environment_id = 0
         \/ target.commit_sha \in IllFormedShas, "MALFORMED_ARGUMENTS">> >>

\* The checks made before the backend is asked anything, in their order.
CallChecks(c) ==
    << <<c.form = "otherMethod", "METHOD_NOT_FOUND">>,
       <<c.form = "large", "ARGUMENTS_TOO_LARGE">>,
       <<c.form = "unknownTool", "TOOL_NOT_FOUND">>,
       <<c.form \in {"undecodable", "blank"}, "MALFORMED_ARGUMENTS">> >>
    \o (IF c.tool \in ObjectTools THEN <<>> ELSE ValidateDeploymentFields(c.target))

Error(code) == [ok |-> FALSE, code |-> code]

\* The agent is told the outcome.
Reply(a, outcome) ==
    /\ at' = [at EXCEPT ![a] = "idle"]
    /\ call' = [call EXCEPT ![a] = None]
    /\ answer' = [answer EXCEPT ![a] = outcome]

\* A message that fails a check of its form fails it for every tool alike.
Messages ==
    [form : Forms, tool : ObjectTools]
    \cup [form : {"good"}, tool : {"piteka_request_deployment"}, target : Targets,
          intent : IntentsKnown]
    \cup [form : {"good"}, tool : {"piteka_execute_approved_deployment"}, target : Targets,
          intent : IntentsKnown, mandate : Mandates]

\* A message without an id or a method is dropped without an answer, and without effect.
Handle(a) ==
    /\ at[a] = "idle"
    /\ calls < MaxCalls
    /\ calls' = calls + 1
    /\ effects' = [effects EXCEPT ![a] = {}]
    /\ \E c \in Messages :
          \/ /\ c.form \in {"noId", "noMethod"}
             /\ Reply(a, None)
          \/ /\ c.form \in {"initialize", "tools/list"}
             /\ Reply(a, [ok |-> TRUE, code |-> "OK"])
          \/ /\ c.form \notin {"noId", "noMethod", "initialize", "tools/list"}
             /\ ~ Passes(CallChecks(c))
             /\ Reply(a, Error(FirstError(CallChecks(c))))
          \/ /\ c.form \notin {"noId", "noMethod", "initialize", "tools/list"}
             /\ Passes(CallChecks(c))
             /\ \/ /\ c.tool \in ObjectTools
                   /\ at' = [at EXCEPT ![a] = "object"]
                   /\ UNCHANGED call
                \/ /\ c.tool \notin ObjectTools
                   /\ at' = [at EXCEPT ![a] = "intent"]
                   /\ call' = [call EXCEPT ![a] = c]
             /\ answer' = [answer EXCEPT ![a] = None]
    /\ UNCHANGED <<adapterVars, config, gates, requests, mandates, changes>>

\* Mutant: the comparison is left to the mandate.
IntentMatches_Unchecked(supplied, computed) == TRUE

IntentMatches(supplied, computed) == supplied = computed

ValidateIntent(a) ==
    /\ at[a] = "intent"
    /\ LET computed == RecomputeIntent(TenantOf[a], call[a].target)
       IN  \/ Reply(a, Error("BACKEND_ERROR"))
           \/ /\ computed.ok /\ ~ IntentMatches(call[a].intent, computed.intent)
              /\ Reply(a, Error("INTENT_MISMATCH"))
           \/ /\ computed.ok /\ IntentMatches(call[a].intent, computed.intent)
              /\ at' = [at EXCEPT ![a] = "backend"]
              /\ UNCHANGED <<call, answer>>
    /\ UNCHANGED <<adapterVars, config, gates, requests, mandates, effects, calls, changes>>

\* Mutant: the bound is taken to be a check of the arguments.
BoundError_Early == "ARGUMENTS_TOO_LARGE"

BoundError == "RESPONSE_TOO_LARGE"

\* bound_response, after the effect.
BoundResponse(a) ==
    /\ at[a] = "bound"
    /\ \/ Reply(a, [ok |-> TRUE, code |-> "OK"])
       \/ Reply(a, Error(BoundError))
    /\ UNCHANGED <<adapterVars, config, gates, requests, mandates, effects, calls, changes>>

-----------------------------------------------------------------------------
(* The backend *)

\* A tool that reads, or exports or verifies a bundle; or the backend fails.
BackendObject(a) ==
    /\ at[a] = "object"
    /\ \/ /\ at' = [at EXCEPT ![a] = "bound"]
          /\ UNCHANGED <<call, answer>>
       \/ Reply(a, Error("BACKEND_ERROR"))
    /\ UNCHANGED <<adapterVars, config, gates, requests, mandates, effects, calls, changes>>

BackendRequest(a) ==
    /\ at[a] = "backend" /\ call[a].tool = "piteka_request_deployment"
    /\ \/ /\ Cardinality(requests) < MaxRequests
          /\ requests' = requests \cup {[tenant |-> TenantOf[a], intent |-> call[a].intent]}
          /\ effects' = [effects EXCEPT ![a] = @ \cup {"requested"}]
          /\ at' = [at EXCEPT ![a] = "bound"]
          /\ UNCHANGED <<call, answer>>
       \/ /\ Reply(a, Error("BACKEND_ERROR"))
          /\ UNCHANGED <<requests, effects>>
    /\ UNCHANGED <<adapterVars, config, gates, mandates, calls, changes>>

\* The mandate must be for the intent the agent names, of its tenant, and not spent.
MandateAllows(a) ==
    LET m == mandates[call[a].mandate]
    IN  /\ m # None
        /\ m.tenant = TenantOf[a]
        /\ m.intent = call[a].intent
        /\ m.attempt = 0

\* The mandate is spent and what the agent's arguments say is dispatched, into the
\* environment the intent names.
BackendExecute(a) ==
    /\ at[a] = "backend" /\ call[a].tool = "piteka_execute_approved_deployment"
    /\ \/ /\ MandateAllows(a)
          /\ mandates' = [mandates EXCEPT ![call[a].mandate].attempt = attempts + 1]
          /\ CreateDeployment(a,
                [installation_id |-> Context.installation_id,
                 repository_id |-> call[a].target.repository_id,
                 commit_sha |-> call[a].target.commit_sha,
                 environment |-> call[a].intent.profile.environment_name,
                 auto_merge |-> FALSE, payload_commitment |-> TRUE,
                 attempt_digest |-> attempts + 1])
          /\ effects' = [effects EXCEPT ![a] = @ \cup {"spent"}]
          /\ at' = [at EXCEPT ![a] = "dispatch"]
          /\ UNCHANGED <<call, answer>>
       \/ /\ Reply(a, Error("BACKEND_ERROR"))
          /\ UNCHANGED <<mandates, effects, adapterVars>>
    /\ UNCHANGED <<config, gates, requests, calls, changes>>

\* The adapter has returned.
Dispatched(a) ==
    /\ at[a] = "dispatch" /\ pc[a] = "idle"
    /\ \/ /\ res[a].ok
          /\ at' = [at EXCEPT ![a] = "bound"]
          /\ UNCHANGED <<call, answer>>
       \/ /\ ~ res[a].ok
          /\ Reply(a, Error(res[a].error))
    /\ UNCHANGED <<adapterVars, config, gates, requests, mandates, effects, calls, changes>>

\* A person approves a request and a mandate is issued for its intent.
Approve ==
    /\ \E m \in Mandates, r \in requests :
          /\ mandates[m] = None
          /\ mandates' = [mandates EXCEPT ![m] =
                [tenant |-> r.tenant, intent |-> r.intent, attempt |-> 0]]
    /\ UNCHANGED <<adapterVars, config, gates, requests, call, at, answer, effects, calls, changes>>

\* The administrators change the contexts, the digest or the names, one at a time.
Reconfigure ==
    /\ changes < MaxChanges
    /\ changes' = changes + 1
    /\ \E t \in Tenants, new \in Configs :
          /\ config' = [config EXCEPT ![t] = new]
          /\ gates' = [gates EXCEPT ![t] = @ \cup {new.deployment_gate_policy_digest}]
    /\ UNCHANGED <<adapterVars, requests, mandates, call, at, answer, effects, calls>>

-----------------------------------------------------------------------------

Change ==
    /\ changes < MaxChanges
    /\ changes' = changes + 1
    /\ Surroundings
    /\ UNCHANGED <<config, gates, requests, mandates, call, at, answer, effects, calls>>

Next ==
    \/ \E a \in Callers :
          \/ Handle(a) \/ ValidateIntent(a) \/ BoundResponse(a)
          \/ BackendObject(a) \/ BackendRequest(a) \/ BackendExecute(a) \/ Dispatched(a)
    \/ (\E a \in Callers : AdapterStep(a)) /\ UNCHANGED toolVars
    \/ Change
    \/ Approve \/ Reconfigure

Spec == Init /\ [][Next]_vars

-----------------------------------------------------------------------------
(* Properties *)

\* Every deployment is of the commit and into the environment of an intent a person
\* approved for a mandate that was spent on that attempt, and into its repository unless
\* that lost its name, by which the adapter addresses it: although the backend
\* dispatches what the agent's arguments say, and the configuration changes between the
\* request, its approval, the check of the intent and the dispatch (validate_intent,
\* create_deployment).
DeployedWasApproved ==
    \A d \in deployments : \E m \in Mandates :
        /\ mandates[m] # None
        /\ mandates[m].attempt = d.attempt_digest
        /\ LET profile == mandates[m].intent.profile
           IN  /\ d.commit_sha = profile.commit_sha
               /\ d.environment = profile.environment_name
               /\ d.repository = profile.repository_id \/ moved

\* What the agent is told before the backend acts, it is told of a call that did nothing:
\* a malformed, oversized or unknown call, an intent that does not match, and a message
\* dropped without an answer, left no request and spent no mandate; and a dispatch the
\* adapter refused, or had no key for, made no deployment.  An answer that is too large
\* comes after the effect and has a code of its own (call_tool, handle, create_deployment).
RefusedDidNothing ==
    \A a \in Callers : at[a] = "idle" =>
        /\ answer[a] = None \/ answer[a].code \in
              {"METHOD_NOT_FOUND", "ARGUMENTS_TOO_LARGE", "TOOL_NOT_FOUND",
               "MALFORMED_ARGUMENTS", "INTENT_MISMATCH"} => effects[a] = {}
        /\ answer[a] # None /\ answer[a].code \in {"Unauthorized", "EmptyField",
                                                   "SecretResolution"} =>
              \A d \in deployments : d.attempt_digest # req[a].attempt_digest

\* A deployment the adapter reports is at the provider under the reported id, and carries
\* the digest, the commit and the environment of that very attempt, whichever other
\* callers are served in between (deployment_request_body, create_deployment).
CreatedIsThere ==
    \A a \in Callers : res[a] # None /\ res[a].ok =>
        \E d \in deployments :
            /\ d.id = res[a].deployment_id
            /\ d.attempt_digest = res[a].attempt_digest
            /\ d.commit_sha = req[a].commit_sha /\ d.environment = req[a].environment

\* The contexts that gate a requested deployment are those of a digest the tenant's
\* administrators have set, unless they have set none: the contexts and their digest
\* change in separate steps, and in between nothing is accepted (normalize).
GateIsAdministered ==
    \A r \in requests :
        \/ NoDigest \in gates[r.tenant]
        \/ GatePolicyDigest(r.intent.profile.required_contexts) \in gates[r.tenant]

-----------------------------------------------------------------------------
(* What makes the four properties inductive *)

\* The errors of a dispatch that sent nothing.
Refusing == {"Unauthorized", "EmptyField", "SecretResolution"}

\* The mandate was spent on this attempt, and its intent is for what is dispatched.
Backs(m, r) ==
    /\ mandates[m] # None
    /\ mandates[m].attempt = r.attempt_digest
    /\ LET profile == mandates[m].intent.profile
       IN  /\ profile.commit_sha = r.commit_sha
           /\ profile.environment_name = r.environment
           /\ profile.repository_id = r.repository_id

\* The gate of the intent is one the tenant's administrators have set.
Administered(tenant, intent) ==
    \/ NoDigest \in gates[tenant]
    \/ GatePolicyDigest(intent.profile.required_contexts) \in gates[tenant]

\* A call the backend is asked to carry out names the intent of its own arguments.
CallIsChecked(a) ==
    /\ at[a] \in {"intent", "backend"} =>
          /\ call[a].intent \in Intents
          /\ call[a].tool = "piteka_execute_approved_deployment" => call[a].mandate \in Mandates
    /\ at[a] = "backend" =>
          /\ call[a].intent.profile.commit_sha = call[a].target.commit_sha
          /\ call[a].intent.profile.repository_id = call[a].target.repository_id
          /\ Administered(TenantOf[a], call[a].intent)
    /\ at[a] \in {"object", "intent", "backend"} => effects[a] = {}

\* A caller has been served by the adapter, or is being served.
Started(a) == pc[a] # "idle" \/ res[a] # None

\* A dispatch under way is of the adapter's repository and has its mandate.
DispatchIsApproved(a) ==
    /\ pc[a] # "idle" =>
          /\ at[a] = "dispatch"
          /\ req[a].repository_id = Context.repository_id
          /\ \E m \in Mandates : Backs(m, req[a])
    /\ at[a] = "dispatch" /\ pc[a] = "idle" /\ ~ res[a].ok =>
          res[a] \in [ok : {FALSE}, error : Errors]

\* Nothing has been sent for the attempt, or nothing was accepted of what was refused.
IsUnsent(a) ==
    \/ pc[a] \in {"secret", "token", "post"}
    \/ pc[a] = "idle" /\ res[a] \in [ok : {FALSE}, error : Refusing]

DigestsAreFresh ==
    /\ \A d \in deployments : d.attempt_digest \in 1..attempts
    /\ \A a \in Callers : Started(a) => req[a].attempt_digest \in 1..attempts
    /\ \A a, b \in Callers :
          a # b /\ Started(a) /\ Started(b) => req[a].attempt_digest # req[b].attempt_digest
    /\ \A a \in Callers : IsUnsent(a) =>
          \A d \in deployments : d.attempt_digest # req[a].attempt_digest

\* The deployment of an answer that is under way.
AnswerIsThere(a) ==
    pc[a] = "answer" => \E d \in deployments :
        /\ d.id = created[a]
        /\ d.attempt_digest = req[a].attempt_digest
        /\ d.commit_sha = req[a].commit_sha /\ d.environment = req[a].environment

\* What an agent was told of a refusal is what the adapter returned.
RefusalIsOfTheAdapter(a) ==
    at[a] = "idle" /\ answer[a] # None /\ answer[a].code \in Refusing =>
        res[a] \in [ok : {FALSE}, error : Refusing]

\* The adapter's name for its repository, and the digests the administrators set.
SurroundingsAgree ==
    /\ moved \/ repoOf[Context.repository_name] = Context.repository_id
    /\ \A t \in Tenants : config[t].deployment_gate_policy_digest \in gates[t]

ToolsInv ==
    /\ SurroundingsAgree
    /\ DigestsAreFresh
    /\ \A a \in Callers :
          /\ CallIsChecked(a) /\ DispatchIsApproved(a)
          /\ AnswerIsThere(a) /\ RefusalIsOfTheAdapter(a)
    /\ DeployedWasApproved /\ RefusedDidNothing /\ CreatedIsThere /\ GateIsAdministered

=============================================================================
