--------------------------- MODULE GitHubAdapter ---------------------------
(***************************************************************************)
(* GitHubAppAdapter::create_deployment (piteka-github) and the provider it *)
(* calls.  The adapter checks the request against its context, resolves    *)
(* the App key, trades a token for it, posts the deployment and reads the  *)
(* answer; between any two of these the key may be rotated, a repository   *)
(* renamed or another caller served, and each message may be lost.         *)
(***************************************************************************)
EXTENDS Naturals, FiniteSets, OrderedChecks

CONSTANTS
    Callers,        \* tasks that share the adapter
    RepositoryIds,  \* stable repository identifiers of the provider
    Names,          \* repository names
    AppKeys,        \* private keys of the App
    Context,        \* GitHubInstallationContext
    MaxU64,         \* the largest u64
    MaxAttempts,    \* bound: attempts, each with a digest of its own
    None            \* no request, no result, no repository, no key

ASSUME AdapterAssumption ==
    /\ MaxU64 \in Nat /\ MaxAttempts \in Nat
    /\ Context.repository_name \in Names

VARIABLES
    live,         \* whether with_live_transport gave an App id
    secret,       \* what the resolver holds for the App key reference
    appKey,       \* external: the key the provider accepts of the App
    repoOf,       \* external: the repository of each name
    moved,        \* history: whether the name in the context was given up
    deployments,  \* external: the deployments of the provider
    attempts,     \* number of attempts made
    pc,           \* the step each caller's create_deployment is at
    req,          \* its arguments
    cred,         \* the App key, then the token's, it holds
    created,      \* the id in the provider's answer to it
    res           \* its result

adapterVars ==
    <<live, secret, appKey, repoOf, moved, deployments, attempts, pc, req, cred, created, res>>

\* A secret is a usable key, bytes that are no key, empty bytes, or not known.
Secrets == AppKeys \cup {"garbled", "empty", "unknown"}

Attempts == 1..MaxAttempts

Requests ==
    [installation_id : Nat, repository_id : RepositoryIds, commit_sha : STRING,
     environment : STRING, auto_merge : BOOLEAN, payload_commitment : BOOLEAN,
     attempt_digest : Attempts]

\* The body GitHub is sent and the deployment it makes of it.
Deployments ==
    [id : Attempts, repository : RepositoryIds, commit_sha : STRING, environment : STRING,
     attempt_digest : Attempts]

Errors == {"SecretResolution", "ApiError", "Unauthorized", "EmptyField"}

AdapterTypeOK ==
    /\ live \in BOOLEAN
    /\ secret \in Secrets /\ appKey \in AppKeys
    /\ repoOf \in [Names -> RepositoryIds \cup {None}]
    /\ moved \in BOOLEAN
    /\ deployments \subseteq Deployments
    /\ attempts \in 0..MaxAttempts
    /\ pc \in [Callers -> {"idle", "secret", "token", "post", "answer"}]
    /\ \A c \in Callers :
          /\ req[c] # None => req[c] \in Requests
          /\ cred[c] \in AppKeys \cup {"garbled", None}
          /\ res[c] # None => IF res[c].ok
                              THEN {res[c].deployment_id, res[c].attempt_digest} \subseteq Attempts
                              ELSE res[c].error \in Errors
    /\ created \in [Callers -> 0..MaxAttempts]

AdapterInit ==
    /\ live \in BOOLEAN
    /\ appKey \in AppKeys
    /\ secret = appKey
    /\ repoOf = [n \in Names |-> IF n = Context.repository_name
                                 THEN Context.repository_id ELSE None]
    /\ moved = FALSE
    /\ deployments = {}
    /\ attempts = 0
    /\ pc = [c \in Callers |-> "idle"]
    /\ req = [c \in Callers |-> None]
    /\ cred = [c \in Callers |-> None]
    /\ created = [c \in Callers |-> 0]
    /\ res = [c \in Callers |-> None]

-----------------------------------------------------------------------------

\* as_u64: digits beyond u64 parse to 0.
AsU64(id) == IF id <= MaxU64 THEN id ELSE 0

\* What the adapter refuses before it touches a credential.  It takes capitals in a
\* commit, which the normalizer does not.
Refusals(r) ==
    << <<r.installation_id # Context.installation_id, "Unauthorized">>,
       <<r.repository_id # Context.repository_id, "Unauthorized">>,
       <<r.environment # Context.environment_name, "Unauthorized">>,
       <<r.commit_sha = "short", "EmptyField">>,
       <<r.commit_sha = "nonhex", "ApiError">>,
       <<~ r.payload_commitment, "EmptyField">>,
       <<r.auto_merge, "ApiError">> >>

Failed(error) == [ok |-> FALSE, error |-> error]

\* The call returns.
Return(c, result) ==
    /\ pc' = [pc EXCEPT ![c] = "idle"]
    /\ res' = [res EXCEPT ![c] = result]
    /\ cred' = [cred EXCEPT ![c] = None]

CreateDeployment(c, r) ==
    /\ pc[c] = "idle"
    /\ attempts < MaxAttempts
    /\ r.attempt_digest = attempts + 1
    /\ attempts' = attempts + 1
    /\ req' = [req EXCEPT ![c] = r]
    /\ \/ /\ ~ Passes(Refusals(r))
          /\ Return(c, Failed(FirstError(Refusals(r))))
       \/ /\ Passes(Refusals(r))
          /\ pc' = [pc EXCEPT ![c] = "secret"]
          /\ res' = [res EXCEPT ![c] = None]
          /\ UNCHANGED cred
    /\ UNCHANGED <<live, secret, appKey, repoOf, moved, deployments, created>>

\* The resolver may also be unavailable.
ResolveAppSecret(c) ==
    /\ pc[c] = "secret"
    /\ \/ Return(c, Failed("SecretResolution"))
       \/ /\ secret \notin {"empty", "unknown"} /\ ~ live
          /\ Return(c, Failed("ApiError"))
       \/ /\ secret \notin {"empty", "unknown"} /\ live
          /\ cred' = [cred EXCEPT ![c] = secret]
          /\ pc' = [pc EXCEPT ![c] = "token"]
          /\ UNCHANGED res
    /\ UNCHANGED <<live, secret, appKey, repoOf, moved, deployments, attempts, req, created>>

\* A key that cannot be read fails as SecretResolution before anything is sent.  The
\* provider takes a JWT of the App's present key, for an installation it knows; it, or
\* the network, may also fail.
CreateInstallationToken(c) ==
    /\ pc[c] = "token"
    /\ \/ /\ cred[c] = "garbled"
          /\ Return(c, Failed("SecretResolution"))
       \/ /\ cred[c] # "garbled"
          /\ Return(c, Failed("ApiError"))
       \/ /\ cred[c] = appKey /\ AsU64(req[c].installation_id) # 0
          /\ pc' = [pc EXCEPT ![c] = "post"]
          /\ UNCHANGED <<res, cred>>
    /\ UNCHANGED <<live, secret, appKey, repoOf, moved, deployments, attempts, req, created>>

\* Mutant: every deployment carries the same digest.
DeploymentRequestBody_SharedDigest(r) ==
    [commit_sha |-> r.commit_sha, environment |-> r.environment, attempt_digest |-> 1]

DeploymentRequestBody(r) ==
    [commit_sha |-> r.commit_sha, environment |-> r.environment,
     attempt_digest |-> r.attempt_digest]

\* The provider makes a deployment of the body in the repository that now has the name
\* in the URL; its id is the next one free.
Accepted(c) ==
    LET body == DeploymentRequestBody(req[c])
    IN  [id |-> Cardinality(deployments) + 1, repository |-> repoOf[Context.repository_name],
         commit_sha |-> body.commit_sha, environment |-> body.environment,
         attempt_digest |-> body.attempt_digest]

\* The request is lost or refused, or it is accepted.
Post(c) ==
    /\ pc[c] = "post"
    /\ \/ /\ Return(c, Failed("ApiError"))
          /\ UNCHANGED <<deployments, created>>
       \/ /\ repoOf[Context.repository_name] # None
          /\ deployments' = deployments \cup {Accepted(c)}
          /\ created' = [created EXCEPT ![c] = Accepted(c).id]
          /\ pc' = [pc EXCEPT ![c] = "answer"]
          /\ UNCHANGED <<res, cred>>
    /\ UNCHANGED <<live, secret, appKey, repoOf, moved, attempts, req>>

\* The answer is lost, or is no deployment, or is read: its id, with the caller's digest.
ReadAnswer(c) ==
    /\ pc[c] = "answer"
    /\ \/ Return(c, Failed("ApiError"))
       \/ Return(c, [ok |-> TRUE, deployment_id |-> created[c],
                     attempt_digest |-> req[c].attempt_digest])
    /\ created' = [created EXCEPT ![c] = 0]
    /\ UNCHANGED <<live, secret, appKey, repoOf, moved, deployments, attempts, req>>

-----------------------------------------------------------------------------
(* The surroundings *)

\* The provider is given another key; the resolver learns of it in a step of its own.
RotateKey ==
    /\ \E k \in AppKeys : appKey' = k
    /\ UNCHANGED <<live, secret, repoOf, moved, deployments, attempts, pc, req, cred, created, res>>

StoreSecret ==
    /\ \E s \in Secrets : secret' = s
    /\ UNCHANGED <<live, appKey, repoOf, moved, deployments, attempts, pc, req, cred, created, res>>

\* A repository is renamed: its name is given up, and another repository may take it.
RenameRepository ==
    /\ \E n \in Names, repository \in RepositoryIds \cup {None} :
          /\ repoOf[n] # repository
          /\ repoOf' = [repoOf EXCEPT ![n] = repository]
          /\ moved' = (moved \/ n = Context.repository_name)
    /\ UNCHANGED <<live, secret, appKey, deployments, attempts, pc, req, cred, created, res>>

AdapterStep(c) ==
    ResolveAppSecret(c) \/ CreateInstallationToken(c) \/ Post(c) \/ ReadAnswer(c)

Surroundings == RotateKey \/ StoreSecret \/ RenameRepository

=============================================================================
