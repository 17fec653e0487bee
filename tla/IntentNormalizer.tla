------------------------- MODULE IntentNormalizer -------------------------
(***************************************************************************)
(* GitHubIntentNormalizer (intent.rs of piteka-github): what it refuses,   *)
(* in which order, and the intent it builds.  Texts and commits are named  *)
(* by what the checks tell apart; a digest is injective, so it is modelled *)
(* by what it is taken of.                                                 *)
(***************************************************************************)
EXTENDS Naturals, Sequences, OrderedChecks

CONSTANTS
    MaxRequiredContexts,    \* MAX_REQUIRED_CONTEXTS
    MaxContextCommitments   \* the limit on context commitments

ASSUME NormalizerAssumption ==
    /\ MaxRequiredContexts \in Nat
    /\ MaxContextCommitments \in Nat

\* Texts that are not empty and that every display check refuses.
IllFormedTexts == {"overlong", "padded", "control"}

\* Commits that are not 40 lower-case hexadecimal characters: "upper" has a capital among
\* its 40, "nonhex" another character.
IllFormedShas == {"short", "upper", "nonhex"}

\* No gate digest is supplied with the input.
NoDigest == <<>>

-----------------------------------------------------------------------------
(* The checks *)

ValidateFixedControls(input) ==
    << <<input.task # "deploy", "UnsupportedTask">>,
       <<input.auto_merge, "AutoMergeForbidden">>,
       <<~ input.production_environment \/ input.transient_environment,
         "InvalidEnvironmentClassification">> >>

ValidateDisplayField(text) ==
    << <<text = "", "EmptyField">>,
       <<text \in IllFormedTexts, "DisplayFieldTooLong">> >>

ValidateCommitSha(sha) == << <<sha \in IllFormedShas, "InvalidCommitSha">> >>

\* Context names are numbers, in their order; 0 is a name with a blank or a control
\* character in it, one that is empty, or one that is too long.
ValidateRequiredContexts(contexts) ==
    IF contexts.mode = "AllSubmitted" THEN <<>>
    ELSE LET names == contexts.names
         IN  << <<names = <<>>, "InvalidRequiredContexts">>,
                <<Len(names) > MaxRequiredContexts, "InvalidRequiredContexts">>,
                <<\E i \in DOMAIN names : names[i] = 0, "InvalidContextName">>,
                <<\E i \in 1..(Len(names) - 1) : names[i] >= names[i + 1],
                  "InvalidRequiredContexts">> >>

GatePolicyDigest(contexts) == <<"gate", contexts.mode, contexts.names>>

\* Mutant: a digest the caller supplies is not compared.
ValidateGatePolicy_Ignored(input) == <<>>

\* A supplied digest must be the one of the very contexts of the input.
ValidateGatePolicy(input) ==
    << <<input.deployment_gate_policy_digest # NoDigest
         /\ input.deployment_gate_policy_digest # GatePolicyDigest(input.required_contexts),
         "GatePolicyMismatch">> >>

\* Every check of normalize with the error it gives, in the order they are made.
Checks(input, requested_by, commitments) ==
    ValidateFixedControls(input)
    \o << <<input.repository_id = 0, "InvalidStableId">>,
          <<input.environment_id = 0, "InvalidStableId">> >>
    \o ValidateDisplayField(input.repository_owner)
    \o ValidateDisplayField(input.repository_name)
    \o ValidateDisplayField(input.environment_name)
    \o ValidateCommitSha(input.commit_sha)
    \o << <<input.ref_field # input.commit_sha, "RefMismatch">> >>
    \o ValidateRequiredContexts(input.required_contexts)
    \o ValidateGatePolicy(input)
    \o << <<requested_by = "", "EmptyField">>,
          <<requested_by = "overlong", "IdentityTooLong">>,
          <<Len(commitments) > MaxContextCommitments, "TooManyContextCommitments">> >>

-----------------------------------------------------------------------------
(* The intent *)

\* GitHubDeploymentIntentV1, the profile in its canonical bytes.
Profile(input) ==
    [repository_id |-> input.repository_id,
     repository_owner |-> input.repository_owner,
     repository_name |-> input.repository_name,
     commit_sha |-> input.commit_sha,
     exact_ref |-> input.ref_field,
     environment_id |-> input.environment_id,
     environment_name |-> input.environment_name,
     required_contexts |-> input.required_contexts,
     artifact_digest |-> input.artifact_digest,
     deployment_gate_policy_digest |-> GatePolicyDigest(input.required_contexts)]

\* The commitment the correlation payload of a dispatch carries.
PayloadCommitment(profile) == <<"github-deployment-parameters-v1", profile>>

\* ActionIntent::new through the registered profile; its id is a digest of all of this.
BuildGithubActionIntent(profile, requested_by, requested_at, nonce, commitments) ==
    [parameters_commitment |-> PayloadCommitment(profile),
     profile |-> profile,
     requested_by |-> requested_by,
     requested_at |-> requested_at,
     request_nonce |-> nonce,
     context_commitments |-> commitments]

\* The error of the first check that fails, or the intent.
Normalize(input, requested_by, requested_at, nonce, commitments) ==
    LET checks == Checks(input, requested_by, commitments)
    IN  IF ~ Passes(checks)
        THEN [ok |-> FALSE, error |-> FirstError(checks)]
        ELSE [ok |-> TRUE,
              intent |-> BuildGithubActionIntent(Profile(input), requested_by, requested_at,
                                                 nonce, commitments)]

===========================================================================
