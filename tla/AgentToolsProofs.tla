------------------------- MODULE AgentToolsProofs -------------------------
(***************************************************************************)
(* Theorems about AgentTools with the intent normalizer and the GitHub     *)
(* adapter, for every set of agents, tenants, configurations, targets and  *)
(* mandates, however calls, approvals, dispatches, lost messages, renamed  *)
(* repositories, rotated keys and reconfigurations interleave.             *)
(***************************************************************************)
EXTENDS AgentTools, NaturalsInduction, WellFoundedInduction, TLAPS

-----------------------------------------------------------------------------
(* Ordered checks                                                          *)

\* A set of numbers that is not empty has a smallest.
LEMMA SmallestExists ==
    ASSUME NEW F, F \subseteq Nat, F # {} PROVE \E i \in F : \A j \in F : i <= j
<1> DEFINE R == OpToRel(<, Nat)
<1>1. R = {ss \in Nat \X Nat : ss[1] < ss[2]}
  BY DEF OpToRel
<1>2. PICK i \in F : \A j \in F : ~(<<j, i>> \in R)
  BY NatLessThanWellFounded, WFMin
<1> HIDE DEF R
<1>3. \A j \in F : ~(j < i)
  BY <1>1, <1>2
<1> QED
  BY <1>3

\* The error of checks that fail is one of their errors.
LEMMA FirstErrorIsAnError ==
    ASSUME NEW checks, DOMAIN checks \subseteq Nat, ~Passes(checks),
           NEW errors, \A i \in DOMAIN checks : checks[i][2] \in errors
    PROVE  FirstError(checks) \in errors
<1> DEFINE F == Failing(checks)
<1>1. F \subseteq Nat /\ F # {} /\ F \subseteq DOMAIN checks
  BY DEF Failing, Passes
<1>2. \E i \in F : \A j \in F : i <= j
  BY <1>1, SmallestExists
<1>3. (CHOOSE i \in F : \A j \in F : i <= j) \in F
  BY <1>2
<1> QED
  BY <1>1, <1>3 DEF FirstError

\* A sequence, of whatever it is made of.
IsSeq(s) == \E S : s \in Seq(S)

\* The sequences of checks the code writes down, of up to four.
LEMMA Literals ==
    /\ IsSeq(<<>>)
    /\ \A w : IsSeq(<<w>>)
    /\ \A w, x : IsSeq(<<w, x>>)
    /\ \A w, x, y : IsSeq(<<w, x, y>>)
    /\ \A w, x, y, z : IsSeq(<<w, x, y, z>>)
<1>1. <<>> \in Seq({})
  OBVIOUS
<1>2. ASSUME NEW w, NEW x, NEW y, NEW z
      PROVE  /\ <<w>> \in Seq({w}) /\ <<w, x>> \in Seq({w, x})
             /\ <<w, x, y>> \in Seq({w, x, y}) /\ <<w, x, y, z>> \in Seq({w, x, y, z})
  OBVIOUS
<1> QED
  BY <1>1, <1>2 DEF IsSeq

\* Checks in a row are checks, and pass only if each part passes.
LEMMA Concatenation ==
    ASSUME NEW s, NEW t, IsSeq(s), IsSeq(t)
    PROVE  IsSeq(s \o t) /\ (Passes(s \o t) => Passes(s) /\ Passes(t))
<1>1. PICK S, T : s \in Seq(S) /\ t \in Seq(T)
  BY DEF IsSeq
<1> DEFINE U == S \cup T
<1>2. s \in Seq(U) /\ t \in Seq(U)
  BY <1>1
<1> HIDE DEF U
<1>3. s \o t \in Seq(U)
  BY <1>2
<1>4. ASSUME NEW i \in DOMAIN s PROVE i \in DOMAIN (s \o t) /\ (s \o t)[i] = s[i]
  BY <1>2
<1>5. ASSUME NEW i \in DOMAIN t
      PROVE  Len(s) + i \in DOMAIN (s \o t) /\ (s \o t)[Len(s) + i] = t[i]
  BY <1>2
<1>6. Passes(s \o t) => Passes(s) /\ Passes(t)
  BY <1>4, <1>5 DEF Passes, Failing
<1> QED
  BY <1>3, <1>6 DEF IsSeq

\* What passes the adapter's checks is for the adapter's repository.
LEMMA PassedIsOfTheContext ==
    ASSUME NEW r, Passes(Refusals(r)) PROVE r.repository_id = Context.repository_id
<1> DEFINE b == r.repository_id # Context.repository_id
<1>1. 2 \in DOMAIN Refusals(r) /\ Refusals(r)[2] = <<b, "Unauthorized">>
  BY DEF Refusals
<1>2. Refusals(r)[2][1] = b
  BY <1>1
<1>3. ~(Refusals(r)[2][1])
  BY <1>1 DEF Passes, Failing
<1> QED
  BY <1>2, <1>3

\* The adapter's refusals have its errors.
LEMMA RefusalErrors ==
    ASSUME NEW r, ~Passes(Refusals(r)) PROVE FirstError(Refusals(r)) \in Errors
<1>1. DOMAIN Refusals(r) = 1..7
      /\ \A i \in 1..7 : Refusals(r)[i][2] \in Errors
  BY DEF Refusals, Errors
<1> QED
  BY <1>1, FirstErrorIsAnError

\* The errors of a call that does not reach the backend.
CallErrors ==
    {"METHOD_NOT_FOUND", "ARGUMENTS_TOO_LARGE", "TOOL_NOT_FOUND", "MALFORMED_ARGUMENTS"}

\* The transport and the checks of call_tool give no other error.
LEMMA CallChecksErrors ==
    ASSUME NEW c, ~Passes(CallChecks(c)) PROVE FirstError(CallChecks(c)) \in CallErrors
<1> DEFINE b1 == c.form = "otherMethod"
           b2 == c.form = "large"
           b3 == c.form = "unknownTool"
           b4 == c.form \in {"undecodable", "blank"}
           b5 == \/ c.target.repository_id = 0 \/ c.target.environment_id = 0
                 \/ c.target.commit_sha \in IllFormedShas
           s == << <<b1, "METHOD_NOT_FOUND">>, <<b2, "ARGUMENTS_TOO_LARGE">>,
                   <<b3, "TOOL_NOT_FOUND">>, <<b4, "MALFORMED_ARGUMENTS">> >>
           u == << <<b5, "MALFORMED_ARGUMENTS">> >>
           S == {b1, b2, b3, b4, b5} \X CallErrors
<1>1. CallChecks(c) = s \o <<>> \/ CallChecks(c) = s \o u
  BY DEF CallChecks, ValidateDeploymentFields
<1> HIDE DEF b1, b2, b3, b4, b5
<1>2. s \in Seq(S) /\ u \in Seq(S) /\ <<>> \in Seq(S)
  BY DEF CallErrors
<1> HIDE DEF s, u
<1>3. CallChecks(c) \in Seq(S)
  <2> HIDE DEF S
  <2>1. s \o u \in Seq(S) /\ s \o <<>> \in Seq(S)
    BY <1>2
  <2> QED
    BY <1>1, <2>1, Zenon
<1>4. /\ DOMAIN CallChecks(c) \subseteq Nat
      /\ \A i \in DOMAIN CallChecks(c) : CallChecks(c)[i][2] \in CallErrors
  BY <1>3
<1> QED
  BY <1>4, FirstErrorIsAnError

-----------------------------------------------------------------------------
(* Intents                                                                 *)

\* normalize accepts an input only with no gate digest, or with that of its contexts.
LEMMA GateChecked ==
    ASSUME NEW input, NEW by, NEW cs, Passes(Checks(input, by, cs))
    PROVE  \/ input.deployment_gate_policy_digest = NoDigest
           \/ input.deployment_gate_policy_digest = GatePolicyDigest(input.required_contexts)
<1> DEFINE
   b == input.deployment_gate_policy_digest # NoDigest
         /\ input.deployment_gate_policy_digest # GatePolicyDigest(input.required_contexts)
   t == << <<b, "GatePolicyMismatch">> >>
   f1 == ValidateFixedControls(input)
   f2 == << <<input.repository_id = 0, "InvalidStableId">>,
          <<input.environment_id = 0, "InvalidStableId">> >>
   f3 == ValidateDisplayField(input.repository_owner)
   f4 == ValidateDisplayField(input.repository_name)
   f5 == ValidateDisplayField(input.environment_name)
   f6 == ValidateCommitSha(input.commit_sha)
   f7 == << <<input.ref_field # input.commit_sha, "RefMismatch">> >>
   f8 == ValidateRequiredContexts(input.required_contexts)
   f9 == << <<by = "", "EmptyField">>,
          <<by = "overlong", "IdentityTooLong">>,
          <<Len(cs) > MaxContextCommitments, "TooManyContextCommitments">> >>
<1>1. Checks(input, by, cs) = f1 \o f2 \o f3 \o f4 \o f5 \o f6 \o f7 \o f8 \o t \o f9
  BY DEF Checks, ValidateGatePolicy
<1>2. IsSeq(f1) /\ IsSeq(f2) /\ IsSeq(f3) /\ IsSeq(f4)
  BY Literals DEF ValidateFixedControls, ValidateDisplayField
<1>3. IsSeq(f5) /\ IsSeq(f6) /\ IsSeq(f7) /\ IsSeq(f9)
  BY Literals DEF ValidateDisplayField, ValidateCommitSha
<1>4. IsSeq(f8)
  BY Literals DEF ValidateRequiredContexts
<1>5. IsSeq(t)
  BY Literals
<1> HIDE DEF f1, f2, f3, f4, f5, f6, f7, f8, f9, t
<1>6. IsSeq(f1 \o f2 \o f3 \o f4)
  BY <1>2, Concatenation
<1>7. IsSeq(f1 \o f2 \o f3 \o f4 \o f5 \o f6 \o f7 \o f8)
  BY <1>3, <1>4, <1>6, Concatenation
<1>8. Passes(f1 \o f2 \o f3 \o f4 \o f5 \o f6 \o f7 \o f8 \o t)
  BY <1>1, <1>3, <1>5, <1>7, Concatenation
<1>9. Passes(t)
  BY <1>5, <1>7, <1>8, Concatenation
<1>10. t[1] = <<b, "GatePolicyMismatch">> /\ 1 \in DOMAIN t
  BY DEF t
<1>11. t[1][1] = b
  BY <1>10
<1>12. ~(t[1][1])
  BY <1>9, <1>10 DEF Passes, Failing
<1> QED
  BY <1>11, <1>12

\* What the state of the tools is made of, as far as the argument needs it.
ToolTypes ==
    /\ attempts \in Nat /\ moved \in BOOLEAN /\ DOMAIN repoOf = Names
    /\ pc \in [Callers -> {"idle", "secret", "token", "post", "answer"}]
    /\ DOMAIN req = Callers /\ DOMAIN res = Callers /\ DOMAIN created = Callers
    /\ at \in [Callers -> {"idle", "object", "intent", "backend", "dispatch", "bound"}]
    /\ DOMAIN call = Callers /\ DOMAIN answer = Callers /\ DOMAIN effects = Callers
    /\ config \in [Tenants -> Configs] /\ DOMAIN gates = Tenants
    /\ requests \subseteq [tenant : Tenants, intent : Intents]
    /\ mandates \in [Mandates -> Issued \cup {None}]

\* A recomputed intent is of the arguments, and its gate is that of the configuration.
LEMMA RecomputedIntent ==
    ASSUME NEW t, NEW g, RecomputeIntent(t, g).ok
    PROVE  LET intent == RecomputeIntent(t, g).intent
           IN  /\ intent = BuildGithubActionIntent(Profile(Input(t, g)), t, 0, 0, <<>>)
               /\ intent.profile.commit_sha = g.commit_sha
               /\ intent.profile.repository_id = g.repository_id
               /\ intent.profile.required_contexts = config[t].required_contexts
               /\ config[t].deployment_gate_policy_digest \in
                     {NoDigest, GatePolicyDigest(config[t].required_contexts)}
<1> DEFINE built == BuildGithubActionIntent(Profile(Input(t, g)), t, 0, 0, <<>>)
<1>1. Passes(Checks(Input(t, g), t, <<>>))
  BY DEF RecomputeIntent, Normalize
<1>2. RecomputeIntent(t, g).intent = built
  BY <1>1 DEF RecomputeIntent, Normalize
<1>3. /\ Input(t, g).commit_sha = g.commit_sha
      /\ Input(t, g).repository_id = g.repository_id
      /\ Input(t, g).required_contexts = config[t].required_contexts
      /\ Input(t, g).deployment_gate_policy_digest = config[t].deployment_gate_policy_digest
  BY DEF Input, Completed
<1>4. config[t].deployment_gate_policy_digest \in
          {NoDigest, GatePolicyDigest(config[t].required_contexts)}
  BY <1>1, <1>3, GateChecked
<1>5. /\ built.profile.commit_sha = Input(t, g).commit_sha
      /\ built.profile.repository_id = Input(t, g).repository_id
      /\ built.profile.required_contexts = Input(t, g).required_contexts
  BY DEF BuildGithubActionIntent, Profile
<1> HIDE DEF built
<1> QED
  BY <1>2, <1>3, <1>4, <1>5 DEF built

\* What an agent may name is an intent of some configuration.
LEMMA KnownIntents == ASSUME ToolTypes PROVE IntentsKnown \subseteq Intents
<1>1. ASSUME NEW t \in Tenants, NEW g \in Targets, RecomputeIntent(t, g).ok
      PROVE  RecomputeIntent(t, g).intent \in Intents
  <2>1. config[t] \in Configs
    BY DEF ToolTypes
  <2>2. RecomputeIntent(t, g).intent
            = BuildGithubActionIntent(Profile(Completed(config[t], g)), t, 0, 0, <<>>)
    BY <1>1, RecomputedIntent DEF Input
  <2> QED
    BY <2>1, <2>2 DEF Intents
<1>2. \A r \in requests : r.intent \in Intents
  BY DEF ToolTypes
<1>3. \A m \in Mandates : mandates[m] # None => mandates[m].intent \in Intents
  BY DEF ToolTypes, Issued
<1>4. \A x \in {y \in Tenants \X Targets : RecomputeIntent(y[1], y[2]).ok} :
          RecomputeIntent(x[1], x[2]).intent \in Intents
  BY <1>1
<1> QED
  BY <1>2, <1>3, <1>4 DEF IntentsKnown

-----------------------------------------------------------------------------
(* The parts of the invariant                                              *)

\* The mandate was spent on this deployment, which is of its intent.
Approved(m, d) ==
    /\ mandates[m] # None
    /\ mandates[m].attempt = d.attempt_digest
    /\ d.commit_sha = mandates[m].intent.profile.commit_sha
    /\ d.environment = mandates[m].intent.profile.environment_name
    /\ d.repository = mandates[m].intent.profile.repository_id \/ moved

\* What holds of no agent in particular.
World ==
    /\ SurroundingsAgree
    /\ DigestsAreFresh
    /\ \A d \in deployments : \E m \in Mandates : Approved(m, d)
    /\ \A r \in requests : Administered(r.tenant, r.intent)

\* An agent told nothing, or of a call that failed early, has brought nothing about.
ToldOfNothing(a) ==
    at[a] = "idle" /\ (answer[a] = None \/ answer[a].code \in CallErrors \cup {"INTENT_MISMATCH"})
        => effects[a] = {}

\* What the adapter reports to this caller is at the provider.
Reported(a) ==
    res[a] # None /\ res[a].ok =>
        \E d \in deployments :
            /\ d.id = res[a].deployment_id
            /\ d.attempt_digest = res[a].attempt_digest
            /\ d.commit_sha = req[a].commit_sha /\ d.environment = req[a].environment

Agent(a) ==
    /\ CallIsChecked(a) /\ DispatchIsApproved(a)
    /\ AnswerIsThere(a) /\ RefusalIsOfTheAdapter(a)
    /\ ToldOfNothing(a) /\ Reported(a)

InParts == World /\ \A a \in Callers : Agent(a)

\* The parts are the invariant.
LEMMA Parts == ToolTypes => (ToolsInv <=> InParts)
<1> SUFFICES ASSUME ToolTypes PROVE ToolsInv <=> InParts
  OBVIOUS
<1>1. DeployedWasApproved <=> \A d \in deployments : \E m \in Mandates : Approved(m, d)
  BY DEF DeployedWasApproved, Approved
<1>2. GateIsAdministered <=> \A r \in requests : Administered(r.tenant, r.intent)
  BY DEF GateIsAdministered, Administered
<1>3. CreatedIsThere <=> \A a \in Callers : Reported(a)
  BY DEF CreatedIsThere, Reported
<1>4. RefusedDidNothing => \A a \in Callers : ToldOfNothing(a)
  BY DEF RefusedDidNothing, ToldOfNothing, CallErrors
<1>5. ASSUME DigestsAreFresh, NEW a \in Callers, DispatchIsApproved(a),
             RefusalIsOfTheAdapter(a), at[a] = "idle", answer[a] # None,
             answer[a].code \in Refusing
      PROVE  \A d \in deployments : d.attempt_digest # req[a].attempt_digest
  <2>1. pc[a] = "idle" /\ res[a] \in [ok : {FALSE}, error : Refusing]
    BY <1>5 DEF DispatchIsApproved, RefusalIsOfTheAdapter
  <2> QED
    BY <1>5, <2>1 DEF DigestsAreFresh, IsUnsent
<1>6. World /\ (\A a \in Callers : Agent(a)) => RefusedDidNothing
  BY <1>5 DEF World, Agent, RefusedDidNothing, ToldOfNothing, CallErrors, Refusing
<1> QED
  BY <1>1, <1>2, <1>3, <1>4, <1>6 DEF ToolsInv, InParts, World, Agent

\* What a step leaves of what other agents depend on.
Grows ==
    /\ \A t \in Tenants : gates[t] \subseteq gates'[t]
    /\ deployments \subseteq deployments'
    /\ \A m \in Mandates : mandates[m] # None /\ mandates[m].attempt # 0 => mandates'[m] = mandates[m]

\* Only this agent's part moves.
OthersStay(a) ==
    \A b \in Callers : b # a =>
        /\ pc'[b] = pc[b] /\ req'[b] = req[b] /\ res'[b] = res[b] /\ created'[b] = created[b]
        /\ at'[b] = at[b] /\ call'[b] = call[b] /\ answer'[b] = answer[b]
        /\ effects'[b] = effects[b]

\* A dispatch that has begun has an attempt number, and 0 is none.
LEMMA AttemptIsNotZero ==
    ASSUME ToolTypes, DigestsAreFresh, NEW a \in Callers, Started(a)
    PROVE  req[a].attempt_digest # 0 /\ req[a].attempt_digest \in Nat
  BY DEF ToolTypes, DigestsAreFresh

\* What was spent on an attempt stays spent on it.
LEMMA BackingStays ==
    ASSUME Grows, NEW m \in Mandates, NEW r, r.attempt_digest # 0, Backs(m, r)
    PROVE  /\ mandates'[m] # None /\ mandates'[m].attempt = r.attempt_digest
           /\ mandates'[m].intent.profile.commit_sha = r.commit_sha
           /\ mandates'[m].intent.profile.environment_name = r.environment
           /\ mandates'[m].intent.profile.repository_id = r.repository_id
<1>1. mandates'[m] = mandates[m]
  BY DEF Grows, Backs
<1> QED
  BY <1>1 DEF Backs

\* An agent whose part does not move keeps what holds of it.
LEMMA AgentStays ==
    ASSUME ToolTypes, DigestsAreFresh, Grows, NEW a \in Callers, Agent(a),
           pc'[a] = pc[a], req'[a] = req[a], res'[a] = res[a], created'[a] = created[a],
           at'[a] = at[a], call'[a] = call[a], answer'[a] = answer[a],
           effects'[a] = effects[a]
    PROVE  Agent(a)'
<1>1. CallIsChecked(a)'
  <2>1. TenantOf[a] \in Tenants
    BY AgentToolsAssumption
  <2> QED
    BY <2>1 DEF Agent, CallIsChecked, Administered, Grows
<1>2. DispatchIsApproved(a)'
  <2>1. ASSUME pc[a] # "idle" PROVE \E m \in Mandates : Backs(m, req[a])'
    <3>1. PICK m \in Mandates : Backs(m, req[a])
      BY <2>1 DEF Agent, DispatchIsApproved
    <3>2. req[a].attempt_digest # 0
      BY <2>1, AttemptIsNotZero DEF Started
    <3>3. Backs(m, req[a])'
      BY <3>1, <3>2, BackingStays DEF Backs
    <3> QED
      BY <3>3
  <2>2. pc[a] # "idle" => at[a] = "dispatch" /\ req[a].repository_id = Context.repository_id
    BY DEF Agent, DispatchIsApproved
  <2>3. at[a] = "dispatch" /\ pc[a] = "idle" /\ ~ res[a].ok => res[a] \in [ok : {FALSE}, error : Errors]
    BY DEF Agent, DispatchIsApproved
  <2> QED
    BY <2>1, <2>2, <2>3 DEF DispatchIsApproved
<1>3. AnswerIsThere(a)'
  BY DEF Agent, AnswerIsThere, Grows
<1>4. RefusalIsOfTheAdapter(a)'
  BY DEF Agent, RefusalIsOfTheAdapter
<1>5. ToldOfNothing(a)'
  BY DEF Agent, ToldOfNothing
<1>6. Reported(a)'
  BY DEF Agent, Reported, Grows
<1> QED
  BY <1>1, <1>2, <1>3, <1>4, <1>5, <1>6 DEF Agent

\* The whole invariant after a step of one agent.
LEMMA AgentMoves ==
    ASSUME ToolTypes, World, \A b \in Callers : Agent(b),
           NEW a \in Callers, Grows, OthersStay(a), Agent(a)'
    PROVE  \A b \in Callers : Agent(b)'
<1>1. ASSUME NEW b \in Callers, b # a PROVE Agent(b)'
  BY <1>1, AgentStays DEF OthersStay, World
<1> QED
  BY <1>1

-----------------------------------------------------------------------------
(* The steps of the tools                                                  *)

\* A step that leaves the adapter, the configuration and the mandates alone.
LEMMA ToolWorld ==
    ASSUME ToolTypes, World, UNCHANGED <<adapterVars, config, gates, mandates>>,
           requests' \subseteq [tenant : Tenants, intent : Intents],
           \A r \in requests' : Administered(r.tenant, r.intent)
    PROVE  World' /\ Grows
<1>1. UNCHANGED <<moved, repoOf, deployments, attempts, pc, req, res, created, config, gates, mandates>>
  BY DEF adapterVars
<1>2. SurroundingsAgree'
  BY <1>1 DEF World, SurroundingsAgree
<1>3. DigestsAreFresh'
  BY <1>1 DEF World, DigestsAreFresh, Started, IsUnsent
<1>4. \A d \in deployments' : \E m \in Mandates : Approved(m, d)'
  BY <1>1 DEF World, Approved
<1>5. \A r \in requests' : Administered(r.tenant, r.intent)'
  BY <1>1 DEF Administered
<1>6. Grows
  BY <1>1 DEF Grows
<1> QED
  BY <1>2, <1>3, <1>4, <1>5, <1>6 DEF World

\* A function of the agents, changed at one of them at most.
ChangedAt(a, f, g) == DOMAIN g = DOMAIN f /\ \A b \in Callers : b # a => g[b] = f[b]

\* The agent's own part after such a step, whichever answer it has been given.
LEMMA ToolAgent ==
    ASSUME ToolTypes, World, NEW a \in Callers, Agent(a),
           UNCHANGED <<adapterVars, mandates>>, pc[a] = "idle",
           CallIsChecked(a)', RefusalIsOfTheAdapter(a)', ToldOfNothing(a)',
           at'[a] # "dispatch"
    PROVE  Agent(a)'
<1>1. UNCHANGED <<deployments, pc, req, res, created>>
  BY DEF adapterVars
<1>2. DispatchIsApproved(a)'
  BY <1>1 DEF DispatchIsApproved
<1>3. AnswerIsThere(a)'
  BY <1>1 DEF AnswerIsThere
<1>4. Reported(a)'
  BY <1>1 DEF Reported, Agent
<1> QED
  BY <1>2, <1>3, <1>4 DEF Agent

\* An answer of this code is no refusal of the adapter.
LEMMA OwnAnswer ==
    ASSUME NEW a \in Callers,
           \/ answer'[a] = None
           \/ answer'[a].code \in CallErrors \cup
                 {"OK", "INTENT_MISMATCH", "BACKEND_ERROR", "RESPONSE_TOO_LARGE"}
    PROVE  RefusalIsOfTheAdapter(a)'
  BY DEF RefusalIsOfTheAdapter, Refusing, CallErrors

\* An answer is not None.
LEMMA AnswersAreSome ==
    /\ \A code \in Codes : Error(code) # None /\ Error(code).code = code
    /\ [ok |-> TRUE, code |-> "OK"] # None
<1>1. ASSUME NEW b \in BOOLEAN, NEW code \in Codes PROVE [ok |-> b, code |-> code] # None
  <2>1. [ok |-> b, code |-> code] \in [ok : BOOLEAN, code : Codes]
    OBVIOUS
  <2> QED
    BY <2>1, NoneAssumption
<1>2. ASSUME NEW code \in Codes PROVE Error(code) # None /\ Error(code).code = code
  BY <1>1 DEF Error
<1>3. "OK" \in Codes
  BY DEF Codes
<1> QED
  BY <1>1, <1>2, <1>3

\* A call is taken: dropped, answered at once, or checked and handed on.
LEMMA HandleDoes ==
    ASSUME ToolTypes, World, NEW a \in Callers, Agent(a), Handle(a)
    PROVE  ToolTypes' /\ World' /\ Grows /\ OthersStay(a) /\ Agent(a)'
<1>1. PICK c \in Messages :
          \/ /\ c.form \in {"noId", "noMethod"}
             /\ Reply(a, None)
          \/ /\ c.form \in {"initialize", "tools/list"}
             /\ Reply(a, [ok |-> TRUE, code |-> "OK"])
          \/ /\ c.form \notin {"noId", "noMethod", "initialize", "tools/list"}
             /\ ~ Passes(CallChecks(c))
             /\ Reply(a, Error(FirstError(CallChecks(c))))
          \/ /\ c.form \notin {"noId", "noMethod", "initialize", "tools/list"}
             /\ Passes(CallChecks(c))
             /\ \/ /\ c.tool \in ObjectTools
                   /\ at' = [at EXCEPT ![a] = "object"]
                   /\ UNCHANGED call
                \/ /\ c.tool \notin ObjectTools
                   /\ at' = [at EXCEPT ![a] = "intent"]
                   /\ call' = [call EXCEPT ![a] = c]
             /\ answer' = [answer EXCEPT ![a] = None]
  BY DEF Handle
<1>2. /\ effects' = [effects EXCEPT ![a] = {}] /\ at[a] = "idle"
      /\ UNCHANGED <<adapterVars, config, gates, requests, mandates>>
  BY DEF Handle
<1>3. pc[a] = "idle"
  BY <1>2 DEF Agent, DispatchIsApproved
<1>4. PICK stage \in {"idle", "object", "intent"} :
         /\ at' = [at EXCEPT ![a] = stage]
         /\ ChangedAt(a, answer, answer') /\ ChangedAt(a, call, call')
         /\ answer'[a] = None \/ answer'[a].code \in CallErrors \cup {"OK"}
         /\ stage = "intent" =>
               /\ call'[a].intent \in Intents
               /\ call'[a].tool = "piteka_execute_approved_deployment" =>
                     call'[a].mandate \in Mandates
  <2>1. CASE Reply(a, None)
    BY <2>1 DEF Reply, ToolTypes, ChangedAt
  <2>2. CASE Reply(a, [ok |-> TRUE, code |-> "OK"])
    BY <2>2 DEF Reply, ToolTypes, ChangedAt
  <2>3. CASE ~ Passes(CallChecks(c)) /\ Reply(a, Error(FirstError(CallChecks(c))))
    <3>1. Error(FirstError(CallChecks(c))).code \in CallErrors
      BY <2>3, CallChecksErrors DEF Error
    <3> QED
      BY <2>3, <3>1 DEF Reply, ToolTypes, ChangedAt
  <2>4. CASE at' = [at EXCEPT ![a] = "object"] /\ UNCHANGED call /\ answer' = [answer EXCEPT ![a] = None]
    BY <2>4 DEF ToolTypes, ChangedAt
  <2>5. CASE /\ c.tool \notin ObjectTools /\ at' = [at EXCEPT ![a] = "intent"]
             /\ call' = [call EXCEPT ![a] = c] /\ answer' = [answer EXCEPT ![a] = None]
    <3>1. c.intent \in IntentsKnown
      BY <2>5 DEF Messages
    <3>2. c.tool = "piteka_execute_approved_deployment" => c.mandate \in Mandates
      BY <2>5 DEF Messages
    <3> QED
      BY <2>5, <3>1, <3>2, KnownIntents DEF ToolTypes, ChangedAt
  <2> QED
    BY <1>1, <2>1, <2>2, <2>3, <2>4, <2>5
<1>5. at'[a] = stage /\ effects'[a] = {}
  BY <1>2, <1>4 DEF ToolTypes
<1>6. ToolTypes'
  BY <1>2, <1>4 DEF ToolTypes, ChangedAt, adapterVars
<1>7. OthersStay(a)
  BY <1>2, <1>4 DEF OthersStay, ToolTypes, ChangedAt, adapterVars
<1>8. World' /\ Grows
  BY <1>2, ToolWorld DEF World, ToolTypes
<1>9. CallIsChecked(a)' /\ ToldOfNothing(a)'
  BY <1>4, <1>5 DEF CallIsChecked, ToldOfNothing
<1>10. RefusalIsOfTheAdapter(a)'
  BY <1>4, <1>5, OwnAnswer
<1>11. Agent(a)'
  BY <1>2, <1>3, <1>5, <1>9, <1>10, ToolAgent
<1> QED
  BY <1>6, <1>7, <1>8, <1>11

\* The frame of a step that only moves a call on or answers it.
LEMMA CallMoves ==
    ASSUME ToolTypes, World, NEW a \in Callers, Agent(a), pc[a] = "idle",
           UNCHANGED <<adapterVars, config, gates, requests, mandates, effects>>,
           NEW stage \in {"idle", "backend", "bound"}, NEW outcome, NEW next,
           at' = [at EXCEPT ![a] = stage],
           ChangedAt(a, answer, answer'), answer'[a] = outcome,
           ChangedAt(a, call, call'), call'[a] = next,
           stage = "backend" =>
               /\ next = call[a] /\ effects[a] = {}
               /\ call[a].intent \in Intents
               /\ call[a].tool = "piteka_execute_approved_deployment" => call[a].mandate \in Mandates
               /\ call[a].intent.profile.commit_sha = call[a].target.commit_sha
               /\ call[a].intent.profile.repository_id = call[a].target.repository_id
               /\ Administered(TenantOf[a], call[a].intent),
           stage = "idle" =>
               /\ outcome # None
               /\ outcome.code \in CallErrors \cup {"INTENT_MISMATCH"} => effects[a] = {}
               /\ outcome.code \in Refusing => res[a] \in [ok : {FALSE}, error : Refusing]
    PROVE  ToolTypes' /\ World' /\ Grows /\ OthersStay(a) /\ Agent(a)'
<1>1. /\ at'[a] = stage /\ answer'[a] = outcome /\ call'[a] = next
      /\ effects'[a] = effects[a] /\ res'[a] = res[a]
  BY DEF ToolTypes, adapterVars
<1>2. ToolTypes'
  BY DEF ToolTypes, ChangedAt, adapterVars
<1>3. OthersStay(a)
  BY DEF OthersStay, ToolTypes, ChangedAt, adapterVars
<1>4. World' /\ Grows
  BY ToolWorld DEF World, ToolTypes
<1>5. CallIsChecked(a)'
  BY <1>1 DEF CallIsChecked, Administered
<1>6. ToldOfNothing(a)'
  BY <1>1 DEF ToldOfNothing
<1>7. RefusalIsOfTheAdapter(a)'
  BY <1>1 DEF RefusalIsOfTheAdapter
<1>8. Agent(a)'
  BY <1>1, <1>5, <1>6, <1>7, ToolAgent
<1> QED
  BY <1>2, <1>3, <1>4, <1>8

\* The agent is told an outcome of its call.
LEMMA ReplyDoes ==
    ASSUME ToolTypes, World, NEW a \in Callers, Agent(a), pc[a] = "idle",
           UNCHANGED <<adapterVars, config, gates, requests, mandates, effects>>,
           NEW outcome, Reply(a, outcome), outcome # None,
           outcome.code \in CallErrors \cup {"INTENT_MISMATCH"} => effects[a] = {},
           outcome.code \in Refusing => res[a] \in [ok : {FALSE}, error : Refusing]
    PROVE  ToolTypes' /\ World' /\ Grows /\ OthersStay(a) /\ Agent(a)'
<1>1. /\ at' = [at EXCEPT ![a] = "idle"]
      /\ ChangedAt(a, answer, answer') /\ answer'[a] = outcome
      /\ ChangedAt(a, call, call') /\ call'[a] = None
  BY DEF Reply, ToolTypes, ChangedAt
<1> QED
  BY <1>1, CallMoves

\* The call goes on to its end.
LEMMA BoundDoes ==
    ASSUME ToolTypes, World, NEW a \in Callers, Agent(a), pc[a] = "idle",
           UNCHANGED <<adapterVars, config, gates, requests, mandates, effects, call, answer>>,
           at' = [at EXCEPT ![a] = "bound"]
    PROVE  ToolTypes' /\ World' /\ Grows /\ OthersStay(a) /\ Agent(a)'
<1>1. /\ ChangedAt(a, answer, answer') /\ answer'[a] = answer[a]
      /\ ChangedAt(a, call, call') /\ call'[a] = call[a]
  BY DEF ChangedAt
<1> QED
  BY <1>1, CallMoves

\* The codes of the tools' own errors that come after the checks.
LEMMA LateCodes ==
    /\ {"BACKEND_ERROR", "RESPONSE_TOO_LARGE", "OK", "INTENT_MISMATCH"} \subseteq Codes
    /\ CallErrors \subseteq Codes /\ Errors \subseteq Codes
    /\ \A code \in {"BACKEND_ERROR", "RESPONSE_TOO_LARGE", "OK"} :
          code \notin CallErrors \cup {"INTENT_MISMATCH"} \cup Refusing
    /\ "INTENT_MISMATCH" \notin Refusing
    /\ \A code \in Errors : code \notin CallErrors \cup {"INTENT_MISMATCH"}
  BY DEF Codes, CallErrors, Errors, Refusing

\* The intent the agent names is compared with the one its arguments make.
LEMMA ValidateIntentDoes ==
    ASSUME ToolTypes, World, NEW a \in Callers, Agent(a), ValidateIntent(a)
    PROVE  ToolTypes' /\ World' /\ Grows /\ OthersStay(a) /\ Agent(a)'
<1> DEFINE t == TenantOf[a]
           computed == RecomputeIntent(t, call[a].target)
<1>1. /\ at[a] = "intent"
      /\ UNCHANGED <<adapterVars, config, gates, requests, mandates, effects, calls, changes>>
      /\ \/ Reply(a, Error("BACKEND_ERROR"))
         \/ Reply(a, Error("INTENT_MISMATCH"))
         \/ /\ computed.ok /\ call[a].intent = computed.intent
            /\ at' = [at EXCEPT ![a] = "backend"]
            /\ UNCHANGED <<call, answer>>
  BY DEF ValidateIntent, IntentMatches
<1>2. pc[a] = "idle" /\ effects[a] = {}
  BY <1>1 DEF Agent, DispatchIsApproved, CallIsChecked
<1>3. CASE Reply(a, Error("BACKEND_ERROR"))
  BY <1>1, <1>2, <1>3, ReplyDoes, AnswersAreSome, LateCodes
<1>4. CASE Reply(a, Error("INTENT_MISMATCH"))
  BY <1>1, <1>2, <1>4, ReplyDoes, AnswersAreSome, LateCodes
<1>5. CASE /\ computed.ok /\ call[a].intent = computed.intent
           /\ at' = [at EXCEPT ![a] = "backend"]
           /\ UNCHANGED <<call, answer>>
  <2>1. /\ call[a].intent.profile.commit_sha = call[a].target.commit_sha
        /\ call[a].intent.profile.repository_id = call[a].target.repository_id
        /\ call[a].intent.profile.required_contexts = config[t].required_contexts
        /\ config[t].deployment_gate_policy_digest \in
              {NoDigest, GatePolicyDigest(config[t].required_contexts)}
    BY <1>5, RecomputedIntent
  <2>2. config[t].deployment_gate_policy_digest \in gates[t]
    BY AgentToolsAssumption DEF World, SurroundingsAgree
  <2>3. Administered(t, call[a].intent)
    BY <2>1, <2>2 DEF Administered
  <2>4. /\ call[a].intent \in Intents
        /\ call[a].tool = "piteka_execute_approved_deployment" => call[a].mandate \in Mandates
    BY <1>1 DEF Agent, CallIsChecked
  <2>5. /\ ChangedAt(a, answer, answer') /\ answer'[a] = answer[a]
        /\ ChangedAt(a, call, call') /\ call'[a] = call[a]
    BY <1>5 DEF ChangedAt
  <2> HIDE DEF computed
  <2> QED
    BY <1>1, <1>2, <1>5, <2>1, <2>3, <2>4, <2>5, CallMoves
<1> QED
  BY <1>1, <1>3, <1>4, <1>5

\* The answer is bounded after the effect.
LEMMA BoundResponseDoes ==
    ASSUME ToolTypes, World, NEW a \in Callers, Agent(a), BoundResponse(a)
    PROVE  ToolTypes' /\ World' /\ Grows /\ OthersStay(a) /\ Agent(a)'
<1>1. /\ at[a] = "bound"
      /\ UNCHANGED <<adapterVars, config, gates, requests, mandates, effects>>
      /\ \/ Reply(a, [ok |-> TRUE, code |-> "OK"])
         \/ Reply(a, Error("RESPONSE_TOO_LARGE"))
  BY DEF BoundResponse, BoundError
<1>2. pc[a] = "idle"
  BY <1>1 DEF Agent, DispatchIsApproved
<1>3. CASE Reply(a, [ok |-> TRUE, code |-> "OK"])
  <2> DEFINE outcome == [ok |-> TRUE, code |-> "OK"]
  <2>1. outcome # None /\ outcome.code = "OK"
    BY AnswersAreSome
  <2>2. Reply(a, outcome)
    BY <1>3
  <2> HIDE DEF outcome
  <2> QED
    BY <1>1, <1>2, <2>1, <2>2, ReplyDoes, LateCodes
<1>4. CASE Reply(a, Error("RESPONSE_TOO_LARGE"))
  BY <1>1, <1>2, <1>4, ReplyDoes, AnswersAreSome, LateCodes
<1> QED
  BY <1>1, <1>3, <1>4

\* A tool that reads.
LEMMA BackendObjectDoes ==
    ASSUME ToolTypes, World, NEW a \in Callers, Agent(a), BackendObject(a)
    PROVE  ToolTypes' /\ World' /\ Grows /\ OthersStay(a) /\ Agent(a)'
<1>1. /\ at[a] = "object"
      /\ UNCHANGED <<adapterVars, config, gates, requests, mandates, effects>>
      /\ \/ at' = [at EXCEPT ![a] = "bound"] /\ UNCHANGED <<call, answer>>
         \/ Reply(a, Error("BACKEND_ERROR"))
  BY DEF BackendObject
<1>2. pc[a] = "idle"
  BY <1>1 DEF Agent, DispatchIsApproved
<1>3. CASE at' = [at EXCEPT ![a] = "bound"] /\ UNCHANGED <<call, answer>>
  BY <1>1, <1>2, <1>3, BoundDoes
<1>4. CASE Reply(a, Error("BACKEND_ERROR"))
  BY <1>1, <1>2, <1>4, ReplyDoes, AnswersAreSome, LateCodes
<1> QED
  BY <1>1, <1>3, <1>4

\* A request is put on record, or the backend fails.
LEMMA BackendRequestDoes ==
    ASSUME ToolTypes, World, NEW a \in Callers, Agent(a), BackendRequest(a)
    PROVE  ToolTypes' /\ World' /\ Grows /\ OthersStay(a) /\ Agent(a)'
<1>1. /\ at[a] = "backend"
      /\ UNCHANGED <<adapterVars, config, gates, mandates>>
      /\ \/ /\ requests' = requests \cup {[tenant |-> TenantOf[a], intent |-> call[a].intent]}
            /\ effects' = [effects EXCEPT ![a] = @ \cup {"requested"}]
            /\ at' = [at EXCEPT ![a] = "bound"]
            /\ UNCHANGED <<call, answer>>
         \/ /\ Reply(a, Error("BACKEND_ERROR"))
            /\ UNCHANGED <<requests, effects>>
  BY DEF BackendRequest
<1>2. pc[a] = "idle"
  BY <1>1 DEF Agent, DispatchIsApproved
<1>3. CASE Reply(a, Error("BACKEND_ERROR")) /\ UNCHANGED <<requests, effects>>
  BY <1>1, <1>2, <1>3, ReplyDoes, AnswersAreSome, LateCodes
<1>4. CASE /\ requests' = requests \cup {[tenant |-> TenantOf[a], intent |-> call[a].intent]}
           /\ effects' = [effects EXCEPT ![a] = @ \cup {"requested"}]
           /\ at' = [at EXCEPT ![a] = "bound"]
           /\ UNCHANGED <<call, answer>>
  <2> DEFINE new == [tenant |-> TenantOf[a], intent |-> call[a].intent]
  <2>1. /\ call[a].intent \in Intents /\ TenantOf[a] \in Tenants
        /\ Administered(TenantOf[a], call[a].intent)
    BY <1>1, AgentToolsAssumption DEF Agent, CallIsChecked
  <2>2. /\ new \in [tenant : Tenants, intent : Intents]
        /\ Administered(new.tenant, new.intent) /\ requests' = requests \cup {new}
    BY <1>4, <2>1
  <2> HIDE DEF new
  <2>3. World' /\ Grows /\ requests' \subseteq [tenant : Tenants, intent : Intents]
    BY <1>1, <2>2, ToolWorld DEF World, ToolTypes
  <2>4. at'[a] = "bound"
    BY <1>4 DEF ToolTypes
  <2>5. ToolTypes'
    BY <1>1, <1>4, <2>3 DEF ToolTypes, adapterVars
  <2>6. OthersStay(a)
    BY <1>1, <1>4 DEF OthersStay, ToolTypes, adapterVars
  <2>7. CallIsChecked(a)' /\ RefusalIsOfTheAdapter(a)' /\ ToldOfNothing(a)'
    BY <2>4 DEF CallIsChecked, RefusalIsOfTheAdapter, ToldOfNothing
  <2>8. Agent(a)'
    BY <1>1, <1>2, <2>4, <2>7, ToolAgent
  <2> QED
    BY <2>3, <2>5, <2>6, <2>8
<1> QED
  BY <1>1, <1>3, <1>4

\* The agent is told what the adapter has returned.
LEMMA DispatchedDoes ==
    ASSUME ToolTypes, World, NEW a \in Callers, Agent(a), Dispatched(a)
    PROVE  ToolTypes' /\ World' /\ Grows /\ OthersStay(a) /\ Agent(a)'
<1>1. /\ at[a] = "dispatch" /\ pc[a] = "idle"
      /\ UNCHANGED <<adapterVars, config, gates, requests, mandates, effects>>
      /\ \/ at' = [at EXCEPT ![a] = "bound"] /\ UNCHANGED <<call, answer>>
         \/ ~ res[a].ok /\ Reply(a, Error(res[a].error))
  BY DEF Dispatched
<1>2. CASE at' = [at EXCEPT ![a] = "bound"] /\ UNCHANGED <<call, answer>>
  BY <1>1, <1>2, BoundDoes
<1>3. CASE ~ res[a].ok /\ Reply(a, Error(res[a].error))
  <2>1. res[a] \in [ok : {FALSE}, error : Errors]
    BY <1>1, <1>3 DEF Agent, DispatchIsApproved
  <2>2. res[a].error \in Errors
    BY <2>1
  <2>3. res[a].error \in Refusing => res[a] \in [ok : {FALSE}, error : Refusing]
    BY <2>1
  <2>4. Error(res[a].error) # None /\ Error(res[a].error).code = res[a].error
    BY <2>2, AnswersAreSome, LateCodes
  <2> QED
    BY <1>1, <1>3, <2>2, <2>3, <2>4, ReplyDoes, LateCodes
<1> QED
  BY <1>1, <1>2, <1>3

-----------------------------------------------------------------------------
(* The steps of the adapter                                                *)

\* A step of a caller's dispatch that sends nothing new.
LEMMA AdapterWorld ==
    ASSUME ToolTypes, World, NEW a \in Callers, Started(a), OthersStay(a),
           UNCHANGED <<moved, repoOf, deployments, attempts, req, config, gates, requests, mandates>>,
           IsUnsent(a)' => IsUnsent(a)
    PROVE  World' /\ Grows
<1>1. SurroundingsAgree'
  BY DEF World, SurroundingsAgree
<1>2. DigestsAreFresh'
  <2>1. \A b \in Callers : Started(b)' => Started(b)
    BY DEF OthersStay, Started
  <2>2. \A b \in Callers : IsUnsent(b)' => IsUnsent(b)
    BY DEF OthersStay, IsUnsent
  <2> QED
    BY <2>1, <2>2 DEF World, DigestsAreFresh
<1>3. \A d \in deployments' : \E m \in Mandates : Approved(m, d)'
  BY DEF World, Approved
<1>4. \A r \in requests' : Administered(r.tenant, r.intent)'
  BY DEF World, Administered
<1>5. Grows
  BY DEF Grows
<1> QED
  BY <1>1, <1>2, <1>3, <1>4, <1>5 DEF World

\* A dispatch goes on, returns an error, or returns a deployment that is there.
LEMMA DispatchGoesOn ==
    ASSUME ToolTypes, World, NEW a \in Callers, Agent(a), pc[a] # "idle",
           UNCHANGED <<toolVars, mandates, req, deployments>>,
           \/ pc'[a] \in {"token", "post"}
           \/ pc'[a] = "idle" /\ res'[a] \in [ok : {FALSE}, error : Errors]
           \/ /\ pc'[a] = "idle" /\ res'[a].ok
              /\ \E d \in deployments :
                    /\ d.id = res'[a].deployment_id
                    /\ d.attempt_digest = res'[a].attempt_digest
                    /\ d.commit_sha = req[a].commit_sha /\ d.environment = req[a].environment,
           pc'[a] # "idle" => res'[a] = res[a]
    PROVE  Agent(a)'
<1>1. at[a] = "dispatch" /\ UNCHANGED <<config, gates, mandates, call, at, answer, effects>>
  BY DEF Agent, DispatchIsApproved, toolVars
<1>2. CallIsChecked(a)' /\ RefusalIsOfTheAdapter(a)' /\ ToldOfNothing(a)'
  BY <1>1 DEF CallIsChecked, RefusalIsOfTheAdapter, ToldOfNothing
<1>3. DispatchIsApproved(a)'
  <2>1. /\ req[a].repository_id = Context.repository_id
        /\ \E m \in Mandates : Backs(m, req[a])'
    BY <1>1 DEF Agent, DispatchIsApproved, Backs
  <2>2. pc'[a] = "idle" /\ ~ res'[a].ok => res'[a] \in [ok : {FALSE}, error : Errors]
    OBVIOUS
  <2> QED
    BY <1>1, <2>1, <2>2 DEF DispatchIsApproved
<1>4. AnswerIsThere(a)'
  BY DEF AnswerIsThere
<1>5. Reported(a)'
  <2>1. CASE pc'[a] \in {"token", "post"}
    BY <2>1 DEF Agent, Reported
  <2>2. CASE res'[a] \in [ok : {FALSE}, error : Errors]
    BY <2>2 DEF Reported
  <2>3. CASE \E d \in deployments :
                    /\ d.id = res'[a].deployment_id
                    /\ d.attempt_digest = res'[a].attempt_digest
                    /\ d.commit_sha = req[a].commit_sha /\ d.environment = req[a].environment
    BY <2>3 DEF Reported
  <2> QED
    BY <2>1, <2>2, <2>3
<1> QED
  BY <1>2, <1>3, <1>4, <1>5 DEF Agent

\* What an adapter step may be, its messages and credentials apart.
LEMMA AdapterStepIs ==
    ASSUME ToolTypes, NEW a \in Callers, Agent(a), AdapterStep(a)
    PROVE  /\ pc[a] # "idle" /\ UNCHANGED <<moved, repoOf, attempts, req>>
           /\ ChangedAt(a, pc, pc') /\ ChangedAt(a, res, res') /\ ChangedAt(a, created, created')
           /\ \/ /\ UNCHANGED <<deployments, res>> /\ pc[a] \in {"secret", "token"}
                 /\ pc'[a] \in {"token", "post"}
              \/ /\ UNCHANGED deployments
                 /\ pc'[a] = "idle" /\ res'[a] \in [ok : {FALSE}, error : Errors]
                 /\ res'[a].error \in Refusing => pc[a] \in {"secret", "token"}
              \/ /\ pc[a] = "post" /\ pc'[a] = "answer" /\ UNCHANGED res
                 /\ deployments' = deployments \cup {Accepted(a)}
                 /\ created'[a] = Accepted(a).id
              \/ /\ UNCHANGED deployments /\ pc[a] = "answer" /\ pc'[a] = "idle"
                 /\ res'[a].ok /\ res'[a].deployment_id = created[a]
                 /\ res'[a].attempt_digest = req[a].attempt_digest
<1>0. /\ \A e \in Errors : Failed(e) \in [ok : {FALSE}, error : Errors] /\ Failed(e).error = e
      /\ {"SecretResolution", "ApiError"} \subseteq Errors /\ "ApiError" \notin Refusing
  BY DEF Failed, Errors, Refusing
<1>1. CASE ResolveAppSecret(a)
  <2>1. pc[a] = "secret" /\ UNCHANGED <<moved, repoOf, attempts, req, deployments, created>>
    BY <1>1 DEF ResolveAppSecret
  <2>2. \/ \E e \in {"SecretResolution", "ApiError"} : Return(a, Failed(e))
        \/ pc' = [pc EXCEPT ![a] = "token"] /\ UNCHANGED res
    BY <1>1 DEF ResolveAppSecret
  <2> QED
    BY <1>0, <2>1, <2>2 DEF Return, ChangedAt, ToolTypes
<1>2. CASE CreateInstallationToken(a)
  <2>1. pc[a] = "token" /\ UNCHANGED <<moved, repoOf, attempts, req, deployments, created>>
    BY <1>2 DEF CreateInstallationToken
  <2>2. \/ \E e \in {"SecretResolution", "ApiError"} : Return(a, Failed(e))
        \/ pc' = [pc EXCEPT ![a] = "post"] /\ UNCHANGED res
    BY <1>2 DEF CreateInstallationToken
  <2> QED
    BY <1>0, <2>1, <2>2 DEF Return, ChangedAt, ToolTypes
<1>3. CASE Post(a)
  <2>1. pc[a] = "post" /\ UNCHANGED <<moved, repoOf, attempts, req>>
    BY <1>3 DEF Post
  <2>2. CASE Return(a, Failed("ApiError")) /\ UNCHANGED <<deployments, created>>
    BY <1>0, <2>1, <2>2 DEF Return, ChangedAt, ToolTypes
  <2>3. CASE /\ deployments' = deployments \cup {Accepted(a)}
             /\ created' = [created EXCEPT ![a] = Accepted(a).id]
             /\ pc' = [pc EXCEPT ![a] = "answer"]
             /\ UNCHANGED res
    BY <2>1, <2>3 DEF ChangedAt, ToolTypes
  <2> QED
    BY <1>3, <2>2, <2>3 DEF Post
<1>4. CASE ReadAnswer(a)
  <2>1. /\ pc[a] = "answer" /\ UNCHANGED <<moved, repoOf, attempts, req, deployments>>
        /\ created' = [created EXCEPT ![a] = 0]
    BY <1>4 DEF ReadAnswer
  <2> DEFINE answered == [ok |-> TRUE, deployment_id |-> created[a],
                          attempt_digest |-> req[a].attempt_digest]
  <2>2. /\ answered.ok /\ answered.deployment_id = created[a]
        /\ answered.attempt_digest = req[a].attempt_digest
    OBVIOUS
  <2>3. Return(a, Failed("ApiError")) \/ Return(a, answered)
    BY <1>4 DEF ReadAnswer
  <2> HIDE DEF answered
  <2>4. CASE Return(a, Failed("ApiError"))
    BY <1>0, <2>1, <2>4 DEF Return, ChangedAt, ToolTypes
  <2>5. CASE Return(a, answered)
    BY <2>1, <2>2, <2>5 DEF Return, ChangedAt, ToolTypes
  <2> QED
    BY <2>3, <2>4, <2>5
<1> QED
  BY <1>1, <1>2, <1>3, <1>4 DEF AdapterStep

\* A deployment is made: of the mandate's intent, with a digest no other dispatch has.
LEMMA PostDoes ==
    ASSUME ToolTypes, World, NEW a \in Callers, Agent(a), OthersStay(a),
           UNCHANGED <<toolVars, mandates, moved, repoOf, attempts, req>>,
           pc[a] = "post", pc'[a] = "answer", UNCHANGED res,
           deployments' = deployments \cup {Accepted(a)}, created'[a] = Accepted(a).id
    PROVE  World' /\ Grows /\ Agent(a)'
<1>0. PICK d : d = Accepted(a)
  OBVIOUS
<1>1. /\ d.attempt_digest = req[a].attempt_digest /\ d.commit_sha = req[a].commit_sha
      /\ d.environment = req[a].environment /\ d.repository = repoOf[Context.repository_name]
  BY <1>0 DEF Accepted, DeploymentRequestBody
<1>2. UNCHANGED <<config, gates, requests, mandates, call, at, answer, effects>>
  BY DEF toolVars
<1>3. Grows
  BY <1>2 DEF Grows
<1>4. PICK m \in Mandates : Backs(m, req[a])
  BY DEF Agent, DispatchIsApproved
<1>5. at[a] = "dispatch" /\ req[a].repository_id = Context.repository_id
  BY DEF Agent, DispatchIsApproved
<1>6. Approved(m, d)'
  <2>1. /\ mandates'[m] # None /\ mandates'[m].attempt = d.attempt_digest
        /\ d.commit_sha = mandates'[m].intent.profile.commit_sha
        /\ d.environment = mandates'[m].intent.profile.environment_name
        /\ Context.repository_id = mandates'[m].intent.profile.repository_id
    BY <1>1, <1>2, <1>4, <1>5 DEF Backs
  <2>2. repoOf[Context.repository_name] = Context.repository_id \/ moved
    BY DEF World, SurroundingsAgree
  <2>3. d.repository = mandates'[m].intent.profile.repository_id \/ moved'
    BY <1>1, <2>1, <2>2
  <2> QED
    BY <2>1, <2>3 DEF Approved
<1>7. SurroundingsAgree'
  BY <1>2 DEF World, SurroundingsAgree
<1>8. DigestsAreFresh'
  <2>1. Started(a)
    BY DEF Started
  <2>2. \A b \in Callers : Started(b)' <=> Started(b)
    BY DEF OthersStay, Started
  <2>3. \A b \in Callers : IsUnsent(b)' => IsUnsent(b) /\ b # a
    BY DEF OthersStay, IsUnsent
  <2>4. \A b \in Callers : IsUnsent(b) => Started(b)
    <3>1. \A b \in Callers : res[b] \in [ok : {FALSE}, error : Refusing] => res[b] # None
      BY NoneAssumption DEF Refusing, Errors
    <3> QED
      BY <3>1 DEF IsUnsent, Started
  <2>5. \A x \in deployments' : x.attempt_digest \in 1..attempts
    BY <1>0, <1>1, <2>1 DEF World, DigestsAreFresh
  <2>6. ASSUME NEW b \in Callers, IsUnsent(b)', NEW x \in deployments'
        PROVE  x.attempt_digest # req[b].attempt_digest
    <3>1. IsUnsent(b) /\ b # a /\ Started(b)
      BY <2>3, <2>4, <2>6
    <3>2. CASE x \in deployments
      BY <3>1, <3>2 DEF World, DigestsAreFresh
    <3>3. CASE x = d
      BY <1>1, <2>1, <3>1, <3>3 DEF World, DigestsAreFresh
    <3> QED
      BY <1>0, <3>2, <3>3
  <2> QED
    BY <2>2, <2>5, <2>6 DEF World, DigestsAreFresh
<1>9. \A x \in deployments' : \E n \in Mandates : Approved(n, x)'
  <2>1. \A x \in deployments : \E n \in Mandates : Approved(n, x)'
    BY <1>2 DEF World, Approved
  <2> QED
    BY <1>0, <1>6, <2>1
<1>10. \A r \in requests' : Administered(r.tenant, r.intent)'
  BY <1>2 DEF World, Administered
<1>11. AnswerIsThere(a)'
  BY <1>0, <1>1 DEF AnswerIsThere
<1>12. DispatchIsApproved(a)'
  BY <1>2, <1>4, <1>5 DEF DispatchIsApproved, Backs
<1>13. CallIsChecked(a)' /\ RefusalIsOfTheAdapter(a)' /\ ToldOfNothing(a)'
  BY <1>2, <1>5 DEF CallIsChecked, RefusalIsOfTheAdapter, ToldOfNothing
<1>14. Reported(a)'
  BY <1>3 DEF Agent, Reported, Grows
<1> QED
  BY <1>3, <1>7, <1>8, <1>9, <1>10, <1>11, <1>12, <1>13, <1>14 DEF World, Agent

\* A step of the adapter.
LEMMA AdapterStepDoes ==
    ASSUME ToolTypes, World, NEW a \in Callers, Agent(a), AdapterStep(a), UNCHANGED toolVars
    PROVE  ToolTypes' /\ World' /\ Grows /\ OthersStay(a) /\ Agent(a)'
<1>1. /\ pc[a] # "idle" /\ UNCHANGED <<moved, repoOf, attempts, req>>
      /\ ChangedAt(a, pc, pc') /\ ChangedAt(a, res, res') /\ ChangedAt(a, created, created')
  BY AdapterStepIs
<1>2. UNCHANGED <<config, gates, requests, mandates, call, at, answer, effects>>
  BY DEF toolVars
<1>3. pc'[a] \in {"idle", "token", "post", "answer"}
  BY AdapterStepIs
<1>4. OthersStay(a)
  BY <1>1, <1>2 DEF OthersStay, ChangedAt
<1>5. ToolTypes'
  <2>1. pc' \in [Callers -> {"idle", "secret", "token", "post", "answer"}]
    <3>1. AdapterStep(a) => \E x \in {"idle", "token", "post", "answer"} : pc' = [pc EXCEPT ![a] = x]
      BY DEF AdapterStep, ResolveAppSecret, CreateInstallationToken, Post, ReadAnswer, Return
    <3> QED
      BY <3>1 DEF ToolTypes
  <2> QED
    BY <1>1, <1>2, <2>1 DEF ToolTypes, ChangedAt
<1>6. CASE /\ pc[a] = "post" /\ pc'[a] = "answer" /\ UNCHANGED res
           /\ deployments' = deployments \cup {Accepted(a)}
           /\ created'[a] = Accepted(a).id
  BY <1>1, <1>2, <1>4, <1>5, <1>6, PostDoes
<1>7. CASE /\ UNCHANGED deployments
           /\ \/ /\ UNCHANGED res /\ pc[a] \in {"secret", "token"}
                 /\ pc'[a] \in {"token", "post"}
              \/ /\ pc'[a] = "idle" /\ res'[a] \in [ok : {FALSE}, error : Errors]
                 /\ res'[a].error \in Refusing => pc[a] \in {"secret", "token"}
              \/ /\ pc[a] = "answer" /\ pc'[a] = "idle"
                 /\ res'[a].ok /\ res'[a].deployment_id = created[a]
                 /\ res'[a].attempt_digest = req[a].attempt_digest
  <2>1. IsUnsent(a)' => IsUnsent(a)
    BY <1>7 DEF IsUnsent
  <2>2. Started(a)
    BY <1>1 DEF Started
  <2>3. World' /\ Grows
    BY <1>1, <1>2, <1>4, <1>7, <2>1, <2>2, AdapterWorld
  <2>4. pc[a] = "answer" => \E d \in deployments :
            /\ d.id = created[a] /\ d.attempt_digest = req[a].attempt_digest
            /\ d.commit_sha = req[a].commit_sha /\ d.environment = req[a].environment
    BY DEF Agent, AnswerIsThere
  <2>5. /\ \/ pc'[a] \in {"token", "post"}
           \/ pc'[a] = "idle" /\ res'[a] \in [ok : {FALSE}, error : Errors]
           \/ /\ pc'[a] = "idle" /\ res'[a].ok
              /\ \E d \in deployments :
                    /\ d.id = res'[a].deployment_id
                    /\ d.attempt_digest = res'[a].attempt_digest
                    /\ d.commit_sha = req[a].commit_sha /\ d.environment = req[a].environment
        /\ pc'[a] # "idle" => res'[a] = res[a]
    BY <1>7, <2>4
  <2>6. Agent(a)'
    BY <1>1, <1>2, <1>7, <2>5, DispatchGoesOn
  <2> QED
    BY <1>4, <1>5, <2>3, <2>6
<1> QED
  BY <1>6, <1>7, AdapterStepIs

-----------------------------------------------------------------------------
(* The spending of a mandate                                               *)

\* A mandate is spent on an attempt and what the agent's arguments say is dispatched.
LEMMA SpendDoes ==
    ASSUME ToolTypes, World, NEW a \in Callers, Agent(a), at[a] = "backend",
           call[a].tool = "piteka_execute_approved_deployment", MandateAllows(a),
           mandates' = [mandates EXCEPT ![call[a].mandate].attempt = attempts + 1],
           NEW r, CreateDeployment(a, r), r.attempt_digest = attempts + 1,
           r.repository_id = call[a].target.repository_id,
           r.commit_sha = call[a].target.commit_sha,
           r.environment = call[a].intent.profile.environment_name,
           effects' = [effects EXCEPT ![a] = @ \cup {"spent"}],
           at' = [at EXCEPT ![a] = "dispatch"],
           UNCHANGED <<call, answer, config, gates, requests>>
    PROVE  ToolTypes' /\ World' /\ Grows /\ OthersStay(a) /\ Agent(a)'
<1>1. PICK m : m = call[a].mandate
  OBVIOUS
<1>2. /\ m \in Mandates /\ mandates[m] \in Issued /\ mandates[m].intent = call[a].intent
      /\ mandates[m].attempt = 0
      /\ mandates[m].intent.profile.commit_sha = r.commit_sha
      /\ mandates[m].intent.profile.repository_id = r.repository_id
  BY <1>1 DEF Agent, CallIsChecked, MandateAllows, ToolTypes
<1>3. PICK spent \in Issued :
         /\ spent.intent = mandates[m].intent /\ spent.attempt = attempts + 1
         /\ mandates' = [mandates EXCEPT ![m] = spent]
  <2> DEFINE x == [mandates[m] EXCEPT !.attempt = attempts + 1]
  <2>1. x \in Issued /\ x.intent = mandates[m].intent /\ x.attempt = attempts + 1
    BY <1>2 DEF Issued, ToolTypes
  <2>2. mandates' = [mandates EXCEPT ![m] = x]
    BY <1>1
  <2> HIDE DEF x
  <2> QED
    BY <2>1, <2>2
<1>4. /\ mandates'[m] = spent /\ spent # None
      /\ \A n \in Mandates : n # m => mandates'[n] = mandates[n]
  BY <1>2, <1>3, NoneAssumption DEF ToolTypes
<1>5. /\ pc[a] = "idle" /\ attempts' = attempts + 1 /\ req' = [req EXCEPT ![a] = r]
      /\ UNCHANGED <<moved, repoOf, deployments, created>>
      /\ \/ /\ pc' = [pc EXCEPT ![a] = "idle"]
            /\ ~ Passes(Refusals(r))
            /\ res' = [res EXCEPT ![a] = Failed(FirstError(Refusals(r)))]
         \/ /\ pc' = [pc EXCEPT ![a] = "secret"]
            /\ Passes(Refusals(r))
            /\ res' = [res EXCEPT ![a] = None]
  BY DEF CreateDeployment, Return
<1>6. PICK stage \in {"idle", "secret"} :
         /\ pc' = [pc EXCEPT ![a] = stage] /\ ChangedAt(a, res, res')
         /\ stage = "idle" => res'[a] \in [ok : {FALSE}, error : Errors]
         /\ stage = "secret" => res'[a] = None /\ r.repository_id = Context.repository_id
  <2>1. CASE ~ Passes(Refusals(r)) /\ pc' = [pc EXCEPT ![a] = "idle"]
             /\ res' = [res EXCEPT ![a] = Failed(FirstError(Refusals(r)))]
    <3>1. Failed(FirstError(Refusals(r))) \in [ok : {FALSE}, error : Errors]
      BY <2>1, RefusalErrors DEF Failed
    <3> QED
      BY <2>1, <3>1 DEF ToolTypes, ChangedAt
  <2>2. CASE Passes(Refusals(r)) /\ pc' = [pc EXCEPT ![a] = "secret"]
             /\ res' = [res EXCEPT ![a] = None]
    BY <2>2, PassedIsOfTheContext DEF ToolTypes, ChangedAt
  <2> QED
    BY <1>5, <2>1, <2>2
<1>7. pc'[a] = stage /\ req'[a] = r /\ at'[a] = "dispatch" /\ attempts \in Nat
  BY <1>5, <1>6 DEF ToolTypes
<1>8. ToolTypes'
  <2>1. mandates' \in [Mandates -> Issued \cup {None}]
    BY <1>3 DEF ToolTypes
  <2>2. pc' \in [Callers -> {"idle", "secret", "token", "post", "answer"}]
    BY <1>6 DEF ToolTypes
  <2>3. at' \in [Callers -> {"idle", "object", "intent", "backend", "dispatch", "bound"}]
    BY DEF ToolTypes
  <2>4. attempts' \in Nat /\ moved' \in BOOLEAN /\ DOMAIN repoOf' = Names
    BY <1>5 DEF ToolTypes
  <2>5. /\ DOMAIN req' = Callers /\ DOMAIN res' = Callers /\ DOMAIN created' = Callers
        /\ DOMAIN call' = Callers /\ DOMAIN answer' = Callers /\ DOMAIN effects' = Callers
    BY <1>5, <1>6 DEF ToolTypes, ChangedAt
  <2>6. /\ config' \in [Tenants -> Configs] /\ DOMAIN gates' = Tenants
        /\ requests' \subseteq [tenant : Tenants, intent : Intents]
    BY DEF ToolTypes
  <2> QED
    BY <2>1, <2>2, <2>3, <2>4, <2>5, <2>6 DEF ToolTypes
<1>9. OthersStay(a)
  BY <1>5, <1>6 DEF OthersStay, ToolTypes, ChangedAt
<1>10. Grows
  BY <1>2, <1>4, <1>5 DEF Grows
<1>11. SurroundingsAgree'
  BY <1>5 DEF World, SurroundingsAgree
<1>12. DigestsAreFresh'
  <2>1. \A d \in deployments' : d.attempt_digest \in 1..attempts
    BY <1>5 DEF World, DigestsAreFresh
  <2>2. \A b \in Callers : b # a /\ Started(b)' => Started(b)
    BY <1>9 DEF OthersStay, Started
  <2>3. \A b \in Callers : b # a /\ Started(b)' =>
            req'[b].attempt_digest \in 1..attempts
    BY <1>9, <2>2 DEF OthersStay, World, DigestsAreFresh
  <2>4. \A b, c \in Callers : b # a /\ c # a /\ b # c /\ Started(b)' /\ Started(c)' =>
            req'[b].attempt_digest # req'[c].attempt_digest
    BY <1>9, <2>2 DEF OthersStay, World, DigestsAreFresh
  <2>5. req'[a].attempt_digest = attempts + 1 /\ req'[a].attempt_digest \in 1..attempts'
        /\ \A i \in 1..attempts : i # req'[a].attempt_digest /\ i \in 1..attempts'
    BY <1>5, <1>7
  <2>6. \A b \in Callers : b # a /\ IsUnsent(b)' => IsUnsent(b)
    BY <1>9 DEF OthersStay, IsUnsent
  <2>7. \A b \in Callers : b # a /\ IsUnsent(b)' =>
            \A d \in deployments' : d.attempt_digest # req'[b].attempt_digest
    BY <1>5, <1>9, <2>6 DEF OthersStay, World, DigestsAreFresh
  <2>8. \A d \in deployments' : d.attempt_digest # req'[a].attempt_digest
    BY <2>1, <2>5
  <2>9. \A b \in Callers : IsUnsent(b)' =>
            \A d \in deployments' : d.attempt_digest # req'[b].attempt_digest
    BY <2>7, <2>8
  <2>10. \A b, c \in Callers : b # c /\ Started(b)' /\ Started(c)' =>
            req'[b].attempt_digest # req'[c].attempt_digest
    BY <2>3, <2>4, <2>5
  <2>11. \A b \in Callers : Started(b)' => req'[b].attempt_digest \in 1..attempts'
    BY <2>3, <2>5
  <2>12. \A d \in deployments' : d.attempt_digest \in 1..attempts'
    BY <2>1, <2>5
  <2> QED
    BY <2>9, <2>10, <2>11, <2>12 DEF DigestsAreFresh
<1>13. \A d \in deployments' : \E n \in Mandates : Approved(n, d)'
  <2>1. SUFFICES ASSUME NEW d \in deployments PROVE \E n \in Mandates : Approved(n, d)'
    BY <1>5
  <2>2. PICK n \in Mandates : Approved(n, d)
    BY DEF World
  <2>3. d.attempt_digest # 0
    BY <1>7 DEF World, DigestsAreFresh
  <2>4. mandates'[n] = mandates[n]
    BY <2>2, <2>3, <1>10 DEF Approved, Grows
  <2> QED
    BY <2>2, <2>4, <1>5 DEF Approved
<1>14. \A q \in requests' : Administered(q.tenant, q.intent)'
  BY DEF World, Administered
<1>15. Backs(m, req[a])'
  BY <1>2, <1>3, <1>4, <1>7 DEF Backs
<1>16. DispatchIsApproved(a)'
  BY <1>2, <1>6, <1>7, <1>15 DEF DispatchIsApproved
<1>17. CallIsChecked(a)' /\ RefusalIsOfTheAdapter(a)' /\ ToldOfNothing(a)'
  BY <1>7 DEF CallIsChecked, RefusalIsOfTheAdapter, ToldOfNothing
<1>18. AnswerIsThere(a)'
  BY <1>6, <1>7 DEF AnswerIsThere
<1>19. Reported(a)'
  BY <1>6, <1>7 DEF Reported
<1> QED
  BY <1>8, <1>9, <1>10, <1>11, <1>12, <1>13, <1>14, <1>16, <1>17, <1>18, <1>19 DEF World, Agent

\* The backend executes an approved deployment, or fails.
LEMMA BackendExecuteDoes ==
    ASSUME ToolTypes, World, NEW a \in Callers, Agent(a), BackendExecute(a)
    PROVE  ToolTypes' /\ World' /\ Grows /\ OthersStay(a) /\ Agent(a)'
<1> DEFINE r == [installation_id |-> Context.installation_id,
                 repository_id |-> call[a].target.repository_id,
                 commit_sha |-> call[a].target.commit_sha,
                 environment |-> call[a].intent.profile.environment_name,
                 auto_merge |-> FALSE, payload_commitment |-> TRUE,
                 attempt_digest |-> attempts + 1]
<1>1. /\ at[a] = "backend" /\ call[a].tool = "piteka_execute_approved_deployment"
      /\ UNCHANGED <<config, gates, requests>>
      /\ \/ /\ MandateAllows(a)
            /\ mandates' = [mandates EXCEPT ![call[a].mandate].attempt = attempts + 1]
            /\ CreateDeployment(a, r)
            /\ effects' = [effects EXCEPT ![a] = @ \cup {"spent"}]
            /\ at' = [at EXCEPT ![a] = "dispatch"]
            /\ UNCHANGED <<call, answer>>
         \/ /\ Reply(a, Error("BACKEND_ERROR"))
            /\ UNCHANGED <<mandates, effects, adapterVars>>
  BY DEF BackendExecute
<1>2. pc[a] = "idle"
  BY <1>1 DEF Agent, DispatchIsApproved
<1>3. CASE Reply(a, Error("BACKEND_ERROR")) /\ UNCHANGED <<mandates, effects, adapterVars>>
  BY <1>1, <1>2, <1>3, ReplyDoes, AnswersAreSome, LateCodes
<1>4. /\ r.attempt_digest = attempts + 1
      /\ r.repository_id = call[a].target.repository_id
      /\ r.commit_sha = call[a].target.commit_sha
      /\ r.environment = call[a].intent.profile.environment_name
  OBVIOUS
<1> HIDE DEF r
<1>5. CASE /\ MandateAllows(a)
           /\ mandates' = [mandates EXCEPT ![call[a].mandate].attempt = attempts + 1]
           /\ CreateDeployment(a, r)
           /\ effects' = [effects EXCEPT ![a] = @ \cup {"spent"}]
           /\ at' = [at EXCEPT ![a] = "dispatch"]
           /\ UNCHANGED <<call, answer>>
  BY <1>1, <1>4, <1>5, SpendDoes
<1> QED
  BY <1>1, <1>3, <1>5

-----------------------------------------------------------------------------
(* People and surroundings                                                 *)

\* A step that leaves every agent's part and the deployments alone.
LEMMA AroundDoes ==
    ASSUME ToolTypes, World, \A b \in Callers : Agent(b), ToolTypes', Grows, SurroundingsAgree',
           UNCHANGED <<deployments, attempts, pc, req, res, created, call, at, answer, effects, requests>>,
           moved => moved'
    PROVE  World' /\ \A b \in Callers : Agent(b)'
<1>1. DigestsAreFresh'
  BY DEF World, DigestsAreFresh, Started, IsUnsent
<1>2. \A d \in deployments' : \E n \in Mandates : Approved(n, d)'
  <2>1. SUFFICES ASSUME NEW d \in deployments PROVE \E n \in Mandates : Approved(n, d)'
    OBVIOUS
  <2>2. PICK n \in Mandates : Approved(n, d)
    BY DEF World
  <2>3. d.attempt_digest # 0
    BY DEF World, DigestsAreFresh, ToolTypes
  <2>4. mandates'[n] = mandates[n]
    BY <2>2, <2>3 DEF Approved, Grows
  <2> QED
    BY <2>2, <2>4 DEF Approved
<1>3. \A q \in requests' : Administered(q.tenant, q.intent)'
  BY DEF World, Administered, Grows, ToolTypes
<1>4. \A b \in Callers : Agent(b)'
  BY AgentStays DEF World
<1> QED
  BY <1>1, <1>2, <1>3, <1>4 DEF World

\* A person approves a request.
LEMMA ApproveDoes ==
    ASSUME ToolTypes, World, \A b \in Callers : Agent(b), Approve
    PROVE  ToolTypes' /\ World' /\ \A b \in Callers : Agent(b)'
<1>1. PICK m \in Mandates, r \in requests :
         /\ mandates[m] = None
         /\ mandates' = [mandates EXCEPT ![m] =
               [tenant |-> r.tenant, intent |-> r.intent, attempt |-> 0]]
  BY DEF Approve
<1>2. UNCHANGED <<adapterVars, config, gates, requests, call, at, answer, effects>>
  BY DEF Approve
<1>3. [tenant |-> r.tenant, intent |-> r.intent, attempt |-> 0] \in Issued
  BY DEF ToolTypes, Issued
<1>4. ToolTypes'
  BY <1>1, <1>2, <1>3 DEF ToolTypes, adapterVars
<1>5. Grows
  BY <1>1, <1>2 DEF Grows, ToolTypes, adapterVars
<1>6. SurroundingsAgree'
  BY <1>2 DEF World, SurroundingsAgree, adapterVars
<1> QED
  BY <1>2, <1>4, <1>5, <1>6, AroundDoes DEF adapterVars

\* The administrators change a configuration.
LEMMA ReconfigureDoes ==
    ASSUME ToolTypes, World, \A b \in Callers : Agent(b), Reconfigure
    PROVE  ToolTypes' /\ World' /\ \A b \in Callers : Agent(b)'
<1>1. PICK t \in Tenants, new \in Configs :
         /\ config' = [config EXCEPT ![t] = new]
         /\ gates' = [gates EXCEPT ![t] = @ \cup {new.deployment_gate_policy_digest}]
  BY DEF Reconfigure
<1>2. UNCHANGED <<adapterVars, requests, mandates, call, at, answer, effects>>
  BY DEF Reconfigure
<1>3. ToolTypes'
  BY <1>1, <1>2 DEF ToolTypes, adapterVars
<1>4. Grows
  BY <1>1, <1>2 DEF Grows, ToolTypes, adapterVars
<1>5. SurroundingsAgree'
  BY <1>1, <1>2 DEF World, SurroundingsAgree, ToolTypes, adapterVars
<1> QED
  BY <1>2, <1>3, <1>4, <1>5, AroundDoes DEF adapterVars

\* A key is rotated or stored, or a repository is renamed.
LEMMA ChangeDoes ==
    ASSUME ToolTypes, World, \A b \in Callers : Agent(b), Change
    PROVE  ToolTypes' /\ World' /\ \A b \in Callers : Agent(b)'
<1>1. /\ Surroundings
      /\ UNCHANGED <<config, gates, requests, mandates, call, at, answer, effects>>
  BY DEF Change
<1>2. UNCHANGED <<deployments, attempts, pc, req, res, created>>
  BY <1>1 DEF Surroundings, RotateKey, StoreSecret, RenameRepository
<1>3. /\ moved' \in BOOLEAN /\ DOMAIN repoOf' = Names /\ (moved => moved')
      /\ moved' \/ repoOf'[Context.repository_name] = Context.repository_id
  <2>1. CASE UNCHANGED <<moved, repoOf>>
    BY <2>1 DEF World, SurroundingsAgree, ToolTypes
  <2>2. CASE RenameRepository
    <3>1. PICK n \in Names, repository \in RepositoryIds \cup {None} :
             /\ repoOf' = [repoOf EXCEPT ![n] = repository]
             /\ moved' = (moved \/ n = Context.repository_name)
      BY <2>2 DEF RenameRepository
    <3>2. CASE n = Context.repository_name
      BY <3>1, <3>2 DEF ToolTypes
    <3>3. CASE n # Context.repository_name
      BY <3>1, <3>3 DEF ToolTypes, World, SurroundingsAgree
    <3> QED
      BY <3>2, <3>3
  <2> QED
    BY <1>1, <2>1, <2>2 DEF Surroundings, RotateKey, StoreSecret
<1>4. ToolTypes'
  BY <1>1, <1>2, <1>3 DEF ToolTypes
<1>5. Grows
  BY <1>1, <1>2 DEF Grows
<1>6. SurroundingsAgree'
  BY <1>1, <1>3 DEF World, SurroundingsAgree
<1> QED
  BY <1>1, <1>2, <1>3, <1>4, <1>5, <1>6, AroundDoes

-----------------------------------------------------------------------------
(* The theorems                                                            *)

\* What holds to begin with: mandates issued before are not spent.
LEMMA ToolsInit == Init => ToolTypes /\ InParts
<1> SUFFICES ASSUME Init PROVE ToolTypes /\ InParts
  OBVIOUS
<1>1. AdapterInit
  BY DEF Init
<1>2. PICK c \in Configs : config = [t \in Tenants |-> c]
  BY DEF Init
<1>3. mandates \in [Mandates -> Issued \cup {None}]
  <2>1. ASSUME NEW m \in Mandates PROVE IssuedEarlier(m) \in Issued \cup {None}
    <3> DEFINE t == Earlier[m].tenant
               g == Earlier[m].target
    <3>1. t \in Tenants /\ g \in Targets /\ config[t] \in Configs
      BY <1>2, AgentToolsAssumption
    <3> HIDE DEF t, g
    <3>2. ASSUME RecomputeIntent(t, g).ok PROVE RecomputeIntent(t, g).intent \in Intents
      <4>1. RecomputeIntent(t, g).intent
                = BuildGithubActionIntent(Profile(Completed(config[t], g)), t, 0, 0, <<>>)
        BY <3>2, RecomputedIntent DEF Input
      <4> QED
        BY <3>1, <4>1 DEF Intents
    <3> QED
      BY <3>1, <3>2 DEF IssuedEarlier, Issued, t, g
  <2>2. CASE mandates = [m \in Mandates |-> None]
    BY <2>2
  <2>3. CASE mandates = [m \in Mandates |-> IssuedEarlier(m)]
    BY <2>1, <2>3
  <2> QED
    BY <2>2, <2>3 DEF Init
<1>4. ToolTypes
  <2>1. /\ attempts \in Nat /\ moved \in BOOLEAN /\ DOMAIN repoOf = Names
        /\ pc \in [Callers -> {"idle", "secret", "token", "post", "answer"}]
        /\ DOMAIN req = Callers /\ DOMAIN res = Callers /\ DOMAIN created = Callers
    BY <1>1 DEF AdapterInit
  <2>2. /\ at \in [Callers -> {"idle", "object", "intent", "backend", "dispatch", "bound"}]
        /\ DOMAIN call = Callers /\ DOMAIN answer = Callers /\ DOMAIN effects = Callers
        /\ DOMAIN gates = Tenants /\ requests \subseteq [tenant : Tenants, intent : Intents]
    BY DEF Init
  <2>3. config \in [Tenants -> Configs]
    BY <1>2
  <2> QED
    BY <1>3, <2>1, <2>2, <2>3 DEF ToolTypes
<1>5. SurroundingsAgree
  BY <1>1, <1>2, AdapterAssumption DEF Init, AdapterInit, SurroundingsAgree
<1>6. \A a \in Callers : /\ pc[a] = "idle" /\ res[a] = None /\ at[a] = "idle"
                         /\ answer[a] = None /\ effects[a] = {}
  BY <1>1 DEF Init, AdapterInit
<1>7. deployments = {} /\ requests = {}
  BY <1>1 DEF Init, AdapterInit
<1>8. World
  <2>1. \A a \in Callers : ~ Started(a)
    BY <1>6 DEF Started
  <2> QED
    BY <1>5, <1>7, <2>1 DEF World, DigestsAreFresh
<1>9. \A a \in Callers : Agent(a)
  BY <1>6 DEF Agent, CallIsChecked, DispatchIsApproved, AnswerIsThere, RefusalIsOfTheAdapter,
              ToldOfNothing, Reported
<1> QED
  BY <1>4, <1>8, <1>9 DEF InParts

\* What every step keeps.
LEMMA ToolsStep == ToolTypes /\ InParts /\ [Next]_vars => ToolTypes' /\ InParts'
<1> SUFFICES ASSUME ToolTypes, World, \A b \in Callers : Agent(b), [Next]_vars
             PROVE  ToolTypes' /\ World' /\ \A b \in Callers : Agent(b)'
  BY DEF InParts
<1>1. ASSUME NEW a \in Callers,
             \/ Handle(a) \/ ValidateIntent(a) \/ BoundResponse(a)
             \/ BackendObject(a) \/ BackendRequest(a) \/ BackendExecute(a) \/ Dispatched(a)
             \/ AdapterStep(a) /\ UNCHANGED toolVars
      PROVE  ToolTypes' /\ World' /\ \A b \in Callers : Agent(b)'
  <2>1. ToolTypes' /\ World' /\ Grows /\ OthersStay(a) /\ Agent(a)'
    BY <1>1, HandleDoes, ValidateIntentDoes, BoundResponseDoes, BackendObjectDoes,
       BackendRequestDoes, BackendExecuteDoes, DispatchedDoes, AdapterStepDoes
  <2> QED
    BY <2>1, AgentMoves
<1>2. CASE UNCHANGED vars
  <2>1. UNCHANGED <<adapterVars, config, gates, requests, mandates, call, at, answer, effects>>
    BY <1>2 DEF vars, toolVars
  <2>2. ToolTypes'
    BY <2>1 DEF ToolTypes, adapterVars
  <2>3. World' /\ Grows
    BY <2>1, ToolWorld DEF World, ToolTypes
  <2>4. \A b \in Callers : Agent(b)'
    BY <2>1, <2>3, AgentStays DEF World, adapterVars
  <2> QED
    BY <2>2, <2>3, <2>4
<1> QED
  BY <1>1, <1>2, ApproveDoes, ReconfigureDoes, ChangeDoes DEF Next

\* The inductive invariant of the tools and the adapter holds throughout.
THEOREM ToolsInvariant == Spec => [](ToolTypes /\ ToolsInv)
  BY ToolsInit, ToolsStep, Parts, PTL DEF Spec

\* Nothing reaches the provider without a mandate that was spent on it, and what reaches it
\* is of the commit, environment and repository a person approved, although validate_intent
\* and create_deployment read the configuration and the arguments at different times.
THEOREM DeploymentsAreApproved == Spec => []DeployedWasApproved
<1>1. ToolsInv => DeployedWasApproved
  BY DEF ToolsInv
<1> QED
  BY <1>1, ToolsInvariant, PTL

\* An early error, a dropped message and a refusal of the adapter are about nothing done.
THEOREM RefusalsDidNothing == Spec => []RefusedDidNothing
<1>1. ToolsInv => RefusedDidNothing
  BY DEF ToolsInv
<1> QED
  BY <1>1, ToolsInvariant, PTL

\* What create_deployment reports is at the provider, and is this caller's.
THEOREM ReportsAreTrue == Spec => []CreatedIsThere
<1>1. ToolsInv => CreatedIsThere
  BY DEF ToolsInv
<1> QED
  BY <1>1, ToolsInvariant, PTL

\* A request is gated by contexts whose digest an administrator of its tenant has set.
THEOREM GatesAreAdministered == Spec => []GateIsAdministered
<1>1. ToolsInv => GateIsAdministered
  BY DEF ToolsInv
<1> QED
  BY <1>1, ToolsInvariant, PTL

===========================================================================
