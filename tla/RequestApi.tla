---------------------------- MODULE RequestApi ----------------------------
(***************************************************************************)
(* The action-request endpoints of piteka-api: the routes, their handlers  *)
(* and the answers they give, over the use case of ActionRequests.  A      *)
(* client that has lost an answer, or waited too long for it, posts the    *)
(* same body with the same Idempotency-Key again, also while the first     *)
(* post is still being handled.  No handler looks at the key.              *)
(***************************************************************************)
EXTENDS ActionRequests

CONSTANTS
    Keys,       \* Idempotency-Keys, one per thing a client wants done
    MaxPosts,   \* bound: how often a client posts under one key
    NoBody,     \* a key no client has used yet
    NoKey       \* the key of an idle handler

ASSUME ApiAssumption == MaxPosts \in Nat

VARIABLES
    body,      \* what the client posts under each key
    posts,     \* how often it has
    serving,   \* the key each handler serves
    stage,     \* what the handler does around the use case
    shown,     \* the status it has read for its answer
    changed,   \* history: whether this call has changed the request
    effects,   \* history: the calls under a key that changed a request
    answers    \* history: the answers given

apiVars == <<body, posts, serving, stage, shown, changed, effects, answers>>

allVars == <<vars, apiVars>>

\* A body with an empty user, a proposal, a read, or one of the use case's jobs.
Bodies ==
    [kind : {"unnamed"}]
    \cup [kind : {"propose"}, intent : IntentOrNone]
    \cup [kind : {"get"}, request : Requests]
    \cup {j \in Jobs : j.kind # "propose"}

ASSUME BodyAssumption == NoBody \notin Bodies

Errors == {"EmptyUser", "NotFound", "InvalidTransition", "Conflict", "Exists", "Storage"}

Codes == {200, 201, 400, 404, 409, 500}

Answers ==
    [key : Keys, code : Codes, status : {"none", "pending", "approved", "rejected", "revoked"},
     decisions : SUBSET Decisions, changed : BOOLEAN]

ApiTypeOK ==
    /\ TypeOK
    /\ body \in [Keys -> Bodies \cup {NoBody}]
    /\ posts \in [Keys -> 0..MaxPosts]
    /\ serving \in [Callers -> Keys \cup {NoKey}]
    /\ stage \in [Callers -> {"idle", "useCase", "refresh", "decisions"}]
    /\ shown \in [Callers -> {"none", "pending", "approved", "rejected", "revoked"}]
    /\ changed \in [Callers -> BOOLEAN]
    /\ effects \in [Keys -> 0..MaxPosts]
    /\ answers \subseteq Answers

ApiInit ==
    /\ Init
    /\ body = [k \in Keys |-> NoBody]
    /\ posts = [k \in Keys |-> 0]
    /\ serving = [c \in Callers |-> NoKey]
    /\ stage = [c \in Callers |-> "idle"]
    /\ shown = [c \in Callers |-> "none"]
    /\ changed = [c \in Callers |-> FALSE]
    /\ effects = [k \in Keys |-> 0]
    /\ answers = {}

-----------------------------------------------------------------------------

\* Mutant: a store that fails is answered like a field it found empty.
StatusCode_BadRequest(error) ==
    CASE error \in {"EmptyUser", "Storage"} -> 400
      [] error = "NotFound" -> 404
      [] error \in {"InvalidTransition", "Conflict"} -> 409
      [] OTHER -> 500

\* ApiError::from and its into_response.  A row that exists is a storage error.
StatusCode(error) ==
    CASE error = "EmptyUser" -> 400
      [] error = "NotFound" -> 404
      [] error \in {"InvalidTransition", "Conflict"} -> 409
      [] OTHER -> 500

Answer(c, k, code, shows, decided, did) ==
    /\ answers' = answers \cup {[key |-> k, code |-> code, status |-> shows,
                                 decisions |-> decided, changed |-> did]}
    /\ effects' = [effects EXCEPT ![k] = IF did THEN @ + 1 ELSE @]
    /\ serving' = [serving EXCEPT ![c] = NoKey]
    /\ stage' = [stage EXCEPT ![c] = "idle"]
    /\ shown' = [shown EXCEPT ![c] = "none"]
    /\ changed' = [changed EXCEPT ![c] = FALSE]

Refuse(c, k, error, did) == Answer(c, k, StatusCode(error), "none", {}, did)

Continue(c, k, next, shows, did) ==
    /\ serving' = [serving EXCEPT ![c] = k]
    /\ stage' = [stage EXCEPT ![c] = next]
    /\ shown' = [shown EXCEPT ![c] = shows]
    /\ changed' = [changed EXCEPT ![c] = did]
    /\ UNCHANGED <<effects, answers>>

\* A client posts, or posts again what it posted under this key.
Post(k, b) ==
    /\ posts[k] < MaxPosts
    /\ body[k] \in {NoBody, b}
    /\ body' = [body EXCEPT ![k] = b]
    /\ posts' = [posts EXCEPT ![k] = @ + 1]

-----------------------------------------------------------------------------
(* The handlers.  Each begins with the checks of the body and the first    *)
(* step of its use case.                                                   *)

\* An empty user; for a read or a decision also a request that is not there or has
\* another status.
PostRefused(c, k, b) ==
    /\ \/ b.kind = "unnamed" /\ Refuse(c, k, "EmptyUser", FALSE)
       \/ /\ b.kind \in {"get", "approve", "reject", "revoke"}
          /\ status[b.request] = "absent"
          /\ Refuse(c, k, "NotFound", FALSE)
       \/ /\ b.kind \in {"approve", "reject", "revoke"}
          /\ status[b.request] \notin Required(b.kind) \cup {"absent"}
          /\ Refuse(c, k, "InvalidTransition", FALSE)
    /\ UNCHANGED vars

ProposeActionRequest(c, k, b) ==
    /\ b.kind = "propose"
    /\ Propose(c)
    /\ intent'[job'[c].request] = b.intent
    /\ Continue(c, k, "useCase", "none", TRUE)

\* approve, reject and revoke
DecideActionRequest(c, k, b) ==
    /\ b.kind \in {"approve", "reject", "revoke"}
    /\ CheckStatus(c)
    /\ job'[c] = b
    /\ Continue(c, k, "useCase", "none", FALSE)

GetActionRequest(c, k, b) ==
    /\ b.kind = "get"
    /\ status[b.request] # "absent"
    /\ Continue(c, k, "decisions", status[b.request], FALSE)
    /\ UNCHANGED vars

Handle(c) ==
    /\ stage[c] = "idle"
    /\ \E k \in Keys, b \in Bodies :
          /\ Post(k, b)
          /\ \/ PostRefused(c, k, b)
             \/ ProposeActionRequest(c, k, b)
             \/ DecideActionRequest(c, k, b)
             \/ GetActionRequest(c, k, b)

-----------------------------------------------------------------------------
(* The rest of the use case and of the answer *)

\* The swap was applied, or another one came first.
HandleSwap(c) ==
    /\ SwapStatus(c)
    /\ \/ pc'[c] # "idle" /\ Continue(c, serving[c], "useCase", "none", TRUE)
       \/ pc'[c] = "idle" /\ Refuse(c, serving[c], "Conflict", FALSE)
    /\ UNCHANGED <<body, posts>>

\* A decision that is there already is an error after the swap.
HandleDecision(c) ==
    /\ InsertDecision(c)
    /\ \/ pc'[c] # "idle" /\ UNCHANGED <<serving, stage, shown, changed, effects, answers>>
       \/ pc'[c] = "idle" /\ Refuse(c, serving[c], "Exists", changed[c])
    /\ UNCHANGED <<body, posts>>

\* A proposal is answered; the others read the request again.
HandleAudit(c) ==
    /\ Audit(c)
    /\ \/ /\ job[c].kind = "propose"
          /\ Answer(c, serving[c], 201, "pending", {}, TRUE)
       \/ /\ job[c].kind # "propose"
          /\ Continue(c, serving[c], "refresh", "none", changed[c])
    /\ UNCHANGED <<body, posts>>

Refresh(c) ==
    /\ stage[c] = "refresh"
    /\ Continue(c, serving[c], "decisions", status[body[serving[c]].request], changed[c])
    /\ UNCHANGED <<vars, body, posts>>

\* get_decisions, and the answer
ReadDecisions(c) ==
    /\ stage[c] = "decisions"
    /\ Answer(c, serving[c], 200, shown[c],
              {decision[body[serving[c]].request]} \ {NoDecision}, changed[c])
    /\ UNCHANGED <<vars, body, posts>>

\* A store fails under the use case, or under one of the reads that follow it.
HandleFails(c) ==
    /\ MayFail
    /\ \/ stage[c] = "useCase" /\ Fails(c)
       \/ stage[c] \in {"refresh", "decisions"} /\ UNCHANGED vars
    /\ Refuse(c, serving[c], "Storage", changed[c])
    /\ UNCHANGED <<body, posts>>

ApiNext ==
    \E c \in Callers :
        \/ Handle(c) \/ HandleSwap(c) \/ HandleDecision(c) \/ HandleAudit(c)
        \/ Refresh(c) \/ ReadDecisions(c) \/ HandleFails(c)

ApiSpec == ApiInit /\ [][ApiNext]_allVars

-----------------------------------------------------------------------------
(* Properties *)

Decides(a) == body[a.key].kind \in {"approve", "reject"}

\* Whoever is told that it approved or rejected a request did: the decision on record is
\* its own, the answer shows that decision, the audit has it, and nobody else is told so,
\* whatever is revoked, read or posted again meanwhile (approve, reject, get_decisions).
ToldIsOnRecord ==
    \A a \in answers : a.code = 200 /\ Decides(a) =>
        LET b == body[a.key] IN
        /\ decision[b.request] = [verdict |-> Verdict[b.kind], intent |-> b.intent]
        /\ a.decisions = {decision[b.request]}
        /\ <<b.kind, b.request>> \in audit
        /\ \A o \in answers :
              o.code = 200 /\ Decides(o) /\ body[o.key].request = b.request => o.key = a.key

\* A call that is answered with a 4xx has changed nothing: an error that comes up after
\* the status was swapped is never reported as a refusal (ApiError::from).
ClientErrorDidNothing == \A a \in answers : a.code \in 400..499 => ~ a.changed

\* However often and however concurrently a client posts an approval, rejection or
\* revocation again, one of the posts takes effect at most: the key is ignored, but the
\* version in the body is spent.  (A proposal is made again by every post, although lib.rs
\* says that the second "returns the original result without re-executing the mutation".)
EffectOncePerKey ==
    \A k \in Keys : body[k] # NoBody /\ body[k].kind # "propose" => effects[k] <= 1

-----------------------------------------------------------------------------
(* What makes these properties inductive, whatever versions clients name.  *)

Serving(c) == body[serving[c]]

\* A handler whose call has changed a request.
Effective(c) ==
    \/ pc[c] \in {"decide", "audit"}
    \/ stage[c] \in {"refresh", "decisions"} /\ Serving(c).kind # "get"

\* A handler's steps are those of the body it serves, and it knows whether it has changed
\* the request.
HandlerKnows(c) ==
    /\ stage[c] = "useCase" <=> pc[c] # "idle"
    /\ stage[c] # "idle" => serving[c] \in Keys /\ Serving(c) # NoBody
    /\ stage[c] = "useCase" =>
          IF job[c].kind = "propose" THEN Serving(c).kind = "propose" ELSE Serving(c) = job[c]
    /\ stage[c] = "refresh" => Serving(c).kind \in {"approve", "reject", "revoke"}
    /\ stage[c] = "decisions" => Serving(c).kind \in {"get", "approve", "reject", "revoke"}
    /\ changed[c] <=> Effective(c)

\* The version the body names is behind the request's: no swap for it succeeds any more.
Spent(b) ==
    b.kind \in {"approve", "reject", "revoke"} /\ version[b.request] > b.expected

Acting(c, k) == serving[c] = k /\ Effective(c)

\* A key whose post took effect, or is about to be answered for it, has spent its version.
KeyIsSpent(k) ==
    /\ body[k] = NoBody => effects[k] = 0
    /\ body[k] # NoBody /\ body[k].kind # "propose" =>
          /\ effects[k] <= 1
          /\ effects[k] = 1 \/ (\E c \in Callers : Acting(c, k)) => Spent(body[k])
          /\ \A c \in Callers : Acting(c, k) => effects[k] = 0
          /\ \A c, d \in Callers : Acting(c, k) /\ Acting(d, k) => c = d

\* A handler that has inserted a decision.
PastInsert(c) == pc[c] = "audit" \/ stage[c] \in {"refresh", "decisions"}

\* A key whose approval or rejection a handler recorded, or was told to be recorded.
Credited(k) ==
    /\ body[k] # NoBody /\ body[k].kind \in {"approve", "reject"}
    /\ \/ \E c \in Callers : serving[c] = k /\ PastInsert(c)
       \/ \E a \in answers : a.key = k /\ a.code = 200

\* The decision on record is the credited key's, and so only one key of a request is.
CreditIsDue ==
    /\ \A k \in Keys : Credited(k) => decision[body[k].request] = Decision(body[k])
    /\ \A k, l \in Keys :
          Credited(k) /\ Credited(l) /\ body[k].request = body[l].request => k = l

Audited(b) == b.kind \in {"approve", "reject"} => <<b.kind, b.request>> \in audit

\* An answer is to a post, and shows the decision; the audit event came before it.
AnswersAreBacked ==
    /\ \A c \in Callers : stage[c] \in {"refresh", "decisions"} => Audited(Serving(c))
    /\ \A a \in answers :
          /\ a.key \in Keys /\ body[a.key] # NoBody
          /\ a.code = 200 /\ Decides(a) =>
                Audited(body[a.key]) /\ a.decisions = {decision[body[a.key].request]}

\* The inductive invariant of the endpoints.
ApiInv ==
    /\ \A r \in Requests : status[r] = "absent" => version[r] = 0
    /\ \A c \in Callers : HandlerKnows(c)
    /\ \A k \in Keys : KeyIsSpent(k)
    /\ CreditIsDue
    /\ AnswersAreBacked

=============================================================================
