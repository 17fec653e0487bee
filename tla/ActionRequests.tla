-------------------------- MODULE ActionRequests --------------------------
(***************************************************************************)
(* Proposing, approving, rejecting and revoking action requests            *)
(* (action_request.rs, behind the handlers of piteka-api).  Every store    *)
(* call is a step: the status is read, then swapped at the version the     *)
(* caller names, then the decision and the audit event are inserted.  Any  *)
(* number of calls run concurrently and each can fail between its steps.   *)
(***************************************************************************)
EXTENDS Naturals

CONSTANTS
    Requests,          \* the request identifiers the server can draw
    Callers,           \* concurrent calls of the use case
    Intents,           \* intent digests a caller presents
    NoIntent,          \* intent_id_hex = None
    NoDecision,        \* no row in the decision store
    NoJob,             \* the job of an idle caller
    DecideVersions,    \* versions passed to approve and reject
    RevokeVersions,    \* versions passed to revoke
    MayFail            \* whether storage errors and crashes happen

ASSUME VersionsAssumption ==
    /\ DecideVersions \subseteq Nat
    /\ RevokeVersions \subseteq Nat
    /\ MayFail \in BOOLEAN

VARIABLES
    status,    \* status column of each request, "absent" before its insert
    version,   \* its version, 1 when inserted
    intent,    \* the intent digest on the request
    decision,  \* row "dec-<request>", the request's only decision
    audit,     \* the audit events written
    failed,    \* history: requests a call on which failed
    pc,        \* the next step of each caller
    job        \* the arguments of each caller's call

vars == <<status, version, intent, decision, audit, failed, pc, job>>

Verdict == [approve |-> "approved", reject |-> "rejected", revoke |-> "revoked"]

IntentOrNone == Intents \cup {NoIntent}

Jobs ==
    [kind : {"propose"}, request : Requests]
    \cup [kind : {"approve", "reject"}, request : Requests, intent : IntentOrNone,
          expected : DecideVersions]
    \cup [kind : {"revoke"}, request : Requests, expected : RevokeVersions]

Decisions == [verdict : {"approved", "rejected"}, intent : IntentOrNone]

ASSUME DecisionAssumption == NoDecision \notin Decisions

TypeOK ==
    /\ status \in [Requests -> {"absent", "pending", "approved", "rejected", "revoked"}]
    /\ version \in [Requests -> Nat]
    /\ intent \in [Requests -> IntentOrNone]
    /\ decision \in [Requests -> Decisions \cup {NoDecision}]
    /\ audit \subseteq {"propose", "approve", "reject", "revoke"} \X Requests
    /\ failed \subseteq Requests
    /\ pc \in [Callers -> {"idle", "swap", "decide", "audit"}]
    /\ job \in [Callers -> Jobs \cup {NoJob}]
    /\ \A c \in Callers :
          /\ pc[c] # "idle" => job[c] \in Jobs
          /\ pc[c] = "swap" => job[c].kind # "propose"
          /\ pc[c] = "decide" => job[c].kind \in {"approve", "reject"}

Init ==
    /\ status = [r \in Requests |-> "absent"]
    /\ version = [r \in Requests |-> 0]
    /\ intent = [r \in Requests |-> NoIntent]
    /\ decision = [r \in Requests |-> NoDecision]
    /\ audit = {}
    /\ failed = {}
    /\ pc = [c \in Callers |-> "idle"]
    /\ job = [c \in Callers |-> NoJob]

-----------------------------------------------------------------------------

\* Mutant: the decision is not inserted.
Goto_NoDecision(c, step) ==
    /\ pc' = [pc EXCEPT ![c] = IF step = "decide" THEN "audit" ELSE step]
    /\ UNCHANGED job

Goto(c, step) ==
    /\ pc' = [pc EXCEPT ![c] = step]
    /\ UNCHANGED job

Start(c, j, step) ==
    /\ pc[c] = "idle"
    /\ pc' = [pc EXCEPT ![c] = step]
    /\ job' = [job EXCEPT ![c] = j]

\* The call returns, with a result or with an error.
Return(c) ==
    /\ pc' = [pc EXCEPT ![c] = "idle"]
    /\ job' = [job EXCEPT ![c] = NoJob]

\* The statuses in which a call of this kind may start.
Required(kind) == IF kind = "revoke" THEN {"approved"} ELSE {"pending"}

(* The handler draws a fresh identifier for every POST, also for one that  *)
(* repeats the Idempotency-Key of another: it never looks at the key.      *)
Propose(c) ==
    \E r \in Requests, i \in IntentOrNone :
        /\ status[r] = "absent"
        /\ status' = [status EXCEPT ![r] = "pending"]
        /\ version' = [version EXCEPT ![r] = 1]
        /\ intent' = [intent EXCEPT ![r] = i]
        /\ Start(c, [kind |-> "propose", request |-> r], "audit")
        /\ UNCHANGED <<decision, audit, failed>>

(* Neither the version nor the intent the caller presents is looked at yet. *)
CheckStatus(c) ==
    \E j \in Jobs :
        /\ j.kind # "propose"
        /\ status[j.request] \in Required(j.kind)
        /\ Start(c, j, "swap")
        /\ UNCHANGED <<status, version, intent, decision, audit, failed>>

\* Mutant: versions the row has already passed are accepted.
VersionMatches_AtLeast(r, expected) == version[r] >= expected

VersionMatches(r, expected) == version[r] = expected

(* Like the mandate's, the request's swap compares the version only. *)
SwapStatus(c) ==
    LET j == job[c] IN
    /\ pc[c] = "swap"
    /\ \/ /\ VersionMatches(j.request, j.expected)
          /\ status' = [status EXCEPT ![j.request] = Verdict[j.kind]]
          /\ version' = [version EXCEPT ![j.request] = @ + 1]
          /\ Goto(c, IF j.kind = "revoke" THEN "audit" ELSE "decide")
       \/ /\ ~VersionMatches(j.request, j.expected)
          /\ Return(c)
          /\ UNCHANGED <<status, version>>
    /\ UNCHANGED <<intent, decision, audit, failed>>

DecisionIsNew(r) == decision[r] = NoDecision

\* Mutant: the two verdicts are recorded the wrong way round.
Decision_Swapped(j) ==
    [verdict |-> IF j.kind = "approve" THEN "rejected" ELSE "approved", intent |-> j.intent]

\* The decision carries the intent the caller presents, not the request's.
Decision(j) == [verdict |-> Verdict[j.kind], intent |-> j.intent]

(* The decision's identifier is made from the request's: a second insert   *)
(* fails, and the status the call has already swapped stays.               *)
InsertDecision(c) ==
    LET r == job[c].request IN
    /\ pc[c] = "decide"
    /\ \/ /\ DecisionIsNew(r)
          /\ decision' = [decision EXCEPT ![r] = Decision(job[c])]
          /\ Goto(c, "audit")
       \/ /\ ~DecisionIsNew(r)
          /\ Return(c)
          /\ UNCHANGED decision
    /\ UNCHANGED <<status, version, intent, audit, failed>>

Audit(c) ==
    /\ pc[c] = "audit"
    /\ audit' = audit \cup {<<job[c].kind, job[c].request>>}
    /\ Return(c)
    /\ UNCHANGED <<status, version, intent, decision, failed>>

Fails(c) ==
    /\ MayFail
    /\ pc[c] # "idle"
    /\ failed' = failed \cup {job[c].request}
    /\ Return(c)
    /\ UNCHANGED <<status, version, intent, decision, audit>>

CallerStep(c) == SwapStatus(c) \/ InsertDecision(c) \/ Audit(c)

Next == \E c \in Callers : Propose(c) \/ CheckStatus(c) \/ CallerStep(c) \/ Fails(c)

Spec == Init /\ [][Next]_vars

-----------------------------------------------------------------------------
(* Properties whatever versions the callers present *)

\* model.rs: "The decision is immutable once recorded", although the status it
\* decided can be swapped again by a caller that guesses the next version.
DecisionIsImmutable ==
    [][\A r \in Requests : decision[r] # NoDecision => decision'[r] = decision[r]]_vars

\* The audit trail and the decision store never contradict each other: an
\* audited approval is the recorded decision, and no rejection was audited.
AuditAgreesWithDecision ==
    \A r \in Requests :
        /\ <<"approve", r>> \in audit =>
              decision[r] # NoDecision /\ decision[r].verdict = "approved"
        /\ <<"reject", r>> \in audit =>
              decision[r] # NoDecision /\ decision[r].verdict = "rejected"

-----------------------------------------------------------------------------
(* Properties of callers that present the version they were shown: 1 for a *)
(* pending request, 2 for an approved one.                                 *)

Disciplined == DecideVersions = {1} /\ RevokeVersions = {2}

R == INSTANCE RequestLifecycle

\* However calls race and fail, a request is decided once, and revoked only
\* after an approval that no rejection has replaced.
Lifecycle == R!Spec

\* The decision on record is the one the status came from.
DecisionMatchesStatus ==
    \A r \in Requests : decision[r] # NoDecision =>
        \/ decision[r].verdict = "approved" /\ status[r] \in {"approved", "revoked"}
        \/ decision[r].verdict = "rejected" /\ status[r] = "rejected"

\* Only the one caller whose swap decided a request records its decision.
SoleDecider ==
    \A c, d \in Callers :
        pc[c] = "decide" /\ pc[d] = "decide" /\ job[c].request = job[d].request => c = d

Served(r) == \E c \in Callers : pc[c] # "idle" /\ job[c].request = r

\* A decided request nobody works on, and on which no call failed, has its
\* decision on record, an audit event for it, and one for its revocation.
DecidedIsOnRecord ==
    \A r \in Requests : ~Served(r) /\ r \notin failed =>
        /\ status[r] \in {"approved", "revoked"} => <<"approve", r>> \in audit
        /\ status[r] = "rejected" => <<"reject", r>> \in audit
        /\ status[r] = "revoked" => <<"revoke", r>> \in audit
        /\ status[r] \in {"approved", "rejected", "revoked"} => decision[r] # NoDecision

\* What the steps of disciplined callers preserve.  A caller about to revoke
\* either still sees the approval it read or will lose its swap; one about to
\* record a decision made the swap to version 2 itself.
DInv ==
    /\ TypeOK
    /\ \A r \in Requests :
          /\ version[r] = 0 <=> status[r] = "absent"
          /\ version[r] = 1 <=> status[r] = "pending"
          /\ version[r] = 2 <=> status[r] \in {"approved", "rejected"}
          /\ version[r] <= 3
    /\ \A c \in Callers : pc[c] = "swap" =>
          /\ status[job[c].request] # "absent"
          /\ job[c].kind = "revoke" => status[job[c].request] \in {"approved", "revoked"}
    /\ \A c \in Callers : pc[c] = "decide" =>
          LET r == job[c].request IN
          /\ decision[r] = NoDecision
          /\ \/ job[c].kind = "approve" /\ status[r] \in {"approved", "revoked"}
             \/ job[c].kind = "reject" /\ status[r] = "rejected"
    /\ \A r \in Requests : status[r] \in {"absent", "pending"} => decision[r] = NoDecision
    /\ DecisionMatchesStatus
    /\ SoleDecider

\* A caller on its way to the audit event of a swap it made.
Telling(kind, r) ==
    \E c \in Callers :
        pc[c] \in {"decide", "audit"} /\ job[c].kind = kind /\ job[c].request = r

\* What is on record of a decided request, or is still being written.
Story(r) ==
    /\ status[r] \in {"approved", "revoked"} =>
          <<"approve", r>> \in audit \/ Telling("approve", r)
    /\ status[r] = "rejected" => <<"reject", r>> \in audit \/ Telling("reject", r)
    /\ status[r] = "revoked" => <<"revoke", r>> \in audit \/ Telling("revoke", r)
    /\ status[r] \in {"approved", "rejected", "revoked"} =>
          \/ decision[r] # NoDecision
          \/ \E c \in Callers : pc[c] = "decide" /\ job[c].request = r

\* Only a call that failed leaves a decision or its audit event unwritten.
RecordIsOnItsWay == \A r \in Requests : r \notin failed => Story(r)

=============================================================================
