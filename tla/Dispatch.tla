----------------------------- MODULE Dispatch -----------------------------
(***************************************************************************)
(* The critical path: an approved request's mandate is reserved by a       *)
(* compare-and-swap on its projection, sent to GitHub once, and consumed   *)
(* or quarantined (dispatch.rs); a quarantined mandate is reconciled       *)
(* against GitHub or abandoned by an operator (reconciliation.rs, run by   *)
(* the worker's jobs).                                                     *)
(*                                                                         *)
(* Every store call of the handlers is an await point, and here a step of  *)
(* its own.  Dispatchers (callers of reserve_and_dispatch, or of reserve   *)
(* and complete_dispatch as the controlled demo does) and operators run    *)
(* concurrently; any of them can fail before any of its steps.             *)
(***************************************************************************)
EXTENDS Naturals

CONSTANTS
    Mandates,          \* mandate identifiers
    Requests,          \* action request identifiers
    Dispatchers,       \* concurrent callers of the dispatch use case
    Operators,         \* concurrent callers of the reconciliation use case
    Deployments,       \* the deployment identifiers GitHub can assign
    NoDeployment,      \* github_deployment_id = None
    NoJob,             \* the job of an idle process
    ReserveVersions,   \* values dispatchers pass as expected_mandate_version
    OperatorVersions,  \* values operators pass as expected_mandate_version
    MayFail            \* whether storage errors and crashes happen

ASSUME ConstantsAssumption ==
    /\ NoDeployment \notin Deployments
    /\ ReserveVersions \subseteq Nat \ {0}
    /\ OperatorVersions \subseteq Nat \ {0}
    /\ MayFail \in BOOLEAN

VARIABLES
    request,     \* status of each action request
    mstate,      \* state column of each mandate projection
    version,     \* version column of each mandate projection
    attempt,     \* state of attempt "att-<mandate>", the mandate's only attempt
    recorded,    \* github_deployment_id of that attempt
    receipts,    \* mandates with a receipt "rcpt-abandoned-att-<mandate>"
    audit,       \* the audit events written
    inflight,    \* mandates with a create_deployment request GitHub may still accept
    deployed,    \* the deployments GitHub created for each mandate's attempt
    calls,       \* history: create_deployment requests sent for each mandate
    dispatched,  \* history: requests under which one was sent
    failed,      \* history: mandates a call working on which failed
    pc,          \* the next step of each dispatcher
    job,         \* the arguments of each dispatcher's call
    reply,       \* the deployment id GitHub answered each dispatcher
    opc,         \* the next step of each operator
    ojob,        \* the arguments of each operator's call
    seen,        \* the deployment id in the attempt an operator read
    found        \* the correlated deployment an operator's query returned

quietVars == <<request, failed>>  \* what no step of a use case changes
storeVars == <<mstate, version, attempt, recorded, receipts, audit>>
providerVars == <<inflight, deployed, calls, dispatched>>
dispatcherVars == <<pc, job, reply>>
operatorVars == <<opc, ojob, seen, found>>
vars == <<quietVars, storeVars, providerVars, dispatcherVars, operatorVars>>

-----------------------------------------------------------------------------
(* Types *)

RequestStatuses == {"pending", "approved", "rejected", "revoked"}

MandateStates == {"absent", "issued", "reserved", "consumed", "quarantined", "abandoned"}

\* States of a mandate that must not be dispatched again.
SpentStates == {"consumed", "quarantined", "abandoned"}

AttemptStates == {"absent", "prepared", "dispatching", "accepted",
                  "ambiguous", "reconciled", "abandoned"}

AuditActions == {"reserve", "consume", "quarantine", "replay", "reconciled", "abandoned"}

Jobs == [request : Requests, mandate : Mandates, expected : ReserveVersions]

OperatorJobs == [kind : {"reconcile", "abandon"}, mandate : Mandates,
                 expected : OperatorVersions]

DeploymentOrNone == Deployments \cup {NoDeployment}

\* The steps of reserve, before the provider is called ...
ReserveSteps == {"reserve", "insert", "markDispatching", "auditReserve", "send"}
\* ... of the branch taken when another caller holds the mandate ...
ConflictSteps == {"checkReplay", "auditReplay"}
\* ... and of the provider call and complete_dispatch.
CompleteSteps == {"await", "markAccepted", "recordId", "consume", "auditConsume",
                  "markAmbiguous", "quarantine", "auditQuarantine"}

DispatcherSteps == {"idle"} \cup ReserveSteps \cup ConflictSteps \cup CompleteSteps

OperatorSteps == {"idle", "findAttempt", "query", "reconcile", "recordFound",
                  "markReconciled", "auditReconciled", "abandon", "markAbandoned",
                  "insertReceipt", "auditAbandoned"}

TypeOK ==
    /\ request \in [Requests -> RequestStatuses]
    /\ mstate \in [Mandates -> MandateStates]
    /\ version \in [Mandates -> Nat]
    /\ attempt \in [Mandates -> AttemptStates]
    /\ recorded \in [Mandates -> DeploymentOrNone]
    /\ receipts \subseteq Mandates
    /\ audit \subseteq AuditActions \X Mandates
    /\ inflight \subseteq Mandates
    /\ deployed \in [Mandates -> SUBSET Deployments]
    /\ calls \in [Mandates -> Nat]
    /\ dispatched \subseteq Requests
    /\ failed \subseteq Mandates
    /\ pc \in [Dispatchers -> DispatcherSteps]
    /\ job \in [Dispatchers -> Jobs \cup {NoJob}]
    /\ \A p \in Dispatchers : pc[p] # "idle" => job[p] \in Jobs
    /\ reply \in [Dispatchers -> DeploymentOrNone]
    /\ opc \in [Operators -> OperatorSteps]
    /\ ojob \in [Operators -> OperatorJobs \cup {NoJob}]
    /\ \A o \in Operators : opc[o] # "idle" => ojob[o] \in OperatorJobs
    /\ seen \in [Operators -> DeploymentOrNone]
    /\ found \in [Operators -> DeploymentOrNone]

Init ==
    /\ request = [r \in Requests |-> "pending"]
    /\ mstate = [m \in Mandates |-> "absent"]
    /\ version = [m \in Mandates |-> 0]
    /\ attempt = [m \in Mandates |-> "absent"]
    /\ recorded = [m \in Mandates |-> NoDeployment]
    /\ receipts = {}
    /\ audit = {}
    /\ inflight = {}
    /\ deployed = [m \in Mandates |-> {}]
    /\ calls = [m \in Mandates |-> 0]
    /\ dispatched = {}
    /\ failed = {}
    /\ pc = [p \in Dispatchers |-> "idle"]
    /\ job = [p \in Dispatchers |-> NoJob]
    /\ reply = [p \in Dispatchers |-> NoDeployment]
    /\ opc = [o \in Operators |-> "idle"]
    /\ ojob = [o \in Operators |-> NoJob]
    /\ seen = [o \in Operators |-> NoDeployment]
    /\ found = [o \in Operators |-> NoDeployment]

-----------------------------------------------------------------------------
(* The world around the use cases *)

(* The approver's decision on a pending request (ActionRequestUseCase). *)
Decide(r) ==
    /\ request[r] = "pending"
    /\ \E status \in {"approved", "rejected"} : request' = [request EXCEPT ![r] = status]
    /\ UNCHANGED <<failed, storeVars, providerVars, dispatcherVars, operatorVars>>

(* Revocation looks at the request alone, never at its mandate. *)
Revoke(r) ==
    /\ request[r] = "approved"
    /\ request' = [request EXCEPT ![r] = "revoked"]
    /\ UNCHANGED <<failed, storeVars, providerVars, dispatcherVars, operatorVars>>

(* The mandate's projection is inserted, at version 1. *)
Issue(m) ==
    /\ mstate[m] = "absent"
    /\ mstate' = [mstate EXCEPT ![m] = "issued"]
    /\ version' = [version EXCEPT ![m] = 1]
    /\ UNCHANGED <<quietVars, attempt, recorded, receipts, audit>>
    /\ UNCHANGED <<providerVars, dispatcherVars, operatorVars>>

(* GitHub accepts a request it has received, whether or not its sender     *)
(* still waits for the answer, and assigns the deployment an identifier.   *)
GitHubAccepts(m) ==
    /\ m \in inflight
    /\ \E d \in Deployments :
          /\ \A n \in Mandates : d \notin deployed[n]
          /\ deployed' = [deployed EXCEPT ![m] = @ \cup {d}]
    /\ inflight' = inflight \ {m}
    /\ UNCHANGED <<calls, dispatched>>
    /\ UNCHANGED <<quietVars, storeVars, dispatcherVars, operatorVars>>

(* GitHub rejects the request, or the request is lost on its way. *)
GitHubDrops(m) ==
    /\ m \in inflight
    /\ inflight' = inflight \ {m}
    /\ UNCHANGED <<deployed, calls, dispatched>>
    /\ UNCHANGED <<quietVars, storeVars, dispatcherVars, operatorVars>>

-----------------------------------------------------------------------------
(* The mandate projection's compare-and-swap, in memory and in Postgres.   *)
(* It compares the version only: the state it replaces is not looked at.   *)

\* Mutant: a swap that only refuses versions from the future.
VersionMatches_AtLeast(m, expected) == version[m] >= expected

VersionMatches(m, expected) == version[m] = expected

\* Mutant: the state is written without advancing the version.
Swap_KeepsVersion(m, new) ==
    /\ mstate' = [mstate EXCEPT ![m] = new]
    /\ UNCHANGED version

Swap(m, new) ==
    /\ mstate' = [mstate EXCEPT ![m] = new]
    /\ version' = [version EXCEPT ![m] = @ + 1]

SetAttempt(m, new) == attempt' = [attempt EXCEPT ![m] = new]

\* Mutant: an existing attempt is overwritten, as an upsert would.
AttemptIsNew_Upsert(m) == TRUE

AttemptIsNew(m) == attempt[m] = "absent"

\* Mutant: the event's fields are swapped.
WriteAudit_Swapped(action, m) == audit' = audit \cup {<<m, action>>}

WriteAudit(action, m) == audit' = audit \cup {<<action, m>>}

-----------------------------------------------------------------------------
(* DispatchUseCase::reserve *)

\* Mutant: the provider is called before the reservation is audited.
Goto_SkipAudit(p, step) ==
    /\ pc' = [pc EXCEPT ![p] = IF step = "auditReserve" THEN "send" ELSE step]
    /\ UNCHANGED <<job, reply>>

\* Mutant: the mandate is quarantined on the way to the call, not after it.
Goto_QuarantineFirst(p, step) ==
    /\ pc' = [pc EXCEPT ![p] = IF step = "send" THEN "markAmbiguous" ELSE step]
    /\ UNCHANGED <<job, reply>>

\* Mutant: the mandate is quarantined before its attempt is marked ambiguous.
Goto_SkipMark(p, step) ==
    /\ pc' = [pc EXCEPT ![p] = IF step = "markAmbiguous" THEN "quarantine" ELSE step]
    /\ UNCHANGED <<job, reply>>

Goto(p, step) ==
    /\ pc' = [pc EXCEPT ![p] = step]
    /\ UNCHANGED <<job, reply>>

\* The call returns, with a result or with an error.
Return(p) ==
    /\ pc' = [pc EXCEPT ![p] = "idle"]
    /\ job' = [job EXCEPT ![p] = NoJob]
    /\ reply' = [reply EXCEPT ![p] = NoDeployment]

\* Mutant: anything but a rejection will do.
Dispatchable_NotRejected(r) == request[r] # "rejected"

Dispatchable(r) == request[r] = "approved"

(* A caller presents any request, mandate and version: only the request's  *)
(* status is checked before the swap.                                      *)
CheckRequest(p) ==
    /\ pc[p] = "idle"
    /\ \E j \in Jobs :
          /\ Dispatchable(j.request)
          /\ job' = [job EXCEPT ![p] = j]
    /\ pc' = [pc EXCEPT ![p] = "reserve"]
    /\ UNCHANGED <<reply, quietVars, storeVars, providerVars, operatorVars>>

ReserveCas(p) ==
    LET m == job[p].mandate IN
    /\ pc[p] = "reserve"
    /\ \/ /\ VersionMatches(m, job[p].expected)
          /\ Swap(m, "reserved")
          /\ Goto(p, "insert")
       \/ /\ ~VersionMatches(m, job[p].expected)
          /\ mstate[m] # "absent"
          /\ Goto(p, "checkReplay")
          /\ UNCHANGED <<mstate, version>>
       \/ /\ mstate[m] = "absent"
          /\ Return(p)
          /\ UNCHANGED <<mstate, version>>
    /\ UNCHANGED <<quietVars, attempt, recorded, receipts, audit, providerVars, operatorVars>>

(* The attempt's identifier is made from the mandate's, so the insert      *)
(* fails when the mandate already has an attempt; the error leaves the     *)
(* projection reserved.                                                    *)
InsertAttempt(p) ==
    LET m == job[p].mandate IN
    /\ pc[p] = "insert"
    /\ \/ /\ AttemptIsNew(m)
          /\ SetAttempt(m, "prepared")
          /\ Goto(p, "markDispatching")
       \/ /\ ~AttemptIsNew(m)
          /\ Return(p)
          /\ UNCHANGED attempt
    /\ UNCHANGED <<mstate, version, recorded, receipts, audit>>
    /\ UNCHANGED <<quietVars, providerVars, operatorVars>>

MarkDispatching(p) ==
    /\ pc[p] = "markDispatching"
    /\ SetAttempt(job[p].mandate, "dispatching")
    /\ Goto(p, "auditReserve")
    /\ UNCHANGED <<mstate, version, recorded, receipts, audit>>
    /\ UNCHANGED <<quietVars, providerVars, operatorVars>>

AuditReserve(p) ==
    /\ pc[p] = "auditReserve"
    /\ WriteAudit("reserve", job[p].mandate)
    /\ Goto(p, "send")
    /\ UNCHANGED <<mstate, version, attempt, recorded, receipts>>
    /\ UNCHANGED <<quietVars, providerVars, operatorVars>>

Spent(m) == mstate[m] \in SpentStates

(* On a conflict the projection is read again: a spent mandate is a replay *)
(* to be audited, any other state an ordinary lost race.                   *)
CheckReplay(p) ==
    /\ pc[p] = "checkReplay"
    /\ \/ /\ Spent(job[p].mandate)
          /\ Goto(p, "auditReplay")
       \/ /\ ~Spent(job[p].mandate)
          /\ Return(p)
    /\ UNCHANGED <<quietVars, storeVars, providerVars, operatorVars>>

AuditReplay(p) ==
    /\ pc[p] = "auditReplay"
    /\ WriteAudit("replay", job[p].mandate)
    /\ Return(p)
    /\ UNCHANGED <<mstate, version, attempt, recorded, receipts>>
    /\ UNCHANGED <<quietVars, providerVars, operatorVars>>

-----------------------------------------------------------------------------
(* The provider call, and DispatchUseCase::complete_dispatch *)

CallProvider(p) ==
    LET m == job[p].mandate IN
    /\ pc[p] = "send"
    /\ inflight' = inflight \cup {m}
    /\ calls' = [calls EXCEPT ![m] = @ + 1]
    /\ dispatched' = dispatched \cup {job[p].request}
    /\ Goto(p, "await")
    /\ UNCHANGED <<deployed, quietVars, storeVars, operatorVars>>

ReceiveAccepted(p) ==
    /\ pc[p] = "await"
    /\ \E d \in deployed[job[p].mandate] : reply' = [reply EXCEPT ![p] = d]
    /\ pc' = [pc EXCEPT ![p] = "markAccepted"]
    /\ UNCHANGED <<job, quietVars, storeVars, providerVars, operatorVars>>

(* The call ends without a deployment: a rejection, a connection that      *)
(* breaks, or an acceptance without an identifier.  The caller learns      *)
(* nothing about what GitHub did or will do.  The client sets no timeout,  *)
(* so nothing but GitHub and the network ends the wait.                    *)
ReceiveNothing(p) ==
    /\ pc[p] = "await"
    /\ Goto(p, "markAmbiguous")
    /\ UNCHANGED <<quietVars, storeVars, providerVars, operatorVars>>

MarkAccepted(p) ==
    /\ pc[p] = "markAccepted"
    /\ SetAttempt(job[p].mandate, "accepted")
    /\ Goto(p, "recordId")
    /\ UNCHANGED <<mstate, version, recorded, receipts, audit>>
    /\ UNCHANGED <<quietVars, providerVars, operatorVars>>

RecordDeploymentId(p) ==
    /\ pc[p] = "recordId"
    /\ recorded' = [recorded EXCEPT ![job[p].mandate] = reply[p]]
    /\ Goto(p, "consume")
    /\ UNCHANGED <<mstate, version, attempt, receipts, audit>>
    /\ UNCHANGED <<quietVars, providerVars, operatorVars>>

MarkAmbiguous(p) ==
    /\ pc[p] = "markAmbiguous"
    /\ SetAttempt(job[p].mandate, "ambiguous")
    /\ Goto(p, "quarantine")
    /\ UNCHANGED <<mstate, version, recorded, receipts, audit>>
    /\ UNCHANGED <<quietVars, providerVars, operatorVars>>

\* Mutant: the version that was presented to reserve is presented again.
CompleteCas_OldVersion(p, step, new, auditStep) ==
    LET m == job[p].mandate IN
    /\ pc[p] = step
    /\ \/ /\ VersionMatches(m, job[p].expected)
          /\ Swap(m, new)
          /\ Goto(p, auditStep)
       \/ /\ ~VersionMatches(m, job[p].expected)
          /\ Return(p)
          /\ UNCHANGED <<mstate, version>>
    /\ UNCHANGED <<quietVars, attempt, recorded, receipts, audit, providerVars, operatorVars>>

(* The version presented is the one the reservation made.  A conflict is   *)
(* an error after an acceptance and is ignored after a failure; either way *)
(* the attempt has already been changed and stays changed.                 *)
CompleteCas(p, step, new, auditStep) ==
    LET m == job[p].mandate IN
    /\ pc[p] = step
    /\ \/ /\ VersionMatches(m, job[p].expected + 1)
          /\ Swap(m, new)
          /\ Goto(p, auditStep)
       \/ /\ ~VersionMatches(m, job[p].expected + 1)
          /\ Return(p)
          /\ UNCHANGED <<mstate, version>>
    /\ UNCHANGED <<quietVars, attempt, recorded, receipts, audit, providerVars, operatorVars>>

ConsumeCas(p) == CompleteCas(p, "consume", "consumed", "auditConsume")

QuarantineCas(p) == CompleteCas(p, "quarantine", "quarantined", "auditQuarantine")

AuditCompletion(p) ==
    /\ \/ /\ pc[p] = "auditConsume"
          /\ WriteAudit("consume", job[p].mandate)
       \/ /\ pc[p] = "auditQuarantine"
          /\ WriteAudit("quarantine", job[p].mandate)
    /\ Return(p)
    /\ UNCHANGED <<mstate, version, attempt, recorded, receipts>>
    /\ UNCHANGED <<quietVars, providerVars, operatorVars>>

(* A storage error returned through `?`, a cancelled future or a crash:    *)
(* the steps already taken stay, the others never happen.                  *)
DispatcherFails(p) ==
    /\ MayFail
    /\ pc[p] # "idle"
    /\ failed' = failed \cup {job[p].mandate}
    /\ Return(p)
    /\ UNCHANGED <<request, storeVars, providerVars, operatorVars>>

DispatcherStep(p) ==
    \/ ReserveCas(p) \/ InsertAttempt(p) \/ MarkDispatching(p) \/ AuditReserve(p)
    \/ CheckReplay(p) \/ AuditReplay(p)
    \/ CallProvider(p) \/ ReceiveAccepted(p) \/ ReceiveNothing(p)
    \/ MarkAccepted(p) \/ RecordDeploymentId(p) \/ ConsumeCas(p)
    \/ MarkAmbiguous(p) \/ QuarantineCas(p) \/ AuditCompletion(p)

-----------------------------------------------------------------------------
(* ReconciliationUseCase, one job of the worker at a time *)

OGoto(o, step) ==
    /\ opc' = [opc EXCEPT ![o] = step]
    /\ UNCHANGED <<ojob, seen, found>>

OReturn(o) ==
    /\ opc' = [opc EXCEPT ![o] = "idle"]
    /\ ojob' = [ojob EXCEPT ![o] = NoJob]
    /\ seen' = [seen EXCEPT ![o] = NoDeployment]
    /\ found' = [found EXCEPT ![o] = NoDeployment]

(* The projection read must be quarantined; its version is not compared    *)
(* with the one the caller presents until the swap.                        *)
CheckQuarantined(o) ==
    /\ opc[o] = "idle"
    /\ \E j \in OperatorJobs :
          /\ mstate[j.mandate] = "quarantined"
          /\ ojob' = [ojob EXCEPT ![o] = j]
    /\ opc' = [opc EXCEPT ![o] = "findAttempt"]
    /\ UNCHANGED <<seen, found, quietVars, storeVars, providerVars, dispatcherVars>>

FindAttempt(o) ==
    LET m == ojob[o].mandate IN
    /\ opc[o] = "findAttempt"
    /\ \/ /\ attempt[m] = "ambiguous"
          /\ seen' = [seen EXCEPT ![o] = recorded[m]]
          /\ opc' = [opc EXCEPT ![o] =
                        IF ojob[o].kind = "reconcile" THEN "query" ELSE "abandon"]
          /\ UNCHANGED <<ojob, found>>
       \/ /\ attempt[m] # "ambiguous"
          /\ OReturn(o)
    /\ UNCHANGED <<quietVars, storeVars, providerVars, dispatcherVars>>

\* Mutant: any deployment GitHub lists is taken for the attempt's.
Correlated_Any(m) == Deployments

Correlated(m) == deployed[m]

(* GitHub returns a deployment carrying the attempt's correlation payload, *)
(* or does not find one, or does not answer: the last two change nothing.  *)
QueryProvider(o) ==
    /\ opc[o] = "query"
    /\ \/ /\ \E d \in Correlated(ojob[o].mandate) : found' = [found EXCEPT ![o] = d]
          /\ opc' = [opc EXCEPT ![o] = "reconcile"]
          /\ UNCHANGED <<ojob, seen>>
       \/ OReturn(o)
    /\ UNCHANGED <<quietVars, storeVars, providerVars, dispatcherVars>>

OperatorCas(o, step, new, next) ==
    LET m == ojob[o].mandate IN
    /\ opc[o] = step
    /\ \/ /\ VersionMatches(m, ojob[o].expected)
          /\ Swap(m, new)
          /\ OGoto(o, next)
       \/ /\ ~VersionMatches(m, ojob[o].expected)
          /\ OReturn(o)
          /\ UNCHANGED <<mstate, version>>
    /\ UNCHANGED <<quietVars, attempt, recorded, receipts, audit, providerVars, dispatcherVars>>

\* Mutant: the recovered identifier is not recorded.
ReconcileCas_KeepsId(o) == OperatorCas(o, "reconcile", "consumed", "markReconciled")

ReconcileCas(o) ==
    OperatorCas(o, "reconcile", "consumed",
                IF seen[o] # found[o] THEN "recordFound" ELSE "markReconciled")

AbandonCas(o) == OperatorCas(o, "abandon", "abandoned", "markAbandoned")

RecordFoundId(o) ==
    /\ opc[o] = "recordFound"
    /\ recorded' = [recorded EXCEPT ![ojob[o].mandate] = found[o]]
    /\ OGoto(o, "markReconciled")
    /\ UNCHANGED <<mstate, version, attempt, receipts, audit>>
    /\ UNCHANGED <<quietVars, providerVars, dispatcherVars>>

MarkReconciled(o) ==
    /\ opc[o] = "markReconciled"
    /\ SetAttempt(ojob[o].mandate, "reconciled")
    /\ OGoto(o, "auditReconciled")
    /\ UNCHANGED <<mstate, version, recorded, receipts, audit>>
    /\ UNCHANGED <<quietVars, providerVars, dispatcherVars>>

MarkAbandoned(o) ==
    /\ opc[o] = "markAbandoned"
    /\ SetAttempt(ojob[o].mandate, "abandoned")
    /\ OGoto(o, "insertReceipt")
    /\ UNCHANGED <<mstate, version, recorded, receipts, audit>>
    /\ UNCHANGED <<quietVars, providerVars, dispatcherVars>>

InsertUnknownReceipt(o) ==
    LET m == ojob[o].mandate IN
    /\ opc[o] = "insertReceipt"
    /\ \/ /\ m \notin receipts
          /\ receipts' = receipts \cup {m}
          /\ OGoto(o, "auditAbandoned")
       \/ /\ m \in receipts
          /\ OReturn(o)
          /\ UNCHANGED receipts
    /\ UNCHANGED <<mstate, version, attempt, recorded, audit>>
    /\ UNCHANGED <<quietVars, providerVars, dispatcherVars>>

AuditResolution(o) ==
    /\ \/ /\ opc[o] = "auditReconciled"
          /\ WriteAudit("reconciled", ojob[o].mandate)
       \/ /\ opc[o] = "auditAbandoned"
          /\ WriteAudit("abandoned", ojob[o].mandate)
    /\ OReturn(o)
    /\ UNCHANGED <<mstate, version, attempt, recorded, receipts>>
    /\ UNCHANGED <<quietVars, providerVars, dispatcherVars>>

OperatorFails(o) ==
    /\ MayFail
    /\ opc[o] # "idle"
    /\ failed' = failed \cup {ojob[o].mandate}
    /\ OReturn(o)
    /\ UNCHANGED <<request, storeVars, providerVars, dispatcherVars>>

OperatorStep(o) ==
    \/ FindAttempt(o) \/ QueryProvider(o)
    \/ ReconcileCas(o) \/ RecordFoundId(o) \/ MarkReconciled(o)
    \/ AbandonCas(o) \/ MarkAbandoned(o) \/ InsertUnknownReceipt(o)
    \/ AuditResolution(o)

-----------------------------------------------------------------------------

Environment ==
    \/ \E r \in Requests : Decide(r) \/ Revoke(r)
    \/ \E m \in Mandates : Issue(m) \/ GitHubAccepts(m) \/ GitHubDrops(m)

Next ==
    \/ Environment
    \/ \E p \in Dispatchers : CheckRequest(p) \/ DispatcherStep(p) \/ DispatcherFails(p)
    \/ \E o \in Operators : CheckQuarantined(o) \/ OperatorStep(o) \/ OperatorFails(o)

Spec == Init /\ [][Next]_vars

(* A handler that has been called is polled on: the async runtime drives   *)
(* every future.  Nobody is obliged to call a handler.  Nor is GitHub      *)
(* obliged to answer one: neither the call that creates a deployment nor   *)
(* the query for it has a timeout, so a handler that awaits one may wait   *)
(* for ever.                                                               *)
Fairness ==
    /\ \A p \in Dispatchers : WF_vars(pc[p] # "await" /\ DispatcherStep(p))
    /\ \A o \in Operators : WF_vars(opc[o] # "query" /\ OperatorStep(o))

FairSpec == Spec /\ Fairness

-----------------------------------------------------------------------------
(* Properties that hold whatever versions the callers present *)

\* GitHub is sent at most one create_deployment request per mandate, even when
\* reserve wins its swap again on a spent mandate: the one attempt a mandate
\* can have stops the second reservation (dispatch.rs, step 3 of reserve).
AtMostOneProviderCall == \A m \in Mandates : calls[m] <= 1

\* "No simulated success": a mandate is consumed, an attempt accepted or
\* reconciled, and a deployment id recorded only for a deployment GitHub
\* created for that very attempt.
NoSimulatedSuccess ==
    \A m \in Mandates :
        /\ mstate[m] = "consumed" => deployed[m] # {}
        /\ attempt[m] \in {"accepted", "reconciled"} => deployed[m] # {}
        /\ recorded[m] # NoDeployment => recorded[m] \in deployed[m]

\* "Durable journal": what GitHub may have received was journalled before it
\* was sent, as an attempt past Prepared and as an audited reservation.
JournaledBeforeDispatch ==
    \A m \in Mandates :
        calls[m] > 0 => /\ attempt[m] \notin {"absent", "prepared"}
                        /\ <<"reserve", m>> \in audit

\* A mandate counts as spent, and a replay of it is reported as a repeat use,
\* only when its one request was really sent to GitHub.
SpentMeansSent ==
    \A m \in Mandates :
        (mstate[m] \in SpentStates \/ <<"replay", m>> \in audit) => calls[m] = 1

\* Nothing is sent to GitHub under a request no approver approved.
DispatchedWasApproved ==
    \A r \in dispatched : request[r] \in {"approved", "revoked"}

-----------------------------------------------------------------------------
(* The inductive strengthening of the five properties above *)

\* A dispatcher between its attempt and its call: nothing has been sent for
\* the mandate, and the journal is as far as the step says.
BeforeCall ==
    \A p \in Dispatchers :
        pc[p] \in {"markDispatching", "auditReserve", "send"} =>
            LET m == job[p].mandate IN
            /\ calls[m] = 0
            /\ attempt[m] # "absent"
            /\ pc[p] \in {"auditReserve", "send"} => attempt[m] # "prepared"
            /\ pc[p] = "send" => <<"reserve", m>> \in audit

\* Only the dispatcher whose insert created the attempt is in that position.
SoleCaller ==
    \A p, q \in Dispatchers :
        /\ pc[p] \in {"markDispatching", "auditReserve", "send"}
        /\ pc[q] \in {"markDispatching", "auditReserve", "send"}
        /\ job[p].mandate = job[q].mandate
        => p = q

\* A dispatcher past its call, or that found the mandate spent, and every
\* operator, work on a mandate whose one request was sent.
AfterCall ==
    /\ \A p \in Dispatchers :
          pc[p] \in CompleteSteps \cup {"auditReplay"} => calls[job[p].mandate] = 1
    /\ \A o \in Operators : opc[o] # "idle" => calls[ojob[o].mandate] = 1

\* An identifier on its way to the attempt names a deployment of the attempt.
IdsAreReal ==
    /\ \A p \in Dispatchers :
          pc[p] \in {"markAccepted", "recordId", "consume"} =>
              reply[p] \in deployed[job[p].mandate]
    /\ \A o \in Operators :
          opc[o] \in {"reconcile", "recordFound", "markReconciled"} =>
              found[o] \in deployed[ojob[o].mandate]

\* A dispatcher at work acts for a request approved when it read its status.
AskedWhileApproved ==
    \A p \in Dispatchers :
        pc[p] # "idle" => request[job[p].request] \in {"approved", "revoked"}

\* What every step of every caller preserves.
IInv ==
    /\ TypeOK
    /\ AtMostOneProviderCall
    /\ JournaledBeforeDispatch
    /\ SpentMeansSent
    /\ NoSimulatedSuccess
    /\ DispatchedWasApproved
    /\ BeforeCall
    /\ SoleCaller
    /\ AfterCall
    /\ IdsAreReal
    /\ AskedWhileApproved

-----------------------------------------------------------------------------
(* Properties of callers that present the versions the repository's do:    *)
(* dispatchers the version of a freshly issued projection, operators the   *)
(* version of a quarantined one.                                           *)

Disciplined == ReserveVersions = {1} /\ OperatorVersions = {3}

\* Dispatchers that have reserved a mandate and not yet settled it.
Holding(p, m) ==
    /\ pc[p] \in (ReserveSteps \ {"reserve"}) \cup (CompleteSteps \ {"auditConsume", "auditQuarantine"})
    /\ job[p].mandate = m

\* "One concurrent winner": two callers never hold the same reservation.
OneConcurrentWinner ==
    \A p, q \in Dispatchers, m \in Mandates :
        Holding(p, m) /\ Holding(q, m) => p = q

\* A quarantined mandate always has the ambiguous attempt reconcile and
\* abandon_unresolved look for, so no failure strands it in quarantine.
QuarantineIsReconcilable ==
    \A m \in Mandates : mstate[m] = "quarantined" => attempt[m] = "ambiguous"

\* An Unknown receipt is the last word: its mandate is abandoned, its attempt
\* too, and no deployment id was recorded by which a later webhook could
\* produce a second, contradicting receipt.
UnknownReceiptIsFinal ==
    \A m \in receipts :
        /\ mstate[m] = "abandoned"
        /\ attempt[m] = "abandoned"
        /\ recorded[m] = NoDeployment

\* The life cycle the documents draw, implemented by the handlers.
L == INSTANCE MandateLifecycle
        WITH state <- mstate,
             called <- {m \in Mandates : calls[m] > 0},
             effected <- {m \in Mandates : deployed[m] # {}}

\* Every behaviour of the handlers is, through this mapping, a behaviour of
\* the abstract life cycle: one reservation, one call, no way back.
Lifecycle == L!Spec

-----------------------------------------------------------------------------
(* Properties of mandates on which no call has failed *)

Served(m) ==
    \/ \E p \in Dispatchers : pc[p] # "idle" /\ job[p].mandate = m
    \/ \E o \in Operators : opc[o] # "idle" /\ ojob[o].mandate = m

\* When nobody works on a mandate any more, its projection, attempt, receipt
\* and audit trail tell one story.
SettledIsJournaled ==
    \A m \in Mandates : ~Served(m) /\ m \notin failed =>
        /\ mstate[m] = "consumed" =>
              /\ recorded[m] # NoDeployment
              /\ \/ attempt[m] = "accepted" /\ <<"consume", m>> \in audit
                 \/ attempt[m] = "reconciled" /\ <<"reconciled", m>> \in audit
        /\ mstate[m] = "quarantined" => <<"quarantine", m>> \in audit
        /\ mstate[m] = "abandoned" => m \in receipts /\ <<"abandoned", m>> \in audit

\* Dispatchers that await GitHub's answer, which may never come.
Awaiting(m) == \E p \in Dispatchers : pc[p] = "await" /\ job[p].mandate = m

\* A reservation is followed through: its call is made, and the mandate is consumed or
\* quarantined once that call has returned, with whatever result.  The one request that
\* is sent is awaited once, so being awaited excuses nothing after its answer.  dispatch.rs
\* says that the mandate is quarantined "the moment the provider call completes"; a storage
\* failure after it leaves the mandate reserved.
ReservedSettles ==
    \A m \in Mandates :
        mstate[m] = "reserved" ~>
            mstate[m] \in {"consumed", "quarantined"} \/ Awaiting(m) \/ m \in failed

-----------------------------------------------------------------------------
(* The inductive strengthening of the properties of disciplined callers *)

\* A projection's version counts its swaps and so tells its state; only a
\* consumed one has two versions, one for each way to get there.
VersionTellsState ==
    \A m \in Mandates :
        /\ mstate[m] = "absent" <=> version[m] = 0
        /\ mstate[m] = "issued" <=> version[m] = 1
        /\ mstate[m] = "reserved" <=> version[m] = 2
        /\ mstate[m] = "quarantined" => version[m] = 3
        /\ mstate[m] = "consumed" => version[m] \in {3, 4}
        /\ mstate[m] = "abandoned" => version[m] = 4

\* The attempt and its deployment id as each step of a reservation's holder
\* finds them.
AttemptAt(step) ==
    CASE step = "insert" -> "absent"
      [] step = "markDispatching" -> "prepared"
      [] step \in {"recordId", "consume"} -> "accepted"
      [] step = "quarantine" -> "ambiguous"
      [] OTHER -> "dispatching"

HolderKnows ==
    \A p \in Dispatchers, m \in Mandates : Holding(p, m) =>
        /\ mstate[m] = "reserved"
        /\ attempt[m] = AttemptAt(pc[p])
        /\ recorded[m] = NoDeployment <=> pc[p] # "consume"

\* What a mandate's attempt, deployment id and receipt are before anybody
\* reserved it, and in quarantine and after it.
AttemptFollowsMandate ==
    \A m \in Mandates :
        /\ mstate[m] \in {"absent", "issued"} =>
              attempt[m] = "absent" /\ recorded[m] = NoDeployment
        /\ mstate[m] = "quarantined" => attempt[m] = "ambiguous"
        /\ mstate[m] \in {"quarantined", "abandoned"} => recorded[m] = NoDeployment
        /\ m \in receipts => mstate[m] = "abandoned" /\ attempt[m] = "abandoned"

\* Operators that have taken a mandate out of quarantine and not yet written
\* all that follows.
Reconciling(o, m) ==
    opc[o] \in {"recordFound", "markReconciled", "auditReconciled"} /\ ojob[o].mandate = m

Abandoning(o, m) ==
    opc[o] \in {"markAbandoned", "insertReceipt", "auditAbandoned"} /\ ojob[o].mandate = m

\* An operator works on a mandate that left the dispatchers' hands through
\* quarantine, and that at most one operator takes out of it.
OperatorKnows ==
    /\ \A o \in Operators : opc[o] # "idle" =>
          LET m == ojob[o].mandate IN
          /\ mstate[m] \in {"quarantined", "consumed", "abandoned"}
          /\ mstate[m] = "consumed" => version[m] = 4
          /\ mstate[m] = "quarantined" /\ opc[o] # "findAttempt" => seen[o] = NoDeployment
    /\ \A o \in Operators, m \in Mandates :
          /\ Reconciling(o, m) =>
                /\ mstate[m] = "consumed"
                /\ attempt[m] = IF opc[o] = "auditReconciled" THEN "reconciled" ELSE "ambiguous"
                /\ opc[o] # "recordFound" => recorded[m] # NoDeployment
          /\ Abandoning(o, m) =>
                /\ mstate[m] = "abandoned"
                /\ attempt[m] = IF opc[o] = "markAbandoned" THEN "ambiguous" ELSE "abandoned"
                /\ m \in receipts <=> opc[o] = "auditAbandoned"
    /\ \A o, q \in Operators, m \in Mandates :
          /\ Reconciling(o, m) \/ Abandoning(o, m)
          /\ Reconciling(q, m) \/ Abandoning(q, m)
          => o = q

\* GitHub acts on a request once, and only on one that was sent.
ProviderActsOnce ==
    \A m \in Mandates :
        /\ m \in inflight => calls[m] = 1 /\ deployed[m] = {}
        /\ deployed[m] # {} => calls[m] = 1

\* What every step of disciplined callers preserves, beside IInv.
VInv ==
    /\ VersionTellsState
    /\ OneConcurrentWinner
    /\ HolderKnows
    /\ AttemptFollowsMandate
    /\ OperatorKnows
    /\ ProviderActsOnce

\* What is on record of a spent mandate, or is still being written by somebody.
Story(m) ==
    /\ mstate[m] = "consumed" /\ version[m] = 3 =>
          /\ attempt[m] = "accepted"
          /\ recorded[m] # NoDeployment
          /\ \/ <<"consume", m>> \in audit
             \/ \E p \in Dispatchers : pc[p] = "auditConsume" /\ job[p].mandate = m
    /\ mstate[m] = "consumed" /\ version[m] = 4 =>
          \/ \E o \in Operators : Reconciling(o, m)
          \/ /\ attempt[m] = "reconciled"
             /\ recorded[m] # NoDeployment
             /\ <<"reconciled", m>> \in audit
    /\ mstate[m] = "quarantined" =>
          \/ <<"quarantine", m>> \in audit
          \/ \E p \in Dispatchers : pc[p] = "auditQuarantine" /\ job[p].mandate = m
    /\ mstate[m] = "abandoned" =>
          \/ \E o \in Operators : Abandoning(o, m)
          \/ m \in receipts /\ <<"abandoned", m>> \in audit

\* Only a call that failed leaves a story untold.
JournalIsOnItsWay == \A m \in Mandates : m \notin failed => Story(m)

-----------------------------------------------------------------------------
(* What the documents say and the code does not do *)

\* dispatch.rs: "Once the mandate is Consumed, Quarantined, or Abandoned, it
\* cannot be dispatched again."  reserve compares the version, not the state.
SpentStaysSpent ==
    [][\A m \in Mandates :
          mstate[m] \in SpentStates => mstate'[m] # "reserved"]_vars

=============================================================================
