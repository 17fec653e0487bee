-------------------------- MODULE WebhookReceipts --------------------------
(***************************************************************************)
(* GitHub's deployment_status webhooks on their way to an execution        *)
(* receipt: webhook.rs authenticates a delivery and hands it to            *)
(* webhook_ingestion.rs, which deduplicates it, judges its order and       *)
(* dispatches it to receipt_production.rs.  Every store call is a step;    *)
(* deliveries are handled concurrently, and GitHub may deliver each of     *)
(* them late, out of order and again.                                      *)
(***************************************************************************)
EXTENDS Naturals

CONSTANTS
    Deliveries,     \* X-GitHub-Delivery identifiers
    Deployments,    \* deployments, each of one execution attempt
    States,         \* the deployment states GitHub reports
    MaxTime,        \* bound on updated_at
    Handlers,       \* concurrent requests to the webhook endpoint
    NoEvent,        \* a delivery GitHub has not made yet
    NoReceipt,      \* no row "rcpt-<attempt>"
    NoDelivery,     \* the delivery of an idle handler
    MayFail,        \* whether storage calls fail
    MayRestart      \* whether the server restarts

ASSUME ConstantsAssumption ==
    /\ MaxTime \in Nat \ {0}
    /\ MayFail \in BOOLEAN
    /\ MayRestart \in BOOLEAN
    /\ NoReceipt \notin [outcome : {"succeeded", "failed", "unknown"}, observed : States]

VARIABLES
    event,       \* what each delivery reports
    linked,      \* deployments whose identifier is recorded on their attempt
    recorded,    \* rows of the webhook receipt store
    nodes,       \* rows of the evidence node store
    receipt,     \* the execution receipt of each deployment's attempt
    audit,       \* the audit events written
    latest,      \* LastReceivedTracker, in memory: 0 is no entry
    pc,          \* the next step of each handler
    delivery,    \* the delivery it handles
    outOfOrder,  \* what the tracker said of it
    processed,   \* history: how often each delivery passed deduplication
    newest,      \* history: the newest event seen of each deployment, ever
    forgotten,   \* history: deployments with events seen before a restart
    stale,       \* history: deliveries seen after a newer event
    dropped      \* history: deliveries whose handling a failure or a restart cut short

storeVars == <<linked, recorded, nodes, receipt, audit>>
historyVars == <<processed, newest, forgotten, stale, dropped>>
handlerVars == <<pc, delivery, outOfOrder>>
vars == <<event, storeVars, latest, handlerVars, historyVars>>

Events == [deployment : Deployments, state : States, at : 1..MaxTime]

Outcomes == {"succeeded", "failed", "unknown"}

\* An observation is identified by the attempt and the state GitHub reported,
\* a claim by the attempt and its outcome: neither by the delivery.
Nodes ==
    [deployment : Deployments, kind : {"observation"}, about : States]
    \cup [deployment : Deployments, kind : {"claim"}, about : Outcomes]

IngestSteps == {"record", "track", "auditIngest"}
ProduceSteps == {"findAttempt", "observe", "claim", "insertReceipt", "auditReceipt"}
ConcludingSteps == {"produced", "deferred", "notFound", "error"}
Steps == {"idle", "process"} \cup IngestSteps \cup ProduceSteps \cup ConcludingSteps

TypeOK ==
    /\ event \in [Deliveries -> Events \cup {NoEvent}]
    /\ linked \subseteq Deployments
    /\ recorded \subseteq Deliveries
    /\ nodes \subseteq Nodes
    /\ receipt \in [Deployments -> [outcome : Outcomes, observed : States] \cup {NoReceipt}]
    /\ audit \subseteq ({"ingested", "outOfOrder", "receipt"} \cup ConcludingSteps) \X Deliveries
    /\ latest \in [Deployments -> 0..MaxTime]
    /\ pc \in [Handlers -> Steps]
    /\ delivery \in [Handlers -> Deliveries \cup {NoDelivery}]
    /\ outOfOrder \in [Handlers -> BOOLEAN]
    /\ processed \in [Deliveries -> Nat]
    /\ newest \in [Deployments -> 0..MaxTime]
    /\ forgotten \subseteq Deployments
    /\ stale \subseteq Deliveries
    /\ dropped \subseteq Deliveries

Init ==
    /\ event = [d \in Deliveries |-> NoEvent]
    /\ linked = {}
    /\ recorded = {}
    /\ nodes = {}
    /\ receipt = [p \in Deployments |-> NoReceipt]
    /\ audit = {}
    /\ latest = [p \in Deployments |-> 0]
    /\ pc = [h \in Handlers |-> "idle"]
    /\ delivery = [h \in Handlers |-> NoDelivery]
    /\ outOfOrder = [h \in Handlers |-> FALSE]
    /\ processed = [d \in Deliveries |-> 0]
    /\ newest = [p \in Deployments |-> 0]
    /\ forgotten = {}
    /\ stale = {}
    /\ dropped = {}

-----------------------------------------------------------------------------
(* The world around the endpoint *)

(* GitHub reports a state of a deployment; the delivery keeps its content  *)
(* however often it is made.                                               *)
Emit(d) ==
    /\ event[d] = NoEvent
    /\ \E e \in Events : event' = [event EXCEPT ![d] = e]
    /\ UNCHANGED <<storeVars, latest, handlerVars, historyVars>>

(* The dispatch or reconciliation use case records the deployment's id on  *)
(* the attempt, possibly after GitHub has reported on it.                  *)
Link(p) ==
    /\ p \notin linked
    /\ linked' = linked \cup {p}
    /\ UNCHANGED <<event, recorded, nodes, receipt, audit, latest, handlerVars, historyVars>>

-----------------------------------------------------------------------------
(* Deduplication and ordering: WebhookIngestionUseCase::ingest *)

Goto(h, step) ==
    /\ pc' = [pc EXCEPT ![h] = step]
    /\ UNCHANGED <<delivery, outOfOrder>>

Return(h) ==
    /\ pc' = [pc EXCEPT ![h] = "idle"]
    /\ delivery' = [delivery EXCEPT ![h] = NoDelivery]
    /\ outOfOrder' = [outOfOrder EXCEPT ![h] = FALSE]

\* The first read lets a known delivery go.
Receive(h) ==
    /\ pc[h] = "idle"
    /\ \E d \in Deliveries \ recorded :
          /\ event[d] # NoEvent
          /\ delivery' = [delivery EXCEPT ![h] = d]
    /\ pc' = [pc EXCEPT ![h] = "record"]
    /\ UNCHANGED <<outOfOrder, event, storeVars, latest, historyVars>>

\* Mutant: the store accepts a delivery it has.
IsNewDelivery_Always(d) == TRUE

IsNewDelivery(d) == d \notin recorded

\* The insert lets one of the handlers pass that read before either wrote.
RecordDelivery(h) ==
    /\ pc[h] = "record"
    /\ \/ /\ IsNewDelivery(delivery[h])
          /\ recorded' = recorded \cup {delivery[h]}
          /\ processed' = [processed EXCEPT ![delivery[h]] = @ + 1]
          /\ Goto(h, "track")
       \/ /\ ~IsNewDelivery(delivery[h])
          /\ Return(h)
          /\ UNCHANGED <<recorded, processed>>
    /\ UNCHANGED <<event, linked, nodes, receipt, audit, latest, newest, forgotten, stale, dropped>>

Later(a, b) == IF a > b THEN a ELSE b

\* Mutant: the tracker keeps the event it saw last, not the newest one.
NextLatest_Last(p, at) == at

NextLatest(p, at) == Later(latest[p], at)

Precedes(at, p) == at < latest[p]

\* LastReceivedTracker::record, under its lock.
Track(h) ==
    LET e == event[delivery[h]] IN
    /\ pc[h] = "track"
    /\ outOfOrder' = [outOfOrder EXCEPT ![h] = Precedes(e.at, e.deployment)]
    /\ latest' = [latest EXCEPT ![e.deployment] = NextLatest(e.deployment, e.at)]
    /\ stale' = IF e.at < newest[e.deployment] THEN stale \cup {delivery[h]} ELSE stale
    /\ newest' = [newest EXCEPT ![e.deployment] = Later(@, e.at)]
    /\ pc' = [pc EXCEPT ![h] = "auditIngest"]
    /\ UNCHANGED <<delivery, event, storeVars, processed, forgotten, dropped>>

AuditIngest(h) ==
    /\ pc[h] = "auditIngest"
    /\ audit' = audit \cup {<<IF outOfOrder[h] THEN "outOfOrder" ELSE "ingested", delivery[h]>>}
    /\ Goto(h, "process")
    /\ UNCHANGED <<event, linked, recorded, nodes, receipt, latest, historyVars>>

-----------------------------------------------------------------------------
(* ReceiptProducingProcessor::process and produce_receipt_from_webhook *)

Terminal(state) == state \in {"success", "failure", "error"}

Outcome(state) ==
    CASE state = "success" -> "succeeded"
      [] state \in {"failure", "error"} -> "failed"
      [] OTHER -> "unknown"

(* The order judged by the tracker is not passed on to what follows. *)
Process(h) ==
    /\ pc[h] = "process"
    /\ Goto(h, IF Terminal(event[delivery[h]].state) THEN "findAttempt" ELSE "deferred")
    /\ UNCHANGED <<event, storeVars, latest, historyVars>>

\* Mutant: an event without an attempt is dealt with like one that is not terminal.
FindAttempt_Quiet(h) ==
    /\ pc[h] = "findAttempt"
    /\ Goto(h, IF event[delivery[h]].deployment \in linked THEN "observe" ELSE "deferred")
    /\ UNCHANGED <<event, storeVars, latest, historyVars>>

FindAttempt(h) ==
    /\ pc[h] = "findAttempt"
    /\ Goto(h, IF event[delivery[h]].deployment \in linked THEN "observe" ELSE "notFound")
    /\ UNCHANGED <<event, storeVars, latest, historyVars>>

Observation(e) == [deployment |-> e.deployment, kind |-> "observation", about |-> e.state]

Claim(e) == [deployment |-> e.deployment, kind |-> "claim", about |-> Outcome(e.state)]

IsNewNode(node) == node \notin nodes

(* Node identifiers do not depend on the delivery: a node that an earlier  *)
(* delivery inserted is an error, and the production stops there.          *)
InsertNode(h, step, node, next) ==
    /\ pc[h] = step
    /\ \/ /\ IsNewNode(node)
          /\ nodes' = nodes \cup {node}
          /\ Goto(h, next)
       \/ /\ ~IsNewNode(node)
          /\ Goto(h, "error")
          /\ UNCHANGED nodes
    /\ UNCHANGED <<event, linked, recorded, receipt, audit, latest, historyVars>>

\* Mutant: the receipt is inserted before the claim it refers to.
InsertObservation_ReceiptNext(h) ==
    InsertNode(h, "observe", Observation(event[delivery[h]]), "insertReceipt")

InsertObservation(h) ==
    InsertNode(h, "observe", Observation(event[delivery[h]]), "claim")

\* Mutant: the insert is repeated after it has succeeded.
InsertClaim_Repeated(h) ==
    InsertNode(h, "claim", Claim(event[delivery[h]]), "claim")

InsertClaim(h) ==
    InsertNode(h, "claim", Claim(event[delivery[h]]), "insertReceipt")

\* Mutant: a later delivery replaces the receipt.
IsNewReceipt_Upsert(p) == TRUE

IsNewReceipt(p) == receipt[p] = NoReceipt

InsertReceipt(h) ==
    LET e == event[delivery[h]] IN
    /\ pc[h] = "insertReceipt"
    /\ \/ /\ IsNewReceipt(e.deployment)
          /\ receipt' = [receipt EXCEPT ![e.deployment] =
                            [outcome |-> Outcome(e.state), observed |-> e.state]]
          /\ Goto(h, "auditReceipt")
       \/ /\ ~IsNewReceipt(e.deployment)
          /\ Goto(h, "error")
          /\ UNCHANGED receipt
    /\ UNCHANGED <<event, linked, recorded, nodes, audit, latest, historyVars>>

AuditReceipt(h) ==
    /\ pc[h] = "auditReceipt"
    /\ audit' = audit \cup {<<"receipt", delivery[h]>>}
    /\ Goto(h, "produced")
    /\ UNCHANGED <<event, linked, recorded, nodes, receipt, latest, historyVars>>

(* The processor's verdict is audited and then the webhook's, which here   *)
(* are one event.  A failure to write it is ignored (or, for a state that  *)
(* is not terminal, audited in turn), and GitHub is answered 200 always.   *)
Conclude(h) ==
    /\ pc[h] \in ConcludingSteps
    /\ \/ audit' = audit \cup {<<pc[h], delivery[h]>>} /\ UNCHANGED dropped
       \/ MayFail /\ UNCHANGED audit /\ dropped' = dropped \cup {delivery[h]}
    /\ Return(h)
    /\ UNCHANGED <<event, linked, recorded, nodes, receipt, latest,
                   processed, newest, forgotten, stale>>

-----------------------------------------------------------------------------

(* A storage error before the processor runs is answered with a 500, and a *)
(* client that disconnects ends its handler wherever it awaits: the        *)
(* delivery may be on record already, and then nothing takes it up again.  *)
(* A storage error in the processor is audited.                            *)
Interrupted(h) ==
    /\ MayFail
    /\ \/ /\ pc[h] # "idle"
          /\ Return(h)
          /\ dropped' = IF pc[h] = "record" THEN dropped ELSE dropped \cup {delivery[h]}
       \/ pc[h] \in ProduceSteps /\ Goto(h, "error") /\ UNCHANGED dropped
    /\ UNCHANGED <<event, storeVars, latest, processed, newest, forgotten, stale>>

(* The tracker lives in memory; the stores survive. *)
Restart ==
    /\ MayRestart
    /\ pc' = [h \in Handlers |-> "idle"]
    /\ delivery' = [h \in Handlers |-> NoDelivery]
    /\ outOfOrder' = [h \in Handlers |-> FALSE]
    /\ latest' = [p \in Deployments |-> 0]
    /\ forgotten' = {p \in Deployments : newest[p] > 0}
    /\ dropped' = dropped \cup {delivery[h] : h \in {x \in Handlers : pc[x] \notin {"idle", "record"}}}
    /\ UNCHANGED <<event, storeVars, processed, newest, stale>>

HandlerStep(h) ==
    \/ RecordDelivery(h) \/ Track(h) \/ AuditIngest(h)
    \/ Process(h) \/ FindAttempt(h) \/ InsertObservation(h) \/ InsertClaim(h)
    \/ InsertReceipt(h) \/ AuditReceipt(h) \/ Conclude(h)

Next ==
    \/ \E d \in Deliveries : Emit(d)
    \/ \E p \in Deployments : Link(p)
    \/ \E h \in Handlers : Receive(h) \/ HandlerStep(h) \/ Interrupted(h)
    \/ Restart

Spec == Init /\ [][Next]_vars

\* A request that was received is handled to its end.
FairSpec == Spec /\ \A h \in Handlers : WF_vars(HandlerStep(h))

-----------------------------------------------------------------------------

\* However often and however concurrently GitHub makes a delivery, one handler
\* processes it.
ProcessedOnce == \A d \in Deliveries : processed[d] <= 1

\* A receipt refers to nodes that are in the store, and it claims what GitHub
\* reported in a terminal state of this very deployment.
ReceiptIsEvidenced ==
    \A p \in Deployments : receipt[p] # NoReceipt =>
        LET r == receipt[p] IN
        /\ [deployment |-> p, kind |-> "observation", about |-> r.observed] \in nodes
        /\ [deployment |-> p, kind |-> "claim", about |-> r.outcome] \in nodes
        /\ r.outcome \in {"succeeded", "failed"}
        /\ r.outcome = "succeeded" <=> r.observed = "success"
        /\ \E d \in recorded : event[d].deployment = p /\ event[d].state = r.observed

\* "Receipts are append-only": no later, earlier or repeated event changes the
\* outcome on record.
ReceiptIsFinal ==
    [][\A p \in Deployments : receipt[p] # NoReceipt => receipt'[p] = receipt[p]]_vars

\* Without failures and restarts, a deployment that was linked when GitHub
\* reported its end gets its receipt: of concurrent deliveries that trip over
\* each other's nodes, one gets through.
LinkedEndIsReceipted ==
    \A d \in Deliveries :
        (\E h \in Handlers : pc[h] = "observe" /\ delivery[h] = d)
            ~> (event[d] # NoEvent /\ receipt[event[d].deployment] # NoReceipt)

\* An event is called out of order exactly when a newer one of its deployment was seen
\* before it, however deliveries race; only a restart in between is an excuse.
\* (webhook_ingestion.rs makes no such exception: it "flags an event whose provider
\* timestamp precedes the newest event already seen for that deployment".)
FlaggedWhenStale ==
    \A d \in Deliveries :
        /\ <<"outOfOrder", d>> \in audit => d \in stale
        /\ <<"ingested", d>> \in audit /\ d \in stale => event[d].deployment \in forgotten

Handled(d) == \E h \in Handlers : delivery[h] = d /\ pc[h] # "record"

\* No terminal event disappears in silence.  A delivery that was recorded, so that GitHub's
\* retries of it are duplicates from then on, has given its deployment a receipt, or the
\* audit log says that no attempt was found for it or that producing the receipt failed;
\* only a failure to write just that, an error before the processor ran, a client that
\* disconnected, or a restart in the middle, is an excuse.
LossIsOnRecord ==
    \A d \in recorded :
        Terminal(event[d].state) /\ ~Handled(d) =>
            \/ receipt[event[d].deployment] # NoReceipt
            \/ <<"notFound", d>> \in audit \/ <<"error", d>> \in audit
            \/ d \in dropped

-----------------------------------------------------------------------------
(* The inductive strengthening of the four invariants above *)

\* Past its insert a handler works on a delivery that is its own.
Owns(h, d) == pc[h] \notin {"idle", "record"} /\ delivery[h] = d

DeliveryIsOwned ==
    /\ \A h \in Handlers : pc[h] # "idle" =>
          delivery[h] \in Deliveries /\ event[delivery[h]] # NoEvent
    /\ \A h \in Handlers, d \in Deliveries : Owns(h, d) => d \in recorded
    /\ \A h, k \in Handlers, d \in Deliveries : Owns(h, d) /\ Owns(k, d) => h = k
    /\ \A d \in recorded : event[d] # NoEvent
    /\ \A d \in Deliveries : processed[d] = IF d \in recorded THEN 1 ELSE 0

\* What a handler relies on at each step of producing a receipt.
HandlerKnows ==
    \A h \in Handlers :
        LET e == event[delivery[h]] IN
        /\ pc[h] \in ProduceSteps => Terminal(e.state)
        /\ pc[h] = "deferred" => ~Terminal(e.state)
        /\ pc[h] \in {"claim", "insertReceipt"} => Observation(e) \in nodes
        /\ pc[h] = "insertReceipt" => Claim(e) \in nodes
        /\ pc[h] \in {"auditReceipt", "produced"} => receipt[e.deployment] # NoReceipt

\* The tracker is behind the truth only for deployments a restart made it forget.
TrackerIsRight ==
    \A p \in Deployments :
        /\ latest[p] <= newest[p]
        /\ p \notin forgotten => latest[p] = newest[p]
        /\ p \in forgotten => newest[p] > 0

\* A delivery is judged once, by its owner, and the judgement is not yet audited
\* before.
JudgedOnce ==
    /\ \A d \in Deliveries :
          (d \notin recorded \/ \E h \in Handlers : pc[h] = "track" /\ delivery[h] = d) =>
              d \notin stale /\ <<"ingested", d>> \notin audit /\ <<"outOfOrder", d>> \notin audit
    /\ \A h \in Handlers : pc[h] = "auditIngest" =>
          LET d == delivery[h] IN
          /\ outOfOrder[h] => d \in stale
          /\ ~outOfOrder[h] /\ d \in stale => event[d].deployment \in forgotten

\* A terminal delivery has been concluded on record, or is in its owner's hands.
LossIsTold ==
    \A d \in recorded : Terminal(event[d].state) =>
        \/ \E h \in Handlers : Owns(h, d)
        \/ receipt[event[d].deployment] # NoReceipt
        \/ <<"notFound", d>> \in audit \/ <<"error", d>> \in audit
        \/ d \in dropped

\* What every step of the handlers, of GitHub and of a restart preserves.
WInv ==
    /\ TypeOK
    /\ DeliveryIsOwned
    /\ HandlerKnows
    /\ ReceiptIsEvidenced
    /\ TrackerIsRight
    /\ JudgedOnce
    /\ FlaggedWhenStale
    /\ LossIsTold

=============================================================================
