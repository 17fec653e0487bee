----------------------- MODULE WebhookReceiptsProofs -----------------------
(***************************************************************************)
(* Theorems about WebhookReceipts, for every set of deliveries,            *)
(* deployments, states and handlers, with or without failures and          *)
(* restarts.                                                               *)
(***************************************************************************)
EXTENDS WebhookReceipts, TLAPS

-----------------------------------------------------------------------------
(* Types *)

\* No step of a handler, of GitHub or of a restart leaves the declared types.
LEMMA TypeStep == TypeOK /\ DeliveryIsOwned /\ [Next]_vars => TypeOK'
<1> SUFFICES ASSUME TypeOK, DeliveryIsOwned, [Next]_vars PROVE TypeOK'
  OBVIOUS
<1> USE ConstantsAssumption
<1> USE DEF TypeOK, DeliveryIsOwned, Events, Outcomes, Nodes, Steps, IngestSteps,
            ProduceSteps, ConcludingSteps, storeVars, historyVars, handlerVars
<1>1. ASSUME NEW d \in Deliveries, Emit(d) PROVE TypeOK'
  BY <1>1 DEF Emit
<1>2. ASSUME NEW p \in Deployments, Link(p) PROVE TypeOK'
  BY <1>2 DEF Link
<1>3. ASSUME NEW h \in Handlers, Receive(h) PROVE TypeOK'
  BY <1>3 DEF Receive
<1>4. ASSUME NEW h \in Handlers, RecordDelivery(h) PROVE TypeOK'
  <2>1. delivery[h] \in Deliveries
    BY <1>4 DEF RecordDelivery
  <2>2. CASE IsNewDelivery(delivery[h])
    BY <1>4, <2>1, <2>2 DEF RecordDelivery, Goto
  <2>3. CASE ~IsNewDelivery(delivery[h])
    <3>1. Return(h) /\ UNCHANGED <<recorded, processed>>
      BY <1>4, <2>3 DEF RecordDelivery
    <3> QED
      BY <1>4, <3>1 DEF RecordDelivery, Return
  <2> QED
    BY <2>2, <2>3
<1>5. ASSUME NEW h \in Handlers, Track(h) PROVE TypeOK'
  BY <1>5 DEF Track, Precedes, NextLatest, Later
<1>6. ASSUME NEW h \in Handlers, AuditIngest(h) PROVE TypeOK'
  BY <1>6 DEF AuditIngest, Goto
<1>7. ASSUME NEW h \in Handlers, Process(h) PROVE TypeOK'
  BY <1>7 DEF Process, Goto
<1>8. ASSUME NEW h \in Handlers, FindAttempt(h) PROVE TypeOK'
  BY <1>8 DEF FindAttempt, Goto
<1>9. ASSUME NEW h \in Handlers, InsertObservation(h) PROVE TypeOK'
  BY <1>9 DEF InsertObservation, InsertNode, IsNewNode, Goto, Observation
<1>10. ASSUME NEW h \in Handlers, InsertClaim(h) PROVE TypeOK'
  BY <1>10 DEF InsertClaim, InsertNode, IsNewNode, Goto, Claim, Outcome
<1>11. ASSUME NEW h \in Handlers, InsertReceipt(h) PROVE TypeOK'
  BY <1>11 DEF InsertReceipt, IsNewReceipt, Goto, Outcome
<1>12. ASSUME NEW h \in Handlers, AuditReceipt(h) PROVE TypeOK'
  BY <1>12 DEF AuditReceipt, Goto
<1>13. ASSUME NEW h \in Handlers, Conclude(h) PROVE TypeOK'
  BY <1>13 DEF Conclude, Return
<1>14. ASSUME NEW h \in Handlers, Interrupted(h) PROVE TypeOK'
  BY <1>14 DEF Interrupted, Goto, Return
<1>15. ASSUME Restart PROVE TypeOK'
  BY <1>15 DEF Restart
<1>16. CASE UNCHANGED vars
  BY <1>16 DEF vars
<1> QED
  BY <1>1, <1>2, <1>3, <1>4, <1>5, <1>6, <1>7, <1>8, <1>9, <1>10, <1>11, <1>12, <1>13, <1>14, <1>15, <1>16
  DEF Next, HandlerStep

-----------------------------------------------------------------------------
(* The invariant, one part at a time *)

\* Nothing has been reported and nobody is at work.
LEMMA InvInit == Init => WInv
<1> SUFFICES ASSUME Init PROVE WInv
  OBVIOUS
<1>1. TypeOK
  BY ConstantsAssumption DEF Init, TypeOK, Steps
<1>2. DeliveryIsOwned /\ HandlerKnows /\ ReceiptIsEvidenced /\ TrackerIsRight
  BY DEF Init, DeliveryIsOwned, Owns, HandlerKnows, ProduceSteps, ReceiptIsEvidenced,
         TrackerIsRight
<1>3. JudgedOnce /\ FlaggedWhenStale /\ LossIsTold
  BY DEF Init, JudgedOnce, FlaggedWhenStale, LossIsTold
<1> QED
  BY <1>1, <1>2, <1>3 DEF WInv

\* A delivery has one owner: the insert lets one handler pass, and nobody takes
\* the delivery from it.
LEMMA DeliveryIsOwnedStep == ASSUME WInv, [Next]_vars, TypeOK' PROVE DeliveryIsOwned'
<1> USE ConstantsAssumption
<1> USE DEF WInv, TypeOK, DeliveryIsOwned, Owns, Events,
            IngestSteps, ProduceSteps, ConcludingSteps, Terminal,
            storeVars, historyVars, handlerVars
<1>1. ASSUME NEW d \in Deliveries, Emit(d) PROVE DeliveryIsOwned'
  BY <1>1 DEF Emit
<1>2. ASSUME NEW p \in Deployments, Link(p) PROVE DeliveryIsOwned'
  BY <1>2 DEF Link
<1>3. ASSUME NEW h \in Handlers, Receive(h) PROVE DeliveryIsOwned'
  BY <1>3 DEF Receive
<1>4. ASSUME NEW h \in Handlers, RecordDelivery(h) PROVE DeliveryIsOwned'
  BY <1>4 DEF RecordDelivery, IsNewDelivery, Goto, Return
<1>5. ASSUME NEW h \in Handlers, Track(h) PROVE DeliveryIsOwned'
  BY <1>5 DEF Track, Precedes, NextLatest, Later
<1>6. ASSUME NEW h \in Handlers, AuditIngest(h) PROVE DeliveryIsOwned'
  BY <1>6 DEF AuditIngest, Goto
<1>7. ASSUME NEW h \in Handlers, Process(h) PROVE DeliveryIsOwned'
  BY <1>7 DEF Process, Goto
<1>8. ASSUME NEW h \in Handlers, FindAttempt(h) PROVE DeliveryIsOwned'
  BY <1>8 DEF FindAttempt, Goto
<1>9. ASSUME NEW h \in Handlers, InsertObservation(h) PROVE DeliveryIsOwned'
  BY <1>9 DEF InsertObservation, InsertNode, IsNewNode, Goto, Observation
<1>10. ASSUME NEW h \in Handlers, InsertClaim(h) PROVE DeliveryIsOwned'
  BY <1>10 DEF InsertClaim, InsertNode, IsNewNode, Goto, Claim, Outcome
<1>11. ASSUME NEW h \in Handlers, InsertReceipt(h) PROVE DeliveryIsOwned'
  BY <1>11 DEF InsertReceipt, IsNewReceipt, Goto, Outcome
<1>12. ASSUME NEW h \in Handlers, AuditReceipt(h) PROVE DeliveryIsOwned'
  BY <1>12 DEF AuditReceipt, Goto
<1>13. ASSUME NEW h \in Handlers, Conclude(h) PROVE DeliveryIsOwned'
  BY <1>13 DEF Conclude, Return
<1>14. ASSUME NEW h \in Handlers, Interrupted(h) PROVE DeliveryIsOwned'
  BY <1>14 DEF Interrupted, Goto, Return
<1>15. ASSUME Restart PROVE DeliveryIsOwned'
  BY <1>15 DEF Restart
<1>16. CASE UNCHANGED vars
  BY <1>16 DEF vars
<1> QED
  BY <1>1, <1>2, <1>3, <1>4, <1>5, <1>6, <1>7, <1>8, <1>9, <1>10, <1>11, <1>12, <1>13, <1>14, <1>15, <1>16
  DEF Next, HandlerStep

\* What a handler relies on stays true while others insert nodes and receipts.
LEMMA HandlerKnowsStep == ASSUME WInv, [Next]_vars, TypeOK' PROVE HandlerKnows'
<1> USE ConstantsAssumption
<1> USE DEF WInv, TypeOK, DeliveryIsOwned, HandlerKnows, Owns, Events,
            IngestSteps, ProduceSteps, ConcludingSteps, Terminal,
            storeVars, historyVars, handlerVars
<1>1. ASSUME NEW d \in Deliveries, Emit(d) PROVE HandlerKnows'
  BY <1>1 DEF Emit
<1>2. ASSUME NEW p \in Deployments, Link(p) PROVE HandlerKnows'
  BY <1>2 DEF Link
<1>3. ASSUME NEW h \in Handlers, Receive(h) PROVE HandlerKnows'
  BY <1>3 DEF Receive
<1>4. ASSUME NEW h \in Handlers, RecordDelivery(h) PROVE HandlerKnows'
  BY <1>4 DEF RecordDelivery, IsNewDelivery, Goto, Return
<1>5. ASSUME NEW h \in Handlers, Track(h) PROVE HandlerKnows'
  BY <1>5 DEF Track, Precedes, NextLatest, Later
<1>6. ASSUME NEW h \in Handlers, AuditIngest(h) PROVE HandlerKnows'
  BY <1>6 DEF AuditIngest, Goto
<1>7. ASSUME NEW h \in Handlers, Process(h) PROVE HandlerKnows'
  BY <1>7 DEF Process, Goto
<1>8. ASSUME NEW h \in Handlers, FindAttempt(h) PROVE HandlerKnows'
  BY <1>8 DEF FindAttempt, Goto
<1>9. ASSUME NEW h \in Handlers, InsertObservation(h) PROVE HandlerKnows'
  BY <1>9 DEF InsertObservation, InsertNode, IsNewNode, Goto, Observation
<1>10. ASSUME NEW h \in Handlers, InsertClaim(h) PROVE HandlerKnows'
  BY <1>10 DEF InsertClaim, InsertNode, IsNewNode, Goto, Claim, Outcome
<1>11. ASSUME NEW h \in Handlers, InsertReceipt(h) PROVE HandlerKnows'
  BY <1>11 DEF InsertReceipt, IsNewReceipt, Goto, Outcome
<1>12. ASSUME NEW h \in Handlers, AuditReceipt(h) PROVE HandlerKnows'
  BY <1>12 DEF AuditReceipt, Goto
<1>13. ASSUME NEW h \in Handlers, Conclude(h) PROVE HandlerKnows'
  BY <1>13 DEF Conclude, Return
<1>14. ASSUME NEW h \in Handlers, Interrupted(h) PROVE HandlerKnows'
  BY <1>14 DEF Interrupted, Goto, Return
<1>15. ASSUME Restart PROVE HandlerKnows'
  BY <1>15 DEF Restart
<1>16. CASE UNCHANGED vars
  BY <1>16 DEF vars
<1> QED
  BY <1>1, <1>2, <1>3, <1>4, <1>5, <1>6, <1>7, <1>8, <1>9, <1>10, <1>11, <1>12, <1>13, <1>14, <1>15, <1>16
  DEF Next, HandlerStep

\* A receipt is inserted after the nodes it refers to, and nodes are never removed.
LEMMA ReceiptIsEvidencedStep == ASSUME WInv, [Next]_vars, TypeOK' PROVE ReceiptIsEvidenced'
<1> USE ConstantsAssumption
<1> USE DEF WInv, TypeOK, DeliveryIsOwned, ReceiptIsEvidenced, HandlerKnows, Owns, Events,
            IngestSteps, ProduceSteps, ConcludingSteps, Terminal,
            storeVars, historyVars, handlerVars
<1>1. ASSUME NEW d \in Deliveries, Emit(d) PROVE ReceiptIsEvidenced'
  BY <1>1 DEF Emit
<1>2. ASSUME NEW p \in Deployments, Link(p) PROVE ReceiptIsEvidenced'
  BY <1>2 DEF Link
<1>3. ASSUME NEW h \in Handlers, Receive(h) PROVE ReceiptIsEvidenced'
  BY <1>3 DEF Receive
<1>4. ASSUME NEW h \in Handlers, RecordDelivery(h) PROVE ReceiptIsEvidenced'
  BY <1>4 DEF RecordDelivery, IsNewDelivery, Goto, Return
<1>5. ASSUME NEW h \in Handlers, Track(h) PROVE ReceiptIsEvidenced'
  BY <1>5 DEF Track, Precedes, NextLatest, Later
<1>6. ASSUME NEW h \in Handlers, AuditIngest(h) PROVE ReceiptIsEvidenced'
  BY <1>6 DEF AuditIngest, Goto
<1>7. ASSUME NEW h \in Handlers, Process(h) PROVE ReceiptIsEvidenced'
  BY <1>7 DEF Process, Goto
<1>8. ASSUME NEW h \in Handlers, FindAttempt(h) PROVE ReceiptIsEvidenced'
  BY <1>8 DEF FindAttempt, Goto
<1>9. ASSUME NEW h \in Handlers, InsertObservation(h) PROVE ReceiptIsEvidenced'
  BY <1>9 DEF InsertObservation, InsertNode, IsNewNode, Goto, Observation
<1>10. ASSUME NEW h \in Handlers, InsertClaim(h) PROVE ReceiptIsEvidenced'
  BY <1>10 DEF InsertClaim, InsertNode, IsNewNode, Goto, Claim, Outcome
<1>11. ASSUME NEW h \in Handlers, InsertReceipt(h) PROVE ReceiptIsEvidenced'
  <2> DEFINE d == delivery[h]
             e == event[d]
  <2>1. /\ pc[h] = "insertReceipt" /\ Owns(h, d) /\ d \in recorded /\ e \in Events
        /\ UNCHANGED <<event, recorded, nodes>>
    BY <1>11 DEF InsertReceipt
  <2>2. Terminal(e.state) /\ Observation(e) \in nodes /\ Claim(e) \in nodes
    BY ONLY WInv, <2>1 DEF WInv, HandlerKnows, ProduceSteps
  <2>3. CASE UNCHANGED receipt
    BY <2>1, <2>3
  <2>4. CASE receipt' = [receipt EXCEPT ![e.deployment] =
                            [outcome |-> Outcome(e.state), observed |-> e.state]]
    <3>1. /\ Outcome(e.state) \in {"succeeded", "failed"}
          /\ Outcome(e.state) = "succeeded" <=> e.state = "success"
      BY ONLY <2>2 DEF Outcome, Terminal
    <3> SUFFICES ASSUME NEW p \in Deployments, receipt'[p] # NoReceipt
                 PROVE  LET r == receipt'[p] IN
                        /\ [deployment |-> p, kind |-> "observation", about |-> r.observed] \in nodes
                        /\ [deployment |-> p, kind |-> "claim", about |-> r.outcome] \in nodes
                        /\ r.outcome \in {"succeeded", "failed"}
                        /\ r.outcome = "succeeded" <=> r.observed = "success"
                        /\ \E x \in recorded : event[x].deployment = p /\ event[x].state = r.observed
      BY <2>1 DEF ReceiptIsEvidenced
    <3>2. CASE p = e.deployment
      <4>1. receipt'[p] = [outcome |-> Outcome(e.state), observed |-> e.state]
        BY <2>4, <3>2
      <4> QED
        BY ONLY <2>1, <2>2, <3>1, <3>2, <4>1 DEF Observation, Claim
    <3>3. CASE p # e.deployment
      BY <2>4, <3>3
    <3> QED
      BY <3>2, <3>3
  <2> QED
    BY <1>11, <2>3, <2>4 DEF InsertReceipt
<1>12. ASSUME NEW h \in Handlers, AuditReceipt(h) PROVE ReceiptIsEvidenced'
  BY <1>12 DEF AuditReceipt, Goto
<1>13. ASSUME NEW h \in Handlers, Conclude(h) PROVE ReceiptIsEvidenced'
  BY <1>13 DEF Conclude, Return
<1>14. ASSUME NEW h \in Handlers, Interrupted(h) PROVE ReceiptIsEvidenced'
  BY <1>14 DEF Interrupted, Goto, Return
<1>15. ASSUME Restart PROVE ReceiptIsEvidenced'
  BY <1>15 DEF Restart
<1>16. CASE UNCHANGED vars
  BY <1>16 DEF vars
<1> QED
  BY <1>1, <1>2, <1>3, <1>4, <1>5, <1>6, <1>7, <1>8, <1>9, <1>10, <1>11, <1>12, <1>13, <1>14, <1>15, <1>16
  DEF Next, HandlerStep

\* The tracker and the true newest time advance together, until a restart.
LEMMA TrackerIsRightStep == ASSUME WInv, [Next]_vars, TypeOK' PROVE TrackerIsRight'
<1> USE ConstantsAssumption
<1> USE DEF WInv, TypeOK, DeliveryIsOwned, TrackerIsRight, Owns, Events,
            IngestSteps, ProduceSteps, ConcludingSteps, Terminal,
            storeVars, historyVars, handlerVars
<1>1. ASSUME NEW d \in Deliveries, Emit(d) PROVE TrackerIsRight'
  BY <1>1 DEF Emit
<1>2. ASSUME NEW p \in Deployments, Link(p) PROVE TrackerIsRight'
  BY <1>2 DEF Link
<1>3. ASSUME NEW h \in Handlers, Receive(h) PROVE TrackerIsRight'
  BY <1>3 DEF Receive
<1>4. ASSUME NEW h \in Handlers, RecordDelivery(h) PROVE TrackerIsRight'
  BY <1>4 DEF RecordDelivery, IsNewDelivery, Goto, Return
<1>5. ASSUME NEW h \in Handlers, Track(h) PROVE TrackerIsRight'
  BY <1>5 DEF Track, Precedes, NextLatest, Later
<1>6. ASSUME NEW h \in Handlers, AuditIngest(h) PROVE TrackerIsRight'
  BY <1>6 DEF AuditIngest, Goto
<1>7. ASSUME NEW h \in Handlers, Process(h) PROVE TrackerIsRight'
  BY <1>7 DEF Process, Goto
<1>8. ASSUME NEW h \in Handlers, FindAttempt(h) PROVE TrackerIsRight'
  BY <1>8 DEF FindAttempt, Goto
<1>9. ASSUME NEW h \in Handlers, InsertObservation(h) PROVE TrackerIsRight'
  BY <1>9 DEF InsertObservation, InsertNode, IsNewNode, Goto, Observation
<1>10. ASSUME NEW h \in Handlers, InsertClaim(h) PROVE TrackerIsRight'
  BY <1>10 DEF InsertClaim, InsertNode, IsNewNode, Goto, Claim, Outcome
<1>11. ASSUME NEW h \in Handlers, InsertReceipt(h) PROVE TrackerIsRight'
  BY <1>11 DEF InsertReceipt, IsNewReceipt, Goto, Outcome
<1>12. ASSUME NEW h \in Handlers, AuditReceipt(h) PROVE TrackerIsRight'
  BY <1>12 DEF AuditReceipt, Goto
<1>13. ASSUME NEW h \in Handlers, Conclude(h) PROVE TrackerIsRight'
  BY <1>13 DEF Conclude, Return
<1>14. ASSUME NEW h \in Handlers, Interrupted(h) PROVE TrackerIsRight'
  BY <1>14 DEF Interrupted, Goto, Return
<1>15. ASSUME Restart PROVE TrackerIsRight'
  BY <1>15 DEF Restart
<1>16. CASE UNCHANGED vars
  BY <1>16 DEF vars
<1> QED
  BY <1>1, <1>2, <1>3, <1>4, <1>5, <1>6, <1>7, <1>8, <1>9, <1>10, <1>11, <1>12, <1>13, <1>14, <1>15, <1>16
  DEF Next, HandlerStep

\* Each delivery is judged by its owner, against the tracker's entry.
LEMMA JudgedOnceStep == ASSUME WInv, [Next]_vars, TypeOK' PROVE JudgedOnce'
<1> USE ConstantsAssumption
<1> USE DEF WInv, TypeOK, DeliveryIsOwned, JudgedOnce, TrackerIsRight, Owns, Events,
            IngestSteps, ProduceSteps, ConcludingSteps, Terminal,
            storeVars, historyVars, handlerVars
<1>1. ASSUME NEW d \in Deliveries, Emit(d) PROVE JudgedOnce'
  BY <1>1 DEF Emit
<1>2. ASSUME NEW p \in Deployments, Link(p) PROVE JudgedOnce'
  BY <1>2 DEF Link
<1>3. ASSUME NEW h \in Handlers, Receive(h) PROVE JudgedOnce'
  BY <1>3 DEF Receive
<1>4. ASSUME NEW h \in Handlers, RecordDelivery(h) PROVE JudgedOnce'
  BY <1>4 DEF RecordDelivery, IsNewDelivery, Goto, Return
<1>5. ASSUME NEW h \in Handlers, Track(h) PROVE JudgedOnce'
  <2> DEFINE d == delivery[h]
             e == event[d]
  <2>1. /\ pc[h] = "track" /\ d \in recorded /\ e \in Events
        /\ outOfOrder' = [outOfOrder EXCEPT ![h] = e.at < latest[e.deployment]]
        /\ stale' = IF e.at < newest[e.deployment] THEN stale \cup {d} ELSE stale
        /\ pc' = [pc EXCEPT ![h] = "auditIngest"]
        /\ UNCHANGED <<delivery, event, recorded, audit, forgotten>>
    BY <1>5 DEF Track, Precedes
  <2>2. \A k \in Handlers \ {h} : Owns(k, d) => FALSE
    BY <2>1
  <2>3. d \notin stale
    BY <2>1
  <2>4. /\ e.at \in Nat /\ latest[e.deployment] \in Nat /\ newest[e.deployment] \in Nat
        /\ latest[e.deployment] <= newest[e.deployment]
        /\ e.deployment \notin forgotten => latest[e.deployment] = newest[e.deployment]
    BY <2>1
  <2>5. /\ outOfOrder'[h] => d \in stale'
        /\ ~outOfOrder'[h] /\ d \in stale' => e.deployment \in forgotten
    <3>0. outOfOrder'[h] = (e.at < latest[e.deployment])
      <4>1. outOfOrder \in [Handlers -> BOOLEAN]
        OBVIOUS
      <4> QED
        BY ONLY <2>1, <4>1, h \in Handlers, Zenon
    <3>1. CASE e.at < latest[e.deployment]
      <4>1. e.at < newest[e.deployment]
        BY ONLY <2>4, <3>1
      <4>2. outOfOrder'[h]
        BY ONLY <3>0, <3>1, Zenon
      <4> QED
        BY ONLY <2>1, <4>1, <4>2
    <3>2. CASE ~(e.at < latest[e.deployment])
      <4>1. e.deployment \notin forgotten => ~(e.at < newest[e.deployment])
        BY ONLY <2>4, <3>2
      <4>2. ~outOfOrder'[h]
        BY ONLY <3>0, <3>2, Zenon
      <4> QED
        BY ONLY <2>1, <2>3, <4>1, <4>2
    <3> QED
      BY <3>1, <3>2
  <2>6. ASSUME NEW k \in Handlers, pc'[k] = "auditIngest"
        PROVE  /\ outOfOrder'[k] => delivery[k] \in stale'
               /\ ~outOfOrder'[k] /\ delivery[k] \in stale' =>
                     event[delivery[k]].deployment \in forgotten
    <3>1. CASE k = h
      BY <2>5, <3>1
    <3>2. CASE k # h
      <4>1. pc[k] = "auditIngest" /\ outOfOrder'[k] = outOfOrder[k] /\ delivery[k] # d
        BY <2>1, <2>2, <2>6, <3>2
      <4> QED
        BY <2>1, <4>1
    <3> QED
      BY <3>1, <3>2
  <2>7. ASSUME NEW x \in Deliveries,
               x \notin recorded \/ \E k \in Handlers : pc'[k] = "track" /\ delivery[k] = x
        PROVE  x \notin stale' /\ <<"ingested", x>> \notin audit /\ <<"outOfOrder", x>> \notin audit
    <3>1. x # d /\ (x \notin recorded \/ \E k \in Handlers : pc[k] = "track" /\ delivery[k] = x)
      BY <2>1, <2>2, <2>7
    <3> QED
      BY <2>1, <3>1
  <2> QED
    BY <2>1, <2>6, <2>7
<1>6. ASSUME NEW h \in Handlers, AuditIngest(h) PROVE JudgedOnce'
  BY <1>6 DEF AuditIngest, Goto
<1>7. ASSUME NEW h \in Handlers, Process(h) PROVE JudgedOnce'
  BY <1>7 DEF Process, Goto
<1>8. ASSUME NEW h \in Handlers, FindAttempt(h) PROVE JudgedOnce'
  BY <1>8 DEF FindAttempt, Goto
<1>9. ASSUME NEW h \in Handlers, InsertObservation(h) PROVE JudgedOnce'
  BY <1>9 DEF InsertObservation, InsertNode, IsNewNode, Goto, Observation
<1>10. ASSUME NEW h \in Handlers, InsertClaim(h) PROVE JudgedOnce'
  BY <1>10 DEF InsertClaim, InsertNode, IsNewNode, Goto, Claim, Outcome
<1>11. ASSUME NEW h \in Handlers, InsertReceipt(h) PROVE JudgedOnce'
  BY <1>11 DEF InsertReceipt, IsNewReceipt, Goto, Outcome
<1>12. ASSUME NEW h \in Handlers, AuditReceipt(h) PROVE JudgedOnce'
  BY <1>12 DEF AuditReceipt, Goto
<1>13. ASSUME NEW h \in Handlers, Conclude(h) PROVE JudgedOnce'
  BY <1>13 DEF Conclude, Return
<1>14. ASSUME NEW h \in Handlers, Interrupted(h) PROVE JudgedOnce'
  BY <1>14 DEF Interrupted, Goto, Return
<1>15. ASSUME Restart PROVE JudgedOnce'
  BY <1>15 DEF Restart
<1>16. CASE UNCHANGED vars
  BY <1>16 DEF vars
<1> QED
  BY <1>1, <1>2, <1>3, <1>4, <1>5, <1>6, <1>7, <1>8, <1>9, <1>10, <1>11, <1>12, <1>13, <1>14, <1>15, <1>16
  DEF Next, HandlerStep

\* The audit event repeats the judgement.
LEMMA FlaggedWhenStaleStep == ASSUME WInv, [Next]_vars, TypeOK' PROVE FlaggedWhenStale'
<1> USE ConstantsAssumption
<1> USE DEF WInv, TypeOK, DeliveryIsOwned, FlaggedWhenStale, JudgedOnce, Owns, Events,
            IngestSteps, ProduceSteps, ConcludingSteps, Terminal,
            storeVars, historyVars, handlerVars
<1>1. ASSUME NEW d \in Deliveries, Emit(d) PROVE FlaggedWhenStale'
  <2>1. \A x \in recorded : event'[x] = event[x]
    BY <1>1 DEF Emit
  <2> QED
    BY <1>1, <2>1 DEF Emit
<1>2. ASSUME NEW p \in Deployments, Link(p) PROVE FlaggedWhenStale'
  BY <1>2 DEF Link
<1>3. ASSUME NEW h \in Handlers, Receive(h) PROVE FlaggedWhenStale'
  BY <1>3 DEF Receive
<1>4. ASSUME NEW h \in Handlers, RecordDelivery(h) PROVE FlaggedWhenStale'
  BY <1>4 DEF RecordDelivery, IsNewDelivery, Goto, Return
<1>5. ASSUME NEW h \in Handlers, Track(h) PROVE FlaggedWhenStale'
  BY <1>5 DEF Track, Precedes, NextLatest, Later
<1>6. ASSUME NEW h \in Handlers, AuditIngest(h) PROVE FlaggedWhenStale'
  <2> DEFINE d == delivery[h]
  <2>1. /\ pc[h] = "auditIngest" /\ d \in Deliveries
        /\ audit' = audit \cup {<<IF outOfOrder[h] THEN "outOfOrder" ELSE "ingested", d>>}
        /\ UNCHANGED <<event, stale, forgotten>>
    BY <1>6 DEF AuditIngest
  <2>2. /\ outOfOrder[h] => d \in stale
        /\ ~outOfOrder[h] /\ d \in stale => event[d].deployment \in forgotten
    BY <2>1
  <2>3. \A x \in Deliveries :
           /\ <<"outOfOrder", x>> \in audit' => <<"outOfOrder", x>> \in audit \/ (x = d /\ outOfOrder[h])
           /\ <<"ingested", x>> \in audit' => <<"ingested", x>> \in audit \/ (x = d /\ ~outOfOrder[h])
    BY ONLY <2>1
  <2>4. FlaggedWhenStale
    OBVIOUS
  <2> QED
    BY ONLY <2>1, <2>2, <2>3, <2>4, Zenon DEF FlaggedWhenStale
<1>7. ASSUME NEW h \in Handlers, Process(h) PROVE FlaggedWhenStale'
  BY <1>7 DEF Process, Goto
<1>8. ASSUME NEW h \in Handlers, FindAttempt(h) PROVE FlaggedWhenStale'
  BY <1>8 DEF FindAttempt, Goto
<1>9. ASSUME NEW h \in Handlers, InsertObservation(h) PROVE FlaggedWhenStale'
  BY <1>9 DEF InsertObservation, InsertNode, IsNewNode, Goto, Observation
<1>10. ASSUME NEW h \in Handlers, InsertClaim(h) PROVE FlaggedWhenStale'
  BY <1>10 DEF InsertClaim, InsertNode, IsNewNode, Goto, Claim, Outcome
<1>11. ASSUME NEW h \in Handlers, InsertReceipt(h) PROVE FlaggedWhenStale'
  BY <1>11 DEF InsertReceipt, IsNewReceipt, Goto, Outcome
<1>12. ASSUME NEW h \in Handlers, AuditReceipt(h) PROVE FlaggedWhenStale'
  BY <1>12 DEF AuditReceipt, Goto
<1>13. ASSUME NEW h \in Handlers, Conclude(h) PROVE FlaggedWhenStale'
  <2>1. /\ pc[h] \in ConcludingSteps /\ UNCHANGED <<event, stale, forgotten>>
        /\ audit' = audit \cup {<<pc[h], delivery[h]>>} \/ audit' = audit
    BY <1>13 DEF Conclude
  <2>2. \A x \in Deliveries : /\ <<"outOfOrder", x>> \in audit' => <<"outOfOrder", x>> \in audit
                              /\ <<"ingested", x>> \in audit' => <<"ingested", x>> \in audit
    BY ONLY <2>1 DEF ConcludingSteps
  <2> QED
    BY <2>1, <2>2
<1>14. ASSUME NEW h \in Handlers, Interrupted(h) PROVE FlaggedWhenStale'
  BY <1>14 DEF Interrupted, Goto, Return
<1>15. ASSUME Restart PROVE FlaggedWhenStale'
  <2>1. forgotten \subseteq forgotten' /\ UNCHANGED <<event, audit, stale>>
    BY <1>15 DEF Restart, TrackerIsRight
  <2> QED
    BY <2>1
<1>16. CASE UNCHANGED vars
  BY <1>16 DEF vars
<1> QED
  BY <1>1, <1>2, <1>3, <1>4, <1>5, <1>6, <1>7, <1>8, <1>9, <1>10, <1>11, <1>12, <1>13, <1>14, <1>15, <1>16
  DEF Next, HandlerStep

\* Nobody lets go of a terminal delivery without a trace, except by a failure.
LEMMA LossIsToldStep == ASSUME WInv, [Next]_vars, TypeOK' PROVE LossIsTold'
<1> USE ConstantsAssumption
<1> USE DEF WInv, TypeOK, DeliveryIsOwned, LossIsTold, HandlerKnows, Owns, Events,
            IngestSteps, ProduceSteps, ConcludingSteps, Terminal,
            storeVars, historyVars, handlerVars
<1>1. ASSUME NEW d \in Deliveries, Emit(d) PROVE LossIsTold'
  BY <1>1 DEF Emit
<1>2. ASSUME NEW p \in Deployments, Link(p) PROVE LossIsTold'
  BY <1>2 DEF Link
<1>3. ASSUME NEW h \in Handlers, Receive(h) PROVE LossIsTold'
  BY <1>3 DEF Receive
<1>4. ASSUME NEW h \in Handlers, RecordDelivery(h) PROVE LossIsTold'
  BY <1>4 DEF RecordDelivery, IsNewDelivery, Goto, Return
<1>5. ASSUME NEW h \in Handlers, Track(h) PROVE LossIsTold'
  BY <1>5 DEF Track, Precedes, NextLatest, Later
<1>6. ASSUME NEW h \in Handlers, AuditIngest(h) PROVE LossIsTold'
  BY <1>6 DEF AuditIngest, Goto
<1>7. ASSUME NEW h \in Handlers, Process(h) PROVE LossIsTold'
  BY <1>7 DEF Process, Goto
<1>8. ASSUME NEW h \in Handlers, FindAttempt(h) PROVE LossIsTold'
  BY <1>8 DEF FindAttempt, Goto
<1>9. ASSUME NEW h \in Handlers, InsertObservation(h) PROVE LossIsTold'
  BY <1>9 DEF InsertObservation, InsertNode, IsNewNode, Goto, Observation
<1>10. ASSUME NEW h \in Handlers, InsertClaim(h) PROVE LossIsTold'
  BY <1>10 DEF InsertClaim, InsertNode, IsNewNode, Goto, Claim, Outcome
<1>11. ASSUME NEW h \in Handlers, InsertReceipt(h) PROVE LossIsTold'
  BY <1>11 DEF InsertReceipt, IsNewReceipt, Goto, Outcome
<1>12. ASSUME NEW h \in Handlers, AuditReceipt(h) PROVE LossIsTold'
  BY <1>12 DEF AuditReceipt, Goto
<1>13. ASSUME NEW h \in Handlers, Conclude(h) PROVE LossIsTold'
  BY <1>13 DEF Conclude, Return
<1>14. ASSUME NEW h \in Handlers, Interrupted(h) PROVE LossIsTold'
  BY <1>14 DEF Interrupted, Goto, Return
<1>15. ASSUME Restart PROVE LossIsTold'
  BY <1>15 DEF Restart
<1>16. CASE UNCHANGED vars
  BY <1>16 DEF vars
<1> QED
  BY <1>1, <1>2, <1>3, <1>4, <1>5, <1>6, <1>7, <1>8, <1>9, <1>10, <1>11, <1>12, <1>13, <1>14, <1>15, <1>16
  DEF Next, HandlerStep

\* The inductive invariant of webhook ingestion and receipt production.
THEOREM InductiveInvariant == Spec => []WInv
<1>1. WInv /\ [Next]_vars => WInv'
  <2> SUFFICES ASSUME WInv, [Next]_vars PROVE WInv'
    OBVIOUS
  <2>1. TypeOK'
    BY TypeStep DEF WInv
  <2> QED
    BY <2>1, DeliveryIsOwnedStep, HandlerKnowsStep, ReceiptIsEvidencedStep,
       TrackerIsRightStep, JudgedOnceStep, FlaggedWhenStaleStep, LossIsToldStep
    DEF WInv
<1> QED
  BY <1>1, InvInit, PTL DEF Spec

-----------------------------------------------------------------------------

\* However often and concurrently GitHub makes a delivery, it is processed once.
THEOREM DeliveryProcessedOnce == Spec => []ProcessedOnce
<1>1. WInv => ProcessedOnce
  <2> SUFFICES ASSUME WInv, NEW d \in Deliveries PROVE processed[d] <= 1
    BY DEF ProcessedOnce
  <2>1. processed[d] = 0 \/ processed[d] = 1
    BY DEF WInv, DeliveryIsOwned
  <2> QED
    BY ONLY <2>1
<1> QED
  BY <1>1, InductiveInvariant, PTL

\* A receipt refers to stored nodes and claims what GitHub reported.
THEOREM ReceiptsAreEvidenced == Spec => []ReceiptIsEvidenced
<1>1. WInv => ReceiptIsEvidenced
  BY DEF WInv
<1> QED
  BY <1>1, InductiveInvariant, PTL

\* An event is flagged out of order exactly when it is, but for restarts.
THEOREM StaleIsFlagged == Spec => []FlaggedWhenStale
<1>1. WInv => FlaggedWhenStale
  BY DEF WInv
<1> QED
  BY <1>1, InductiveInvariant, PTL

\* No terminal event disappears in silence, but for failures and restarts.
THEOREM NoSilentLoss == Spec => []LossIsOnRecord
<1>1. WInv => LossIsOnRecord
  BY DEF WInv, TypeOK, LossIsTold, LossIsOnRecord, Handled, Owns
<1> QED
  BY <1>1, InductiveInvariant, PTL

\* Receipts are append-only: the one insert of a receipt never finds its row taken.
THEOREM ReceiptsAreAppendOnly == Spec => ReceiptIsFinal
<1>1. ASSUME WInv, [Next]_vars, NEW p \in Deployments, receipt[p] # NoReceipt
      PROVE  receipt'[p] = receipt[p]
  <2>1. ASSUME NEW h \in Handlers, InsertReceipt(h) PROVE receipt'[p] = receipt[p]
    BY <1>1, <2>1 DEF InsertReceipt, IsNewReceipt, WInv, TypeOK
  <2>2. ASSUME NEW h \in Handlers,
               \/ Receive(h) \/ RecordDelivery(h) \/ Track(h) \/ AuditIngest(h) \/ Process(h)
               \/ FindAttempt(h) \/ InsertObservation(h) \/ InsertClaim(h) \/ AuditReceipt(h)
               \/ Conclude(h) \/ Interrupted(h)
        PROVE  UNCHANGED receipt
    BY <2>2 DEF Receive, RecordDelivery, Track, AuditIngest, Process, FindAttempt,
       InsertObservation, InsertClaim, InsertNode, AuditReceipt, Conclude, Interrupted,
       storeVars
  <2>3. ASSUME \/ \E d \in Deliveries : Emit(d)
               \/ \E q \in Deployments : Link(q)
               \/ Restart
               \/ UNCHANGED vars
        PROVE  UNCHANGED receipt
    BY <2>3 DEF Emit, Link, Restart, vars, storeVars
  <2> QED
    BY <1>1, <2>1, <2>2, <2>3 DEF Next, HandlerStep
<1>2. WInv /\ [Next]_vars =>
         [\A p \in Deployments : receipt[p] # NoReceipt => receipt'[p] = receipt[p]]_vars
  BY <1>1
<1> QED
  BY <1>2, InductiveInvariant, PTL DEF Spec, ReceiptIsFinal

=============================================================================
