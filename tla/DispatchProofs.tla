--------------------------- MODULE DispatchProofs ---------------------------
(***************************************************************************)
(* Theorems about Dispatch, for every set of mandates, requests, callers   *)
(* and deployments, with or without failures.  The first half is about     *)
(* callers that present any version.  The second is about callers that     *)
(* present the versions those in the repository present: dispatchers the   *)
(* version of an issued projection, operators that of a quarantined one.   *)
(* The version column then tells the state, each swap is won once, and the *)
(* handlers implement the mandate's life cycle.                            *)
(***************************************************************************)
EXTENDS Dispatch, TLAPS

-----------------------------------------------------------------------------
(* Type correctness *)

\* Either outcome of an operator's swap keeps the types.
LEMMA OperatorCasType ==
    ASSUME TypeOK, NEW o \in Operators, NEW step, NEW new \in MandateStates,
           NEW next \in OperatorSteps \ {"idle"}, step # "idle",
           OperatorCas(o, step, new, next)
    PROVE  TypeOK'
<1> DEFINE m == ojob[o].mandate
<1>1. ojob[o] \in OperatorJobs /\ m \in Mandates
  BY DEF OperatorCas, TypeOK, OperatorJobs
<1>2. UNCHANGED <<request, failed, attempt, recorded, receipts, audit, inflight, deployed,
                  calls, dispatched, pc, job, reply>>
  BY DEF OperatorCas, quietVars, providerVars, dispatcherVars
<1>3. CASE VersionMatches(m, ojob[o].expected)
  BY <1>1, <1>2, <1>3 DEF OperatorCas, Swap, OGoto, TypeOK
<1>4. CASE ~VersionMatches(m, ojob[o].expected)
  <2>1. UNCHANGED <<mstate, version>> /\ OReturn(o)
    BY <1>4 DEF OperatorCas
  <2> QED
    BY <1>2, <2>1 DEF OReturn, TypeOK, OperatorSteps, DeploymentOrNone
<1> QED
  BY <1>3, <1>4

\* Either outcome of the swap that settles a reservation keeps the types.
LEMMA CompleteCasType ==
    ASSUME TypeOK, NEW p \in Dispatchers, NEW step, NEW new \in MandateStates,
           NEW next \in DispatcherSteps \ {"idle"}, step # "idle",
           CompleteCas(p, step, new, next)
    PROVE  TypeOK'
<1> DEFINE m == job[p].mandate
<1>1. job[p] \in Jobs /\ m \in Mandates
  BY DEF CompleteCas, TypeOK, Jobs
<1>2. UNCHANGED <<request, failed, attempt, recorded, receipts, audit, inflight, deployed,
                  calls, dispatched, opc, ojob, seen, found>>
  BY DEF CompleteCas, quietVars, providerVars, operatorVars
<1>3. CASE VersionMatches(m, job[p].expected + 1)
  BY <1>1, <1>2, <1>3 DEF CompleteCas, Swap, Goto, TypeOK
<1>4. CASE ~VersionMatches(m, job[p].expected + 1)
  <2>1. UNCHANGED <<mstate, version>> /\ Return(p)
    BY <1>4 DEF CompleteCas
  <2> QED
    BY <1>2, <2>1 DEF Return, TypeOK, DispatcherSteps, DeploymentOrNone
<1> QED
  BY <1>3, <1>4

\* No step of any handler, nor of its environment, leaves the declared types.
LEMMA TypeStep == TypeOK /\ [Next]_vars => TypeOK'
<1> SUFFICES ASSUME TypeOK, [Next]_vars PROVE TypeOK'
  OBVIOUS
<1> USE ConstantsAssumption
<1> USE DEF TypeOK, RequestStatuses, MandateStates, AttemptStates, AuditActions,
            DeploymentOrNone, DispatcherSteps, ReserveSteps, ConflictSteps,
            CompleteSteps, OperatorSteps
<1>1. ASSUME NEW r \in Requests, Decide(r) PROVE TypeOK'
  BY <1>1 DEF Decide, storeVars, providerVars, dispatcherVars, operatorVars,
         quietVars
<1>2. ASSUME NEW r \in Requests, Revoke(r) PROVE TypeOK'
  BY <1>2 DEF Revoke, storeVars, providerVars, dispatcherVars, operatorVars,
         quietVars
<1>3. ASSUME NEW m \in Mandates, Issue(m) PROVE TypeOK'
  BY <1>3 DEF Issue, quietVars, providerVars, dispatcherVars, operatorVars,
         storeVars
<1>4. ASSUME NEW m \in Mandates, GitHubAccepts(m) PROVE TypeOK'
  BY <1>4 DEF GitHubAccepts, quietVars, storeVars, dispatcherVars,
         operatorVars, providerVars
<1>5. ASSUME NEW m \in Mandates, GitHubDrops(m) PROVE TypeOK'
  BY <1>5 DEF GitHubDrops, quietVars, storeVars, dispatcherVars,
         operatorVars, providerVars
<1>6. ASSUME NEW p \in Dispatchers, CheckRequest(p) PROVE TypeOK'
  BY <1>6 DEF CheckRequest, quietVars, storeVars, providerVars,
         operatorVars, Dispatchable, dispatcherVars, Jobs
<1>7. ASSUME NEW p \in Dispatchers, ReserveCas(p) PROVE TypeOK'
  BY <1>7 DEF ReserveCas, quietVars, providerVars, operatorVars,
         VersionMatches, Swap, Goto, Return, storeVars, dispatcherVars, Jobs
<1>8. ASSUME NEW p \in Dispatchers, InsertAttempt(p) PROVE TypeOK'
  BY <1>8 DEF InsertAttempt, quietVars, providerVars, operatorVars,
         SetAttempt, AttemptIsNew, Goto, Return, storeVars, dispatcherVars,
         Jobs
<1>9. ASSUME NEW p \in Dispatchers, MarkDispatching(p) PROVE TypeOK'
  BY <1>9 DEF MarkDispatching, quietVars, providerVars, operatorVars,
         SetAttempt, Goto, storeVars, dispatcherVars, Jobs
<1>10. ASSUME NEW p \in Dispatchers, AuditReserve(p) PROVE TypeOK'
  BY <1>10 DEF AuditReserve, quietVars, providerVars, operatorVars,
         WriteAudit, Goto, storeVars, dispatcherVars, Jobs
<1>11. ASSUME NEW p \in Dispatchers, CheckReplay(p) PROVE TypeOK'
  BY <1>11 DEF CheckReplay, quietVars, storeVars, providerVars,
         operatorVars, Goto, Return, Spent, dispatcherVars, SpentStates, Jobs
<1>12. ASSUME NEW p \in Dispatchers, AuditReplay(p) PROVE TypeOK'
  BY <1>12 DEF AuditReplay, quietVars, providerVars, operatorVars,
         WriteAudit, Return, storeVars, dispatcherVars, Jobs
<1>13. ASSUME NEW p \in Dispatchers, CallProvider(p) PROVE TypeOK'
  BY <1>13 DEF CallProvider, quietVars, storeVars, operatorVars, Goto,
         providerVars, dispatcherVars, Jobs
<1>14. ASSUME NEW p \in Dispatchers, ReceiveAccepted(p) PROVE TypeOK'
  BY <1>14 DEF ReceiveAccepted, quietVars, storeVars, providerVars,
         operatorVars, dispatcherVars, Jobs
<1>15. ASSUME NEW p \in Dispatchers, ReceiveNothing(p) PROVE TypeOK'
  BY <1>15 DEF ReceiveNothing, quietVars, storeVars, providerVars,
         operatorVars, Goto, dispatcherVars, Jobs
<1>16. ASSUME NEW p \in Dispatchers, MarkAccepted(p) PROVE TypeOK'
  BY <1>16 DEF MarkAccepted, quietVars, providerVars, operatorVars,
         SetAttempt, Goto, storeVars, dispatcherVars, Jobs
<1>17. ASSUME NEW p \in Dispatchers, RecordDeploymentId(p) PROVE TypeOK'
  BY <1>17 DEF RecordDeploymentId, quietVars, providerVars, operatorVars,
         Goto, storeVars, dispatcherVars, Jobs
<1>18. ASSUME NEW p \in Dispatchers, ConsumeCas(p) PROVE TypeOK'
  BY ONLY <1>18, TypeOK, CompleteCasType
     DEF ConsumeCas, MandateStates, DispatcherSteps, CompleteSteps
<1>19. ASSUME NEW p \in Dispatchers, MarkAmbiguous(p) PROVE TypeOK'
  BY <1>19 DEF MarkAmbiguous, quietVars, providerVars, operatorVars,
         SetAttempt, Goto, storeVars, dispatcherVars, Jobs
<1>20. ASSUME NEW p \in Dispatchers, QuarantineCas(p) PROVE TypeOK'
  BY ONLY <1>20, TypeOK, CompleteCasType
     DEF QuarantineCas, MandateStates, DispatcherSteps, CompleteSteps
<1>21. ASSUME NEW p \in Dispatchers, AuditCompletion(p) PROVE TypeOK'
  BY <1>21 DEF AuditCompletion, quietVars, providerVars, operatorVars,
         WriteAudit, Return, storeVars, dispatcherVars, Jobs
<1>22. ASSUME NEW p \in Dispatchers, DispatcherFails(p) PROVE TypeOK'
  BY <1>22 DEF DispatcherFails, quietVars, storeVars, providerVars,
         operatorVars, Return, dispatcherVars, Jobs
<1>23. ASSUME NEW o \in Operators, CheckQuarantined(o) PROVE TypeOK'
  BY <1>23 DEF CheckQuarantined, quietVars, storeVars, providerVars,
         dispatcherVars, operatorVars, OperatorJobs
<1>24. ASSUME NEW o \in Operators, FindAttempt(o) PROVE TypeOK'
  BY <1>24 DEF FindAttempt, quietVars, storeVars, providerVars,
         dispatcherVars, OReturn, operatorVars, OperatorJobs
<1>25. ASSUME NEW o \in Operators, QueryProvider(o) PROVE TypeOK'
  BY <1>25 DEF QueryProvider, quietVars, storeVars, providerVars,
         dispatcherVars, OReturn, Correlated, operatorVars, OperatorJobs
<1>26. ASSUME NEW o \in Operators, ReconcileCas(o) PROVE TypeOK'
  <2>1. (IF seen[o] # found[o] THEN "recordFound" ELSE "markReconciled")
          \in OperatorSteps \ {"idle"}
    OBVIOUS
  <2> QED
    BY ONLY <1>26, <2>1, TypeOK, OperatorCasType DEF ReconcileCas, MandateStates
<1>27. ASSUME NEW o \in Operators, RecordFoundId(o) PROVE TypeOK'
  BY <1>27 DEF RecordFoundId, quietVars, providerVars, dispatcherVars,
         OGoto, storeVars, operatorVars, OperatorJobs
<1>28. ASSUME NEW o \in Operators, MarkReconciled(o) PROVE TypeOK'
  BY <1>28 DEF MarkReconciled, quietVars, providerVars, dispatcherVars,
         SetAttempt, OGoto, storeVars, operatorVars, OperatorJobs
<1>29. ASSUME NEW o \in Operators, AbandonCas(o) PROVE TypeOK'
  BY ONLY <1>29, TypeOK, OperatorCasType DEF AbandonCas, MandateStates, OperatorSteps
<1>30. ASSUME NEW o \in Operators, MarkAbandoned(o) PROVE TypeOK'
  BY <1>30 DEF MarkAbandoned, quietVars, providerVars, dispatcherVars,
         SetAttempt, OGoto, storeVars, operatorVars, OperatorJobs
<1>31. ASSUME NEW o \in Operators, InsertUnknownReceipt(o) PROVE TypeOK'
  BY <1>31 DEF InsertUnknownReceipt, quietVars, providerVars,
         dispatcherVars, OGoto, OReturn, storeVars, operatorVars, OperatorJobs
<1>32. ASSUME NEW o \in Operators, AuditResolution(o) PROVE TypeOK'
  BY <1>32 DEF AuditResolution, quietVars, providerVars, dispatcherVars,
         WriteAudit, OReturn, storeVars, operatorVars, OperatorJobs
<1>33. ASSUME NEW o \in Operators, OperatorFails(o) PROVE TypeOK'
  BY <1>33 DEF OperatorFails, quietVars, storeVars, providerVars,
         dispatcherVars, OReturn, operatorVars, OperatorJobs
<1>34. CASE UNCHANGED vars
  BY <1>34 DEF vars, quietVars, storeVars, providerVars, dispatcherVars, operatorVars
<1> QED
  BY <1>1, <1>2, <1>3, <1>4, <1>5, <1>6, <1>7, <1>8, <1>9, <1>10, <1>11,
     <1>12, <1>13, <1>14, <1>15, <1>16, <1>17, <1>18, <1>19, <1>20, <1>21,
     <1>22, <1>23, <1>24, <1>25, <1>26, <1>27, <1>28, <1>29, <1>30, <1>31,
     <1>32, <1>33, <1>34
  DEF Next, Environment, DispatcherStep, OperatorStep

\* The initial stores and idle callers have the declared types.
LEMMA TypeInit == Init => TypeOK
  BY ConstantsAssumption DEF Init, TypeOK, RequestStatuses, MandateStates, AttemptStates,
     DeploymentOrNone, DispatcherSteps, OperatorSteps

\* Every variable of the handlers and the stores keeps its type.
THEOREM TypeCorrect == Spec => []TypeOK
<1> QED
  BY TypeInit, TypeStep, PTL DEF Spec

-----------------------------------------------------------------------------
(* The safety of the critical path.  The four properties hold together     *)
(* only with what each caller knows at each of its steps: BeforeCall and   *)
(* SoleCaller say that the attempt row, inserted once per mandate, is what *)
(* keeps a second caller from sending, whichever versions are presented.   *)

\* No request has been sent, nothing is spent and nobody is at work.
LEMMA InvInit == Init => IInv
<1> SUFFICES ASSUME Init PROVE IInv
  OBVIOUS
<1>1. TypeOK
  BY TypeInit
<1>2. AtMostOneProviderCall /\ JournaledBeforeDispatch
  BY DEF Init, AtMostOneProviderCall, JournaledBeforeDispatch
<1>3. SpentMeansSent /\ NoSimulatedSuccess
  BY DEF Init, SpentMeansSent, NoSimulatedSuccess, SpentStates
<1>4. BeforeCall /\ SoleCaller /\ AfterCall /\ IdsAreReal
  BY DEF Init, BeforeCall, SoleCaller, AfterCall, IdsAreReal, CompleteSteps
<1>5. DispatchedWasApproved /\ AskedWhileApproved
  BY DEF Init, DispatchedWasApproved, AskedWhileApproved
<1> QED
  BY <1>1, <1>2, <1>3, <1>4, <1>5 DEF IInv

\* Every step of every caller, of GitHub and of the approver preserves IInv.
LEMMA InvStep == IInv /\ [Next]_vars => IInv'
<1> SUFFICES ASSUME IInv, [Next]_vars PROVE IInv'
  OBVIOUS
<1> TypeOK'
  BY TypeStep DEF IInv
<1> USE ConstantsAssumption
<1> USE DEF IInv, AtMostOneProviderCall, JournaledBeforeDispatch, SpentMeansSent,
            NoSimulatedSuccess, BeforeCall, SoleCaller, AfterCall, IdsAreReal,
            DispatchedWasApproved, AskedWhileApproved, SpentStates, CompleteSteps, TypeOK
<1>1. ASSUME NEW r \in Requests, Decide(r) PROVE IInv'
  BY <1>1 DEF Decide, storeVars, providerVars, dispatcherVars, operatorVars,
         quietVars
<1>2. ASSUME NEW r \in Requests, Revoke(r) PROVE IInv'
  BY <1>2 DEF Revoke, storeVars, providerVars, dispatcherVars, operatorVars,
         quietVars
<1>3. ASSUME NEW m \in Mandates, Issue(m) PROVE IInv'
  BY <1>3 DEF Issue, quietVars, providerVars, dispatcherVars, operatorVars,
         storeVars
<1>4. ASSUME NEW m \in Mandates, GitHubAccepts(m) PROVE IInv'
  BY <1>4 DEF GitHubAccepts, quietVars, storeVars, dispatcherVars,
         operatorVars, providerVars
<1>5. ASSUME NEW m \in Mandates, GitHubDrops(m) PROVE IInv'
  BY <1>5 DEF GitHubDrops, quietVars, storeVars, dispatcherVars,
         operatorVars, providerVars
<1>6. ASSUME NEW p \in Dispatchers, CheckRequest(p) PROVE IInv'
  BY <1>6 DEF CheckRequest, quietVars, storeVars, providerVars,
         operatorVars, Dispatchable, dispatcherVars, Jobs
<1>7. ASSUME NEW p \in Dispatchers, ReserveCas(p) PROVE IInv'
  <2> DEFINE m == job[p].mandate
  <2>1. /\ m \in Mandates /\ pc[p] = "reserve"
        /\ UNCHANGED <<request, attempt, recorded, receipts, audit, inflight, deployed,
                       calls, dispatched, opc, ojob, seen, found>>
    BY <1>7 DEF ReserveCas, quietVars, providerVars, operatorVars, Jobs
  <2>2. CASE /\ mstate' = [mstate EXCEPT ![m] = "reserved"]
             /\ pc' = [pc EXCEPT ![p] = "insert"]
             /\ UNCHANGED <<job, reply>>
    BY <2>1, <2>2
  <2>3. CASE UNCHANGED <<mstate, job, reply>> /\ pc' = [pc EXCEPT ![p] = "checkReplay"]
    BY <2>1, <2>3
  <2>4. CASE UNCHANGED mstate /\ Return(p)
    BY <2>1, <2>4 DEF Return
  <2> QED
    BY <1>7, <2>2, <2>3, <2>4 DEF ReserveCas, Swap, Goto
<1>8. ASSUME NEW p \in Dispatchers, InsertAttempt(p) PROVE IInv'
  <2> DEFINE m == job[p].mandate
  <2>1. /\ m \in Mandates /\ pc[p] = "insert"
        /\ UNCHANGED <<request, mstate, version, recorded, receipts, audit, inflight,
                       deployed, calls, dispatched, opc, ojob, seen, found>>
    BY <1>8 DEF InsertAttempt, quietVars, providerVars, operatorVars, Jobs
  <2>2. CASE /\ attempt[m] = "absent"
             /\ attempt' = [attempt EXCEPT ![m] = "prepared"]
             /\ pc' = [pc EXCEPT ![p] = "markDispatching"]
             /\ UNCHANGED <<job, reply>>
    <3>1. calls[m] = 0
      <4>1. calls[m] \in Nat
        BY <2>1
      <4>2. ~(calls[m] > 0)
        BY <2>1, <2>2
      <4> QED
        BY <4>1, <4>2
    <3>2. \A q \in Dispatchers :
             pc[q] \in {"markDispatching", "auditReserve", "send"} => job[q].mandate # m
      BY <2>2
    <3>3. BeforeCall' /\ SoleCaller'
      BY <2>1, <2>2, <3>1, <3>2
    <3>4. JournaledBeforeDispatch' /\ NoSimulatedSuccess'
      BY <2>1, <2>2, <3>1
    <3>5. AtMostOneProviderCall' /\ SpentMeansSent'
      BY <2>1
    <3>6. AfterCall' /\ IdsAreReal'
      BY <2>1, <2>2
    <3>7. DispatchedWasApproved' /\ AskedWhileApproved'
      BY <2>1, <2>2
    <3> QED
      BY <3>3, <3>4, <3>5, <3>6, <3>7
  <2>3. CASE UNCHANGED attempt /\ Return(p)
    BY <2>1, <2>3 DEF Return
  <2> QED
    BY <1>8, <2>2, <2>3 DEF InsertAttempt, SetAttempt, AttemptIsNew, Goto
<1>9. ASSUME NEW p \in Dispatchers, MarkDispatching(p) PROVE IInv'
  BY <1>9 DEF MarkDispatching, quietVars, providerVars, operatorVars,
         SetAttempt, Goto, storeVars, dispatcherVars, Jobs
<1>10. ASSUME NEW p \in Dispatchers, AuditReserve(p) PROVE IInv'
  BY <1>10 DEF AuditReserve, quietVars, providerVars, operatorVars,
         WriteAudit, Goto, storeVars, dispatcherVars, Jobs
<1>11. ASSUME NEW p \in Dispatchers, CheckReplay(p) PROVE IInv'
  <2>1. /\ job[p].mandate \in Mandates /\ pc[p] = "checkReplay"
        /\ UNCHANGED <<request, mstate, version, attempt, recorded, receipts, audit,
                       inflight, deployed, calls, dispatched, opc, ojob, seen, found>>
    BY <1>11 DEF CheckReplay, quietVars, storeVars, providerVars, operatorVars, Jobs
  <2>2. CASE Spent(job[p].mandate) /\ Goto(p, "auditReplay")
    <3>1. calls[job[p].mandate] = 1
      BY <2>1, <2>2 DEF Spent
    <3> QED
      BY <2>1, <2>2, <3>1 DEF Goto
  <2>3. CASE Return(p)
    BY <2>1, <2>3 DEF Return
  <2> QED
    BY <1>11, <2>2, <2>3 DEF CheckReplay
<1>12. ASSUME NEW p \in Dispatchers, AuditReplay(p) PROVE IInv'
  BY <1>12 DEF AuditReplay, quietVars, providerVars, operatorVars,
         WriteAudit, Return, storeVars, dispatcherVars, Jobs
<1>13. ASSUME NEW p \in Dispatchers, CallProvider(p) PROVE IInv'
  <2> DEFINE m == job[p].mandate
  <2>1. /\ m \in Mandates /\ pc[p] = "send"
        /\ UNCHANGED <<request, mstate, version, attempt, recorded, receipts, audit,
                       deployed, job, reply, opc, ojob, seen, found>>
        /\ calls' = [calls EXCEPT ![m] = @ + 1]
        /\ pc' = [pc EXCEPT ![p] = "await"]
    BY <1>13 DEF CallProvider, quietVars, storeVars, operatorVars, Goto, Jobs
  <2>2. /\ calls[m] = 0 /\ attempt[m] \notin {"absent", "prepared"}
        /\ <<"reserve", m>> \in audit
    BY <2>1
  <2>3. calls' = [calls EXCEPT ![m] = 1]
    BY <2>1, <2>2
  <2>4. \A q \in Dispatchers \ {p} :
           pc[q] \in {"markDispatching", "auditReserve", "send"} => job[q].mandate # m
    BY <2>1
  <2>5. BeforeCall' /\ SoleCaller'
    BY <2>1, <2>3, <2>4
  <2>6. JournaledBeforeDispatch' /\ AtMostOneProviderCall' /\ SpentMeansSent'
    BY <2>1, <2>2, <2>3
  <2>7. AfterCall' /\ NoSimulatedSuccess' /\ IdsAreReal'
    BY <2>1, <2>2, <2>3
  <2>8. DispatchedWasApproved' /\ AskedWhileApproved'
    BY <1>13, <2>1 DEF CallProvider
  <2> QED
    BY <2>5, <2>6, <2>7, <2>8
<1>14. ASSUME NEW p \in Dispatchers, ReceiveAccepted(p) PROVE IInv'
  BY <1>14 DEF ReceiveAccepted, quietVars, storeVars, providerVars,
         operatorVars, dispatcherVars, Jobs
<1>15. ASSUME NEW p \in Dispatchers, ReceiveNothing(p) PROVE IInv'
  BY <1>15 DEF ReceiveNothing, quietVars, storeVars, providerVars,
         operatorVars, Goto, dispatcherVars, Jobs
<1>16. ASSUME NEW p \in Dispatchers, MarkAccepted(p) PROVE IInv'
  BY <1>16 DEF MarkAccepted, quietVars, providerVars, operatorVars,
         SetAttempt, Goto, storeVars, dispatcherVars, Jobs
<1>17. ASSUME NEW p \in Dispatchers, RecordDeploymentId(p) PROVE IInv'
  BY <1>17 DEF RecordDeploymentId, quietVars, providerVars, operatorVars,
         Goto, storeVars, dispatcherVars, Jobs
<1>18. ASSUME NEW p \in Dispatchers, ConsumeCas(p) PROVE IInv'
  <2> DEFINE m == job[p].mandate
  <2>1. /\ m \in Mandates /\ pc[p] = "consume"
        /\ UNCHANGED <<request, attempt, recorded, receipts, audit, inflight, deployed,
                       calls, dispatched, opc, ojob, seen, found>>
    BY <1>18 DEF ConsumeCas, CompleteCas, quietVars, providerVars, operatorVars, Jobs
  <2>2. CASE /\ mstate' = [mstate EXCEPT ![m] = "consumed"]
             /\ Goto(p, "auditConsume")
    <3>1. calls[m] = 1
      BY <2>1
    <3> QED
      BY <2>1, <2>2, <3>1 DEF Goto
  <2>3. CASE UNCHANGED mstate /\ Return(p)
    BY <2>1, <2>3 DEF Return
  <2> QED
    BY <1>18, <2>2, <2>3 DEF ConsumeCas, CompleteCas, Swap
<1>19. ASSUME NEW p \in Dispatchers, MarkAmbiguous(p) PROVE IInv'
  BY <1>19 DEF MarkAmbiguous, quietVars, providerVars, operatorVars,
         SetAttempt, Goto, storeVars, dispatcherVars, Jobs
<1>20. ASSUME NEW p \in Dispatchers, QuarantineCas(p) PROVE IInv'
  <2> DEFINE m == job[p].mandate
  <2>1. /\ m \in Mandates /\ pc[p] = "quarantine"
        /\ UNCHANGED <<request, attempt, recorded, receipts, audit, inflight, deployed,
                       calls, dispatched, opc, ojob, seen, found>>
    BY <1>20 DEF QuarantineCas, CompleteCas, quietVars, providerVars, operatorVars, Jobs
  <2>2. CASE /\ mstate' = [mstate EXCEPT ![m] = "quarantined"]
             /\ Goto(p, "auditQuarantine")
    <3>1. calls[m] = 1
      BY <2>1
    <3> QED
      BY <2>1, <2>2, <3>1 DEF Goto
  <2>3. CASE UNCHANGED mstate /\ Return(p)
    BY <2>1, <2>3 DEF Return
  <2> QED
    BY <1>20, <2>2, <2>3 DEF QuarantineCas, CompleteCas, Swap
<1>21. ASSUME NEW p \in Dispatchers, AuditCompletion(p) PROVE IInv'
  BY <1>21 DEF AuditCompletion, quietVars, providerVars, operatorVars,
         WriteAudit, Return, storeVars, dispatcherVars, Jobs
<1>22. ASSUME NEW p \in Dispatchers, DispatcherFails(p) PROVE IInv'
  BY <1>22 DEF DispatcherFails, quietVars, storeVars, providerVars,
         operatorVars, Return, dispatcherVars, Jobs
<1>23. ASSUME NEW o \in Operators, CheckQuarantined(o) PROVE IInv'
  <2>1. PICK j \in OperatorJobs :
           mstate[j.mandate] = "quarantined" /\ ojob' = [ojob EXCEPT ![o] = j]
    BY <1>23 DEF CheckQuarantined
  <2>2. calls[j.mandate] = 1
    BY <2>1 DEF OperatorJobs
  <2>3. /\ opc' = [opc EXCEPT ![o] = "findAttempt"]
        /\ UNCHANGED <<request, mstate, version, attempt, recorded, receipts, audit,
                       inflight, deployed, calls, dispatched, pc, job, reply, seen, found>>
    BY <1>23 DEF CheckQuarantined, quietVars, storeVars, providerVars, dispatcherVars
  <2> QED
    BY <2>1, <2>2, <2>3
<1>24. ASSUME NEW o \in Operators, FindAttempt(o) PROVE IInv'
  BY <1>24 DEF FindAttempt, quietVars, storeVars, providerVars,
         dispatcherVars, OReturn, operatorVars, OperatorJobs
<1>25. ASSUME NEW o \in Operators, QueryProvider(o) PROVE IInv'
  BY <1>25 DEF QueryProvider, quietVars, storeVars, providerVars,
         dispatcherVars, OReturn, Correlated, operatorVars, OperatorJobs
<1>26. ASSUME NEW o \in Operators, ReconcileCas(o) PROVE IInv'
  <2> DEFINE m == ojob[o].mandate
  <2>1. /\ m \in Mandates /\ opc[o] = "reconcile"
        /\ UNCHANGED <<request, attempt, recorded, receipts, audit, inflight, deployed,
                       calls, dispatched, pc, job, reply>>
    BY <1>26 DEF ReconcileCas, OperatorCas, quietVars, providerVars, dispatcherVars,
                 OperatorJobs
  <2>2. CASE /\ mstate' = [mstate EXCEPT ![m] = "consumed"]
             /\ \E step \in {"recordFound", "markReconciled"} : OGoto(o, step)
    <3>1. calls[m] = 1 /\ found[o] \in deployed[m]
      BY <2>1
    <3> QED
      BY <2>1, <2>2, <3>1 DEF OGoto
  <2>3. CASE UNCHANGED mstate /\ OReturn(o)
    BY <2>1, <2>3 DEF OReturn
  <2> QED
    BY <1>26, <2>2, <2>3 DEF ReconcileCas, OperatorCas, Swap
<1>27. ASSUME NEW o \in Operators, RecordFoundId(o) PROVE IInv'
  BY <1>27 DEF RecordFoundId, quietVars, providerVars, dispatcherVars,
         OGoto, storeVars, operatorVars, OperatorJobs
<1>28. ASSUME NEW o \in Operators, MarkReconciled(o) PROVE IInv'
  BY <1>28 DEF MarkReconciled, quietVars, providerVars, dispatcherVars,
         SetAttempt, OGoto, storeVars, operatorVars, OperatorJobs
<1>29. ASSUME NEW o \in Operators, AbandonCas(o) PROVE IInv'
  <2> DEFINE m == ojob[o].mandate
  <2>1. /\ m \in Mandates /\ opc[o] = "abandon"
        /\ UNCHANGED <<request, attempt, recorded, receipts, audit, inflight, deployed,
                       calls, dispatched, pc, job, reply>>
    BY <1>29 DEF AbandonCas, OperatorCas, quietVars, providerVars, dispatcherVars,
                 OperatorJobs
  <2>2. CASE /\ mstate' = [mstate EXCEPT ![m] = "abandoned"]
             /\ OGoto(o, "markAbandoned")
    <3>1. calls[m] = 1
      BY <2>1
    <3> QED
      BY <2>1, <2>2, <3>1 DEF OGoto
  <2>3. CASE UNCHANGED mstate /\ OReturn(o)
    BY <2>1, <2>3 DEF OReturn
  <2> QED
    BY <1>29, <2>2, <2>3 DEF AbandonCas, OperatorCas, Swap
<1>30. ASSUME NEW o \in Operators, MarkAbandoned(o) PROVE IInv'
  BY <1>30 DEF MarkAbandoned, quietVars, providerVars, dispatcherVars,
         SetAttempt, OGoto, storeVars, operatorVars, OperatorJobs
<1>31. ASSUME NEW o \in Operators, InsertUnknownReceipt(o) PROVE IInv'
  BY <1>31 DEF InsertUnknownReceipt, quietVars, providerVars,
         dispatcherVars, OGoto, OReturn, storeVars, operatorVars, OperatorJobs
<1>32. ASSUME NEW o \in Operators, AuditResolution(o) PROVE IInv'
  BY <1>32 DEF AuditResolution, quietVars, providerVars, dispatcherVars,
         WriteAudit, OReturn, storeVars, operatorVars, OperatorJobs
<1>33. ASSUME NEW o \in Operators, OperatorFails(o) PROVE IInv'
  BY <1>33 DEF OperatorFails, quietVars, storeVars, providerVars,
         dispatcherVars, OReturn, operatorVars, OperatorJobs
<1>34. CASE UNCHANGED vars
  BY <1>34 DEF vars, quietVars, storeVars, providerVars, dispatcherVars, operatorVars
<1> QED
  BY <1>1, <1>2, <1>3, <1>4, <1>5, <1>6, <1>7, <1>8, <1>9, <1>10, <1>11,
     <1>12, <1>13, <1>14, <1>15, <1>16, <1>17, <1>18, <1>19, <1>20, <1>21,
     <1>22, <1>23, <1>24, <1>25, <1>26, <1>27, <1>28, <1>29, <1>30, <1>31,
     <1>32, <1>33, <1>34
  DEF Next, Environment, DispatcherStep, OperatorStep

\* The inductive invariant of dispatch and reconciliation.
THEOREM InductiveInvariant == Spec => []IInv
<1> QED
  BY InvInit, InvStep, PTL DEF Spec

\* GitHub is sent at most one create_deployment request per mandate.
THEOREM OneProviderCall == Spec => []AtMostOneProviderCall
<1>1. IInv => AtMostOneProviderCall
  BY DEF IInv
<1> QED
  BY <1>1, InductiveInvariant, PTL

\* What GitHub may have received was journalled before it was sent.
THEOREM DurableJournal == Spec => []JournaledBeforeDispatch
<1>1. IInv => JournaledBeforeDispatch
  BY DEF IInv
<1> QED
  BY <1>1, InductiveInvariant, PTL

\* A mandate counts as spent, or as replayed, only when its request was sent.
THEOREM SpentWasSent == Spec => []SpentMeansSent
<1>1. IInv => SpentMeansSent
  BY DEF IInv
<1> QED
  BY <1>1, InductiveInvariant, PTL

\* Nothing is consumed, accepted or correlated without GitHub's deployment.
THEOREM NoSuccessWithoutDeployment == Spec => []NoSimulatedSuccess
<1>1. IInv => NoSimulatedSuccess
  BY DEF IInv
<1> QED
  BY <1>1, InductiveInvariant, PTL

\* Nothing is sent under a request that no approver approved.
THEOREM OnlyApprovedDispatched == Spec => []DispatchedWasApproved
<1>1. IInv => DispatchedWasApproved
  BY DEF IInv
<1> QED
  BY <1>1, InductiveInvariant, PTL

-----------------------------------------------------------------------------
(* Callers that hold a reservation *)

\* A holder knows its mandate's state and that nobody else holds it.
LEMMA SoleHolder ==
    ASSUME VInv, NEW p \in Dispatchers, NEW m \in Mandates, Holding(p, m)
    PROVE  /\ mstate[m] = "reserved" /\ version[m] = 2
           /\ attempt[m] = AttemptAt(pc[p])
           /\ recorded[m] = NoDeployment <=> pc[p] # "consume"
           /\ \A q \in Dispatchers \ {p} : ~Holding(q, m)
  BY DEF VInv, VersionTellsState, OneConcurrentWinner, HolderKnows

\* Holders of other mandates are not disturbed by a holder's step, and the
\* holder itself only has to find its own mandate as its next step expects.
LEMMA HolderMoves ==
    ASSUME TypeOK, VInv, NEW p \in Dispatchers, NEW m \in Mandates, NEW step,
           \A q \in Dispatchers \ {p} : ~Holding(q, m),
           job[p].mandate = m, job' = job, pc' = [pc EXCEPT ![p] = step],
           \A n \in Mandates \ {m} : /\ mstate'[n] = mstate[n]
                                     /\ attempt'[n] = attempt[n]
                                     /\ recorded'[n] = recorded[n],
           Holding(p, m)' => /\ mstate'[m] = "reserved"
                             /\ attempt'[m] = AttemptAt(step)
                             /\ recorded'[m] = NoDeployment <=> step # "consume"
    PROVE  OneConcurrentWinner' /\ HolderKnows'
<1>1. pc'[p] = step /\ \A q \in Dispatchers \ {p} : pc'[q] = pc[q]
  BY DEF TypeOK
<1>2. \A q \in Dispatchers \ {p}, n \in Mandates :
         Holding(q, n)' => Holding(q, n) /\ n # m
  BY <1>1 DEF Holding
<1>3. \A n \in Mandates : Holding(p, n)' => n = m
  BY DEF Holding
<1>4. OneConcurrentWinner'
  BY <1>2, <1>3 DEF VInv, OneConcurrentWinner
<1>5. HolderKnows'
  <2> SUFFICES ASSUME NEW q \in Dispatchers, NEW n \in Mandates, Holding(q, n)'
               PROVE  /\ mstate'[n] = "reserved"
                      /\ attempt'[n] = AttemptAt(pc'[q])
                      /\ recorded'[n] = NoDeployment <=> pc'[q] # "consume"
    BY DEF HolderKnows, AttemptAt
  <2>1. CASE q = p
    BY <1>1, <1>3, <2>1
  <2>2. CASE q # p
    BY <1>1, <1>2, <2>2 DEF VInv, HolderKnows
  <2> QED
    BY <2>1, <2>2
<1> QED
  BY <1>4, <1>5

-----------------------------------------------------------------------------
(* Callers that give up *)

\* A dispatcher that returns, fails or loses its race, having changed nothing
\* in this step, leaves no reservation in hand and disturbs nobody.
LEMMA CallerLetsGo ==
    ASSUME TypeOK, VInv, NEW p \in Dispatchers,
           NEW step \in {"idle"} \cup ConflictSteps,
           pc' = [pc EXCEPT ![p] = step],
           job' = job \/ job' = [job EXCEPT ![p] = NoJob],
           UNCHANGED <<mstate, version, attempt, recorded, receipts, inflight, deployed,
                       calls, opc, ojob, seen>>
    PROVE  VInv'
<1> USE DEF TypeOK, ConflictSteps, Holding, ReserveSteps, CompleteSteps
<1>1. \A q \in Dispatchers, m \in Mandates :
         Holding(q, m)' => Holding(q, m) /\ pc'[q] = pc[q]
  OBVIOUS
<1>2. OneConcurrentWinner' /\ HolderKnows'
  BY <1>1 DEF VInv, OneConcurrentWinner, HolderKnows, AttemptAt
<1>3. VersionTellsState' /\ AttemptFollowsMandate' /\ ProviderActsOnce'
  BY DEF VInv, VersionTellsState, AttemptFollowsMandate, ProviderActsOnce
<1>4. OperatorKnows'
  BY DEF VInv, OperatorKnows, Reconciling, Abandoning
<1> QED
  BY <1>2, <1>3, <1>4 DEF VInv

\* Nor does an operator that returns without having changed anything.
LEMMA OperatorLetsGo ==
    ASSUME TypeOK, VInv, NEW o \in Operators, OReturn(o),
           UNCHANGED <<mstate, version, attempt, recorded, receipts, inflight, deployed,
                       calls, pc, job>>
    PROVE  VInv'
<1> USE DEF TypeOK
<1>1. \A q \in Operators : opc'[q] # "idle" =>
         opc'[q] = opc[q] /\ ojob'[q] = ojob[q] /\ seen'[q] = seen[q] /\ q # o
  BY DEF OReturn
<1>2. \A q \in Operators, m \in Mandates :
         /\ Reconciling(q, m)' => Reconciling(q, m)
         /\ Abandoning(q, m)' => Abandoning(q, m)
  BY <1>1 DEF Reconciling, Abandoning
<1>3. OperatorKnows'
  BY <1>1, <1>2 DEF VInv, OperatorKnows, Reconciling, Abandoning
<1>4. VersionTellsState' /\ AttemptFollowsMandate' /\ ProviderActsOnce'
  BY DEF VInv, VersionTellsState, AttemptFollowsMandate, ProviderActsOnce
<1>5. OneConcurrentWinner' /\ HolderKnows'
  BY DEF VInv, OneConcurrentWinner, HolderKnows, AttemptAt, Holding
<1> QED
  BY <1>3, <1>4, <1>5 DEF VInv

-----------------------------------------------------------------------------
(* The invariant of disciplined callers *)

\* Nothing is issued, and nobody is at work.
LEMMA VInvInit == Init => VInv
  BY ConstantsAssumption
  DEF Init, VInv, VersionTellsState, OneConcurrentWinner, Holding, HolderKnows,
      AttemptFollowsMandate, Reconciling, Abandoning, OperatorKnows, ProviderActsOnce,
      ReserveSteps, CompleteSteps

\* Every step of disciplined callers preserves VInv: a swap is won by the one
\* caller that holds the reservation, or by one operator of several.
LEMMA VInvStep == ASSUME Disciplined, IInv, VInv, [Next]_vars PROVE VInv'
<1> TypeOK /\ TypeOK'
  BY TypeStep DEF IInv
<1> USE ConstantsAssumption
<1> USE DEF VInv, VersionTellsState, OneConcurrentWinner, Holding, HolderKnows, AttemptAt,
            AttemptFollowsMandate, Reconciling, Abandoning, OperatorKnows, ProviderActsOnce,
            ReserveSteps, CompleteSteps, TypeOK, Jobs, OperatorJobs, Disciplined,
            quietVars, storeVars, providerVars, dispatcherVars, operatorVars
<1>1. ASSUME NEW r \in Requests, Decide(r) PROVE VInv'
  BY <1>1 DEF Decide
<1>2. ASSUME NEW r \in Requests, Revoke(r) PROVE VInv'
  BY <1>2 DEF Revoke
<1>3. ASSUME NEW m \in Mandates, Issue(m) PROVE VInv'
  BY <1>3 DEF Issue
<1>4. ASSUME NEW m \in Mandates, GitHubAccepts(m) PROVE VInv'
  BY <1>4 DEF GitHubAccepts
<1>5. ASSUME NEW m \in Mandates, GitHubDrops(m) PROVE VInv'
  BY <1>5 DEF GitHubDrops
<1>6. ASSUME NEW p \in Dispatchers, CheckRequest(p) PROVE VInv'
  BY <1>6 DEF CheckRequest, Dispatchable
<1>7. ASSUME NEW p \in Dispatchers, ReserveCas(p) PROVE VInv'
  <2> DEFINE m == job[p].mandate
  <2>1. /\ m \in Mandates /\ pc[p] = "reserve" /\ job[p].expected = 1
        /\ UNCHANGED <<attempt, recorded, receipts, audit, inflight, deployed, calls,
                       opc, ojob, seen, found>>
    BY <1>7 DEF ReserveCas
  <2>2. CASE version[m] = 1 /\ Swap(m, "reserved") /\ Goto(p, "insert")
    <3>1. mstate[m] = "issued" /\ attempt[m] = "absent" /\ recorded[m] = NoDeployment
      BY <2>1, <2>2
    <3>2. /\ mstate' = [mstate EXCEPT ![m] = "reserved"]
          /\ version' = [version EXCEPT ![m] = 2]
          /\ pc' = [pc EXCEPT ![p] = "insert"] /\ UNCHANGED <<job, reply>>
      BY <2>2 DEF Swap, Goto
    <3>3. VersionTellsState' /\ AttemptFollowsMandate'
      BY <2>1, <3>1, <3>2
    <3>4. OneConcurrentWinner' /\ HolderKnows'
      <4>1. \A q \in Dispatchers : ~Holding(q, m)
        BY <2>1, <3>1
      <4>2. mstate'[m] = "reserved" /\ attempt'[m] = AttemptAt("insert")
        BY <2>1, <3>1, <3>2
      <4> QED
        BY ONLY TypeOK, VInv, <2>1, <3>1, <3>2, <4>1, <4>2, HolderMoves DEF TypeOK
    <3>5. OperatorKnows' /\ ProviderActsOnce'
      BY <2>1, <3>1, <3>2
    <3> QED
      BY <3>3, <3>4, <3>5
  <2>3. CASE UNCHANGED <<mstate, version, job>> /\ pc' = [pc EXCEPT ![p] = "checkReplay"]
    BY ONLY TypeOK, VInv, <2>1, <2>3, CallerLetsGo DEF ConflictSteps
  <2>4. CASE UNCHANGED <<mstate, version>> /\ Return(p)
    BY ONLY TypeOK, VInv, <2>1, <2>4, CallerLetsGo DEF Return
  <2> QED
    BY <1>7, <2>1, <2>2, <2>3, <2>4 DEF ReserveCas, VersionMatches, Goto
<1>8. ASSUME NEW p \in Dispatchers, InsertAttempt(p) PROVE VInv'
  <2> DEFINE m == job[p].mandate
  <2>1. m \in Mandates /\ Holding(p, m) /\ pc[p] = "insert"
    BY <1>8 DEF InsertAttempt
  <2>2. /\ mstate[m] = "reserved" /\ attempt[m] = "absent" /\ recorded[m] = NoDeployment
        /\ \A q \in Dispatchers \ {p} : ~Holding(q, m)
    BY ONLY VInv, <2>1, SoleHolder DEF AttemptAt
  <2>3. /\ UNCHANGED <<mstate, version, recorded, receipts, audit, inflight, deployed,
                       calls, job, reply, opc, ojob, seen, found>>
        /\ attempt' = [attempt EXCEPT ![m] = "prepared"]
        /\ pc' = [pc EXCEPT ![p] = "markDispatching"]
    BY <1>8, <2>2 DEF InsertAttempt, AttemptIsNew, SetAttempt, Goto
  <2>4. OneConcurrentWinner' /\ HolderKnows'
    <3>1. attempt'[m] = AttemptAt("markDispatching")
      BY <2>1, <2>3
    <3> QED
      BY ONLY TypeOK, VInv, <2>1, <2>2, <2>3, <3>1, HolderMoves DEF TypeOK, Holding
  <2>5. VersionTellsState' /\ AttemptFollowsMandate' /\ ProviderActsOnce'
    BY <2>1, <2>2, <2>3
  <2>6. OperatorKnows'
    BY <2>1, <2>2, <2>3
  <2> QED
    BY <2>4, <2>5, <2>6
<1>9. ASSUME NEW p \in Dispatchers, MarkDispatching(p) PROVE VInv'
  BY <1>9 DEF MarkDispatching, SetAttempt, Goto
<1>10. ASSUME NEW p \in Dispatchers, AuditReserve(p) PROVE VInv'
  BY <1>10 DEF AuditReserve, WriteAudit, Goto
<1>11. ASSUME NEW p \in Dispatchers, CheckReplay(p) PROVE VInv'
  <2>1. /\ pc[p] = "checkReplay"
        /\ UNCHANGED <<mstate, version, attempt, recorded, receipts, audit, inflight,
                       deployed, calls, opc, ojob, seen, found>>
    BY <1>11 DEF CheckReplay
  <2>2. CASE Goto(p, "auditReplay")
    BY ONLY TypeOK, VInv, <2>1, <2>2, CallerLetsGo DEF Goto, ConflictSteps
  <2>3. CASE Return(p)
    BY ONLY TypeOK, VInv, <2>1, <2>3, CallerLetsGo DEF Return
  <2> QED
    BY <1>11, <2>2, <2>3 DEF CheckReplay
<1>12. ASSUME NEW p \in Dispatchers, AuditReplay(p) PROVE VInv'
  BY <1>12 DEF AuditReplay, WriteAudit, Return
<1>13. ASSUME NEW p \in Dispatchers, CallProvider(p) PROVE VInv'
  <2> DEFINE m == job[p].mandate
  <2>1. /\ m \in Mandates /\ pc[p] = "send"
        /\ UNCHANGED <<mstate, version, attempt, recorded, receipts, audit, deployed,
                       job, reply, opc, ojob, seen, found>>
        /\ inflight' = inflight \cup {m}
        /\ calls' = [calls EXCEPT ![m] = @ + 1]
        /\ pc' = [pc EXCEPT ![p] = "await"]
    BY <1>13 DEF CallProvider, Goto
  <2>2. calls[m] = 0
    BY <2>1 DEF IInv, BeforeCall
  <2>3. ProviderActsOnce'
    BY <2>1, <2>2
  <2>4. OneConcurrentWinner' /\ HolderKnows'
    <3>1. Holding(p, m)
      BY <2>1
    <3>2. /\ mstate[m] = "reserved" /\ attempt[m] = "dispatching"
          /\ recorded[m] = NoDeployment
          /\ \A q \in Dispatchers \ {p} : ~Holding(q, m)
      BY ONLY VInv, <2>1, <3>1, SoleHolder DEF AttemptAt
    <3>3. attempt[m] = AttemptAt("await")
      BY <3>2
    <3> QED
      BY ONLY TypeOK, VInv, <2>1, <3>2, <3>3, HolderMoves DEF TypeOK
  <2>5. VersionTellsState' /\ AttemptFollowsMandate' /\ OperatorKnows'
    BY <2>1
  <2> QED
    BY <2>3, <2>4, <2>5
<1>14. ASSUME NEW p \in Dispatchers, ReceiveAccepted(p) PROVE VInv'
  BY <1>14 DEF ReceiveAccepted
<1>15. ASSUME NEW p \in Dispatchers, ReceiveNothing(p) PROVE VInv'
  BY <1>15 DEF ReceiveNothing, Goto
<1>16. ASSUME NEW p \in Dispatchers, MarkAccepted(p) PROVE VInv'
  BY <1>16 DEF MarkAccepted, SetAttempt, Goto
<1>17. ASSUME NEW p \in Dispatchers, RecordDeploymentId(p) PROVE VInv'
  <2> DEFINE m == job[p].mandate
  <2>1. /\ m \in Mandates /\ pc[p] = "recordId" /\ mstate[m] = "reserved"
        /\ UNCHANGED <<mstate, version, attempt, receipts, audit, inflight, deployed,
                       calls, job, reply, opc, ojob, seen, found>>
        /\ recorded' = [recorded EXCEPT ![m] = reply[p]]
        /\ pc' = [pc EXCEPT ![p] = "consume"]
    BY <1>17 DEF RecordDeploymentId, Goto
  <2>2. reply[p] # NoDeployment
    BY <2>1 DEF IInv, IdsAreReal
  <2>3. OneConcurrentWinner' /\ HolderKnows'
    BY <2>1, <2>2
  <2>4. VersionTellsState' /\ AttemptFollowsMandate' /\ ProviderActsOnce'
    BY <2>1
  <2>5. OperatorKnows'
    BY <2>1
  <2> QED
    BY <2>3, <2>4, <2>5
<1>18. ASSUME NEW p \in Dispatchers, ConsumeCas(p) PROVE VInv'
  <2> DEFINE m == job[p].mandate
  <2>1. /\ m \in Mandates /\ Holding(p, m) /\ pc[p] = "consume" /\ job[p].expected = 1
        /\ UNCHANGED <<attempt, recorded, receipts, audit, inflight, deployed, calls,
                       opc, ojob, seen, found>>
    BY <1>18 DEF ConsumeCas, CompleteCas
  <2>2. /\ mstate[m] = "reserved" /\ version[m] = 2 /\ attempt[m] = "accepted"
        /\ recorded[m] = NoDeployment <=> pc[p] # "consume"
        /\ \A q \in Dispatchers \ {p} : ~Holding(q, m)
    BY ONLY VInv, <2>1, SoleHolder DEF AttemptAt
  <2>3. /\ mstate' = [mstate EXCEPT ![m] = "consumed"]
        /\ version' = [version EXCEPT ![m] = 3]
        /\ pc' = [pc EXCEPT ![p] = "auditConsume"] /\ UNCHANGED <<job, reply>>
    BY <1>18, <2>1, <2>2 DEF ConsumeCas, CompleteCas, VersionMatches, Swap, Goto
  <2>4. OneConcurrentWinner' /\ HolderKnows'
    <3>1. ~Holding(p, m)'
      BY <2>1, <2>3
    <3> QED
      BY ONLY TypeOK, VInv, <2>1, <2>2, <2>3, <3>1, HolderMoves DEF TypeOK
  <2>5. VersionTellsState' /\ AttemptFollowsMandate' /\ ProviderActsOnce'
    BY <2>1, <2>2, <2>3
  <2>6. OperatorKnows'
    BY <2>1, <2>2, <2>3
  <2> QED
    BY <2>4, <2>5, <2>6
<1>19. ASSUME NEW p \in Dispatchers, MarkAmbiguous(p) PROVE VInv'
  BY <1>19 DEF MarkAmbiguous, SetAttempt, Goto
<1>20. ASSUME NEW p \in Dispatchers, QuarantineCas(p) PROVE VInv'
  <2> DEFINE m == job[p].mandate
  <2>1. /\ m \in Mandates /\ Holding(p, m) /\ pc[p] = "quarantine" /\ job[p].expected = 1
        /\ UNCHANGED <<attempt, recorded, receipts, audit, inflight, deployed, calls,
                       opc, ojob, seen, found>>
    BY <1>20 DEF QuarantineCas, CompleteCas
  <2>2. /\ mstate[m] = "reserved" /\ version[m] = 2 /\ attempt[m] = "ambiguous"
        /\ recorded[m] = NoDeployment <=> pc[p] # "consume"
        /\ \A q \in Dispatchers \ {p} : ~Holding(q, m)
    BY ONLY VInv, <2>1, SoleHolder DEF AttemptAt
  <2>3. /\ mstate' = [mstate EXCEPT ![m] = "quarantined"]
        /\ version' = [version EXCEPT ![m] = 3]
        /\ pc' = [pc EXCEPT ![p] = "auditQuarantine"] /\ UNCHANGED <<job, reply>>
    BY <1>20, <2>1, <2>2 DEF QuarantineCas, CompleteCas, VersionMatches, Swap, Goto
  <2>4. OneConcurrentWinner' /\ HolderKnows'
    <3>1. ~Holding(p, m)'
      BY <2>1, <2>3
    <3> QED
      BY ONLY TypeOK, VInv, <2>1, <2>2, <2>3, <3>1, HolderMoves DEF TypeOK
  <2>5. VersionTellsState' /\ AttemptFollowsMandate' /\ ProviderActsOnce'
    BY <2>1, <2>2, <2>3
  <2>6. OperatorKnows'
    BY <2>1, <2>2, <2>3
  <2> QED
    BY <2>4, <2>5, <2>6
<1>21. ASSUME NEW p \in Dispatchers, AuditCompletion(p) PROVE VInv'
  BY <1>21 DEF AuditCompletion, WriteAudit, Return
<1>22. ASSUME NEW p \in Dispatchers, DispatcherFails(p) PROVE VInv'
  BY <1>22 DEF DispatcherFails, Return
<1>23. ASSUME NEW o \in Operators, CheckQuarantined(o) PROVE VInv'
  BY <1>23 DEF CheckQuarantined
<1>24. ASSUME NEW o \in Operators, FindAttempt(o) PROVE VInv'
  <2> DEFINE m == ojob[o].mandate
  <2>1. /\ m \in Mandates /\ opc[o] = "findAttempt"
        /\ UNCHANGED <<mstate, version, attempt, recorded, receipts, audit, inflight,
                       deployed, calls, pc, job, reply>>
    BY <1>24 DEF FindAttempt
  <2>2. CASE /\ seen' = [seen EXCEPT ![o] = recorded[m]]
             /\ \E step \in {"query", "abandon"} : opc' = [opc EXCEPT ![o] = step]
             /\ UNCHANGED <<ojob, found>>
    <3>1. OperatorKnows'
      BY <2>1, <2>2
    <3>2. OneConcurrentWinner' /\ HolderKnows'
      BY <2>1
    <3>3. VersionTellsState' /\ AttemptFollowsMandate' /\ ProviderActsOnce'
      BY <2>1
    <3> QED
      BY <3>1, <3>2, <3>3
  <2>3. CASE OReturn(o)
    BY ONLY TypeOK, VInv, <2>1, <2>3, OperatorLetsGo
  <2> QED
    BY <1>24, <2>2, <2>3 DEF FindAttempt
<1>25. ASSUME NEW o \in Operators, QueryProvider(o) PROVE VInv'
  <2>1. /\ opc[o] = "query"
        /\ UNCHANGED <<mstate, version, attempt, recorded, receipts, audit, inflight,
                       deployed, calls, pc, job, reply>>
    BY <1>25 DEF QueryProvider
  <2>2. CASE opc' = [opc EXCEPT ![o] = "reconcile"] /\ UNCHANGED <<ojob, seen>>
    <3>1. OperatorKnows'
      BY <2>1, <2>2
    <3>2. OneConcurrentWinner' /\ HolderKnows'
      BY <2>1
    <3>3. VersionTellsState' /\ AttemptFollowsMandate' /\ ProviderActsOnce'
      BY <2>1
    <3> QED
      BY <3>1, <3>2, <3>3
  <2>3. CASE OReturn(o)
    BY ONLY TypeOK, VInv, <2>1, <2>3, OperatorLetsGo
  <2> QED
    BY <1>25, <2>2, <2>3 DEF QueryProvider
<1>26. ASSUME NEW o \in Operators, ReconcileCas(o) PROVE VInv'
  <2> DEFINE m == ojob[o].mandate
  <2>1. /\ m \in Mandates /\ opc[o] = "reconcile" /\ ojob[o].expected = 3
        /\ UNCHANGED <<attempt, recorded, receipts, audit, inflight, deployed, calls,
                       pc, job, reply>>
    BY <1>26 DEF ReconcileCas, OperatorCas
  <2>2. CASE version[m] = 3
    <3>1. mstate[m] = "quarantined" /\ attempt[m] = "ambiguous" /\ m \notin receipts
      BY <2>1, <2>2 DEF MandateStates
    <3>2. /\ mstate' = [mstate EXCEPT ![m] = "consumed"]
          /\ version' = [version EXCEPT ![m] = 4]
          /\ opc' = [opc EXCEPT ![o] = "recordFound"] /\ UNCHANGED <<ojob, seen, found>>
      <4>1. seen[o] = NoDeployment
        BY ONLY VInv, <2>1, <3>1 DEF VInv, OperatorKnows
      <4>2. found[o] \in deployed[m]
        BY ONLY IInv, <2>1 DEF IInv, IdsAreReal
      <4>3. seen[o] # found[o]
        BY <2>1, <4>1, <4>2
      <4> QED
        BY <1>26, <2>1, <2>2, <4>3 DEF ReconcileCas, OperatorCas, VersionMatches, Swap, OGoto
    <3>3. VersionTellsState' /\ AttemptFollowsMandate' /\ ProviderActsOnce'
      BY <2>1, <3>1, <3>2
    <3>4. OneConcurrentWinner' /\ HolderKnows'
      BY <2>1, <3>1, <3>2
    <3>5. \A q \in Operators : ~Reconciling(q, m) /\ ~Abandoning(q, m)
      BY <2>1, <3>1
    <3>6. OperatorKnows'
      BY <2>1, <3>1, <3>2, <3>5
    <3> QED
      BY <3>3, <3>4, <3>6
  <2>3. CASE version[m] # 3
    <3>1. UNCHANGED <<mstate, version>> /\ OReturn(o)
      BY <1>26, <2>1, <2>3 DEF ReconcileCas, OperatorCas, VersionMatches
    <3> QED
      BY ONLY TypeOK, VInv, <2>1, <3>1, OperatorLetsGo
  <2> QED
    BY <2>2, <2>3
<1>27. ASSUME NEW o \in Operators, RecordFoundId(o) PROVE VInv'
  <2> DEFINE m == ojob[o].mandate
  <2>1. /\ m \in Mandates /\ opc[o] = "recordFound" /\ mstate[m] = "consumed"
        /\ UNCHANGED <<mstate, version, attempt, receipts, audit, inflight, deployed,
                       calls, pc, job, reply, ojob, seen, found>>
        /\ recorded' = [recorded EXCEPT ![m] = found[o]]
        /\ opc' = [opc EXCEPT ![o] = "markReconciled"]
    BY <1>27 DEF RecordFoundId, OGoto
  <2>2. found[o] # NoDeployment
    BY <2>1 DEF IInv, IdsAreReal
  <2>3. OperatorKnows'
    BY <2>1, <2>2
  <2>4. OneConcurrentWinner' /\ HolderKnows'
    BY <2>1
  <2>5. VersionTellsState' /\ AttemptFollowsMandate' /\ ProviderActsOnce'
    BY <2>1
  <2> QED
    BY <2>3, <2>4, <2>5
<1>28. ASSUME NEW o \in Operators, MarkReconciled(o) PROVE VInv'
  BY <1>28 DEF MarkReconciled, SetAttempt, OGoto
<1>29. ASSUME NEW o \in Operators, AbandonCas(o) PROVE VInv'
  <2> DEFINE m == ojob[o].mandate
  <2>1. /\ m \in Mandates /\ opc[o] = "abandon" /\ ojob[o].expected = 3
        /\ UNCHANGED <<attempt, recorded, receipts, audit, inflight, deployed, calls,
                       pc, job, reply>>
    BY <1>29 DEF AbandonCas, OperatorCas
  <2>2. CASE version[m] = 3
    <3>1. mstate[m] = "quarantined" /\ attempt[m] = "ambiguous" /\ m \notin receipts
      BY <2>1, <2>2 DEF MandateStates
    <3>2. /\ mstate' = [mstate EXCEPT ![m] = "abandoned"]
          /\ version' = [version EXCEPT ![m] = 4]
          /\ opc' = [opc EXCEPT ![o] = "markAbandoned"] /\ UNCHANGED <<ojob, seen, found>>
      BY <1>29, <2>1, <2>2 DEF AbandonCas, OperatorCas, VersionMatches, Swap, OGoto
    <3>3. VersionTellsState' /\ AttemptFollowsMandate' /\ ProviderActsOnce'
      BY <2>1, <3>1, <3>2
    <3>4. OneConcurrentWinner' /\ HolderKnows'
      BY <2>1, <3>1, <3>2
    <3>5. \A q \in Operators : ~Reconciling(q, m) /\ ~Abandoning(q, m)
      BY <2>1, <3>1
    <3>6. OperatorKnows'
      BY <2>1, <3>1, <3>2, <3>5
    <3> QED
      BY <3>3, <3>4, <3>6
  <2>3. CASE version[m] # 3
    <3>1. UNCHANGED <<mstate, version>> /\ OReturn(o)
      BY <1>29, <2>1, <2>3 DEF AbandonCas, OperatorCas, VersionMatches
    <3> QED
      BY ONLY TypeOK, VInv, <2>1, <3>1, OperatorLetsGo
  <2> QED
    BY <2>2, <2>3
<1>30. ASSUME NEW o \in Operators, MarkAbandoned(o) PROVE VInv'
  BY <1>30 DEF MarkAbandoned, SetAttempt, OGoto
<1>31. ASSUME NEW o \in Operators, InsertUnknownReceipt(o) PROVE VInv'
  <2> DEFINE m == ojob[o].mandate
  <2>1. /\ m \in Mandates /\ opc[o] = "insertReceipt" /\ m \notin receipts
        /\ mstate[m] = "abandoned" /\ attempt[m] = "abandoned"
        /\ UNCHANGED <<mstate, version, attempt, recorded, audit, inflight, deployed,
                       calls, pc, job, reply, ojob, seen, found>>
        /\ receipts' = receipts \cup {m}
        /\ opc' = [opc EXCEPT ![o] = "auditAbandoned"]
    BY <1>31 DEF InsertUnknownReceipt, OGoto
  <2>2. OperatorKnows'
    BY <2>1
  <2>3. OneConcurrentWinner' /\ HolderKnows'
    BY <2>1
  <2>4. VersionTellsState' /\ AttemptFollowsMandate' /\ ProviderActsOnce'
    BY <2>1
  <2> QED
    BY <2>2, <2>3, <2>4
<1>32. ASSUME NEW o \in Operators, AuditResolution(o) PROVE VInv'
  BY <1>32 DEF AuditResolution, WriteAudit, OReturn
<1>33. ASSUME NEW o \in Operators, OperatorFails(o) PROVE VInv'
  BY <1>33 DEF OperatorFails, OReturn
<1>34. CASE UNCHANGED vars
  BY <1>34 DEF vars
<1> QED
  BY <1>1, <1>2, <1>3, <1>4, <1>5, <1>6, <1>7, <1>8, <1>9, <1>10, <1>11, <1>12, <1>13, <1>14, <1>15, <1>16, <1>17, <1>18, <1>19, <1>20, <1>21, <1>22, <1>23, <1>24, <1>25, <1>26, <1>27, <1>28, <1>29, <1>30, <1>31, <1>32, <1>33, <1>34
  DEF Next, Environment, DispatcherStep, OperatorStep

-----------------------------------------------------------------------------
(* The journal of mandates on which no call has failed *)

\* A story stays told, or its teller at work, in a step that leaves the
\* mandate's row and its tellers alone.
LEMMA StoryKept ==
    ASSUME NEW n \in Mandates, Story(n),
           mstate'[n] = mstate[n], version'[n] = version[n],
           attempt'[n] = attempt[n], recorded'[n] = recorded[n],
           audit \subseteq audit', n \in receipts => n \in receipts',
           \A p \in Dispatchers :
              pc[p] \in {"auditConsume", "auditQuarantine"} /\ job[p].mandate = n =>
                 pc'[p] = pc[p] /\ job'[p] = job[p],
           \A o \in Operators :
              Reconciling(o, n) \/ Abandoning(o, n) => opc'[o] = opc[o] /\ ojob'[o] = ojob[o]
    PROVE  Story(n)'
<1>1. \A o \in Operators : /\ Reconciling(o, n) => Reconciling(o, n)'
                           /\ Abandoning(o, n) => Abandoning(o, n)'
  BY DEF Reconciling, Abandoning
<1> QED
  BY <1>1 DEF Story

\* Every step of disciplined callers keeps every story told or being told.
LEMMA JournalStep ==
    ASSUME Disciplined, IInv, VInv, JournalIsOnItsWay, [Next]_vars
    PROVE  JournalIsOnItsWay'
<1> SUFFICES ASSUME NEW n \in Mandates, n \notin failed' PROVE Story(n)'
  BY DEF JournalIsOnItsWay
<1> TypeOK /\ TypeOK'
  BY TypeStep DEF IInv
<1> Story(n)
  <2>1. failed \subseteq failed'
    BY DEF Next, Environment, DispatcherStep, OperatorStep, vars, quietVars, Decide, Revoke,
           Issue, GitHubAccepts, GitHubDrops, CheckRequest, ReserveCas, InsertAttempt,
           MarkDispatching, AuditReserve, CheckReplay, AuditReplay, CallProvider,
           ReceiveAccepted, ReceiveNothing, MarkAccepted, RecordDeploymentId, ConsumeCas,
           MarkAmbiguous, QuarantineCas, CompleteCas, AuditCompletion, DispatcherFails,
           CheckQuarantined, FindAttempt, QueryProvider, ReconcileCas, AbandonCas,
           OperatorCas, RecordFoundId, MarkReconciled, MarkAbandoned,
           InsertUnknownReceipt, AuditResolution, OperatorFails
  <2> QED
    BY <2>1 DEF JournalIsOnItsWay
<1> USE DEF TypeOK, Jobs, OperatorJobs, Disciplined, Reconciling, Abandoning,
            quietVars, storeVars, providerVars, dispatcherVars, operatorVars
<1>1. ASSUME NEW r \in Requests, Decide(r) PROVE Story(n)'
  BY <1>1, StoryKept DEF Decide
<1>2. ASSUME NEW r \in Requests, Revoke(r) PROVE Story(n)'
  BY <1>2, StoryKept DEF Revoke
<1>3. ASSUME NEW m \in Mandates, Issue(m) PROVE Story(n)'
  BY <1>3, StoryKept DEF Issue, Story
<1>4. ASSUME NEW m \in Mandates, GitHubAccepts(m) PROVE Story(n)'
  BY <1>4, StoryKept DEF GitHubAccepts
<1>5. ASSUME NEW m \in Mandates, GitHubDrops(m) PROVE Story(n)'
  BY <1>5, StoryKept DEF GitHubDrops
<1>6. ASSUME NEW p \in Dispatchers, CheckRequest(p) PROVE Story(n)'
  BY <1>6, StoryKept DEF CheckRequest, Dispatchable
<1>7. ASSUME NEW p \in Dispatchers, ReserveCas(p) PROVE Story(n)'
  <2>1. CASE n = job[p].mandate /\ Swap(n, "reserved")
    <3>1. mstate'[n] = "reserved"
      BY <2>1 DEF Swap
    <3> QED
      BY <3>1 DEF Story
  <2>2. CASE n = job[p].mandate /\ UNCHANGED <<mstate, version>>
    BY <1>7, <2>2, StoryKept DEF ReserveCas, Goto, Return
  <2>3. CASE n # job[p].mandate
    BY <1>7, <2>3, StoryKept DEF ReserveCas, Swap, Goto, Return
  <2> QED
    BY <1>7, <2>1, <2>2, <2>3 DEF ReserveCas
<1>8. ASSUME NEW p \in Dispatchers, InsertAttempt(p) PROVE Story(n)'
  <2>1. CASE n = job[p].mandate
    <3>1. Holding(p, n)
      BY <1>8, <2>1 DEF InsertAttempt, Holding, ReserveSteps, CompleteSteps
    <3>2. mstate'[n] = "reserved"
      BY ONLY VInv, <3>1, SoleHolder, <1>8 DEF InsertAttempt
    <3> QED
      BY <3>2 DEF Story
  <2>2. CASE n # job[p].mandate
    BY <1>8, <2>2, StoryKept DEF InsertAttempt, SetAttempt, AttemptIsNew, Goto, Return
  <2> QED
    BY <2>1, <2>2
<1>9. ASSUME NEW p \in Dispatchers, MarkDispatching(p) PROVE Story(n)'
  <2>1. CASE n = job[p].mandate
    <3>1. Holding(p, n)
      BY <1>9, <2>1 DEF MarkDispatching, Holding, ReserveSteps, CompleteSteps
    <3>2. mstate'[n] = "reserved"
      BY ONLY VInv, <3>1, SoleHolder, <1>9 DEF MarkDispatching
    <3> QED
      BY <3>2 DEF Story
  <2>2. CASE n # job[p].mandate
    BY <1>9, <2>2, StoryKept DEF MarkDispatching, SetAttempt, Goto
  <2> QED
    BY <2>1, <2>2
<1>10. ASSUME NEW p \in Dispatchers, AuditReserve(p) PROVE Story(n)'
  BY <1>10, StoryKept DEF AuditReserve, WriteAudit, Goto
<1>11. ASSUME NEW p \in Dispatchers, CheckReplay(p) PROVE Story(n)'
  BY <1>11, StoryKept DEF CheckReplay, Goto, Return, Spent
<1>12. ASSUME NEW p \in Dispatchers, AuditReplay(p) PROVE Story(n)'
  BY <1>12, StoryKept DEF AuditReplay, WriteAudit, Return
<1>13. ASSUME NEW p \in Dispatchers, CallProvider(p) PROVE Story(n)'
  BY <1>13, StoryKept DEF CallProvider, Goto
<1>14. ASSUME NEW p \in Dispatchers, ReceiveAccepted(p) PROVE Story(n)'
  BY <1>14, StoryKept DEF ReceiveAccepted
<1>15. ASSUME NEW p \in Dispatchers, ReceiveNothing(p) PROVE Story(n)'
  BY <1>15, StoryKept DEF ReceiveNothing, Goto
<1>16. ASSUME NEW p \in Dispatchers, MarkAccepted(p) PROVE Story(n)'
  <2>1. CASE n = job[p].mandate
    <3>1. Holding(p, n)
      BY <1>16, <2>1 DEF MarkAccepted, Holding, ReserveSteps, CompleteSteps
    <3>2. mstate'[n] = "reserved"
      BY ONLY VInv, <3>1, SoleHolder, <1>16 DEF MarkAccepted
    <3> QED
      BY <3>2 DEF Story
  <2>2. CASE n # job[p].mandate
    BY <1>16, <2>2, StoryKept DEF MarkAccepted, SetAttempt, Goto
  <2> QED
    BY <2>1, <2>2
<1>17. ASSUME NEW p \in Dispatchers, RecordDeploymentId(p) PROVE Story(n)'
  <2>1. CASE n = job[p].mandate
    <3>1. Holding(p, n)
      BY <1>17, <2>1 DEF RecordDeploymentId, Holding, ReserveSteps, CompleteSteps
    <3>2. mstate'[n] = "reserved"
      BY ONLY VInv, <3>1, SoleHolder, <1>17 DEF RecordDeploymentId
    <3> QED
      BY <3>2 DEF Story
  <2>2. CASE n # job[p].mandate
    BY <1>17, <2>2, StoryKept DEF RecordDeploymentId, Goto
  <2> QED
    BY <2>1, <2>2
<1>18. ASSUME NEW p \in Dispatchers, ConsumeCas(p) PROVE Story(n)'
  <2>1. CASE n = job[p].mandate
    <3>1. Holding(p, n) /\ pc[p] = "consume"
      BY <1>18, <2>1 DEF ConsumeCas, CompleteCas, Holding, ReserveSteps, CompleteSteps
    <3>2. /\ mstate[n] = "reserved" /\ version[n] = 2 /\ attempt[n] = "accepted"
          /\ recorded[n] = NoDeployment <=> pc[p] # "consume"
      BY ONLY VInv, <3>1, SoleHolder DEF AttemptAt
    <3>3. /\ mstate'[n] = "consumed" /\ version'[n] = 3 /\ pc'[p] = "auditConsume"
          /\ job'[p].mandate = n /\ UNCHANGED <<attempt, recorded>>
      BY <1>18, <2>1, <3>1, <3>2 DEF ConsumeCas, CompleteCas, VersionMatches, Swap, Goto
    <3> QED
      BY <3>1, <3>2, <3>3 DEF Story
  <2>2. CASE n # job[p].mandate
    BY <1>18, <2>2, StoryKept DEF ConsumeCas, CompleteCas, Swap, Goto, Return
  <2> QED
    BY <2>1, <2>2
<1>19. ASSUME NEW p \in Dispatchers, MarkAmbiguous(p) PROVE Story(n)'
  <2>1. CASE n = job[p].mandate
    <3>1. Holding(p, n)
      BY <1>19, <2>1 DEF MarkAmbiguous, Holding, ReserveSteps, CompleteSteps
    <3>2. mstate'[n] = "reserved"
      BY ONLY VInv, <3>1, SoleHolder, <1>19 DEF MarkAmbiguous
    <3> QED
      BY <3>2 DEF Story
  <2>2. CASE n # job[p].mandate
    BY <1>19, <2>2, StoryKept DEF MarkAmbiguous, SetAttempt, Goto
  <2> QED
    BY <2>1, <2>2
<1>20. ASSUME NEW p \in Dispatchers, QuarantineCas(p) PROVE Story(n)'
  <2>1. CASE n = job[p].mandate
    <3>1. Holding(p, n) /\ pc[p] = "quarantine"
      BY <1>20, <2>1 DEF QuarantineCas, CompleteCas, Holding, ReserveSteps, CompleteSteps
    <3>2. /\ mstate[n] = "reserved" /\ version[n] = 2 /\ attempt[n] = "ambiguous"
          /\ recorded[n] = NoDeployment <=> pc[p] # "consume"
      BY ONLY VInv, <3>1, SoleHolder DEF AttemptAt
    <3>3. /\ mstate'[n] = "quarantined" /\ version'[n] = 3 /\ pc'[p] = "auditQuarantine"
          /\ job'[p].mandate = n /\ UNCHANGED <<attempt, recorded>>
      BY <1>20, <2>1, <3>1, <3>2 DEF QuarantineCas, CompleteCas, VersionMatches, Swap, Goto
    <3> QED
      BY <3>1, <3>2, <3>3 DEF Story
  <2>2. CASE n # job[p].mandate
    BY <1>20, <2>2, StoryKept DEF QuarantineCas, CompleteCas, Swap, Goto, Return
  <2> QED
    BY <2>1, <2>2
<1>21. ASSUME NEW p \in Dispatchers, AuditCompletion(p) PROVE Story(n)'
  <2>1. /\ UNCHANGED <<mstate, version, attempt, recorded, receipts, opc, ojob>>
        /\ audit \subseteq audit'
        /\ \A q \in Dispatchers \ {p} : pc'[q] = pc[q] /\ job'[q] = job[q]
    BY <1>21 DEF AuditCompletion, WriteAudit, Return
  <2>2. CASE n # job[p].mandate
    BY <2>1, <2>2, StoryKept
  <2>3. CASE n = job[p].mandate /\ pc[p] = "auditConsume"
    <3>1. <<"consume", n>> \in audit'
      BY <1>21, <2>3 DEF AuditCompletion, WriteAudit
    <3> QED
      BY ONLY Story(n), <2>1, <2>3, <3>1 DEF Story, Reconciling, Abandoning
  <2>4. CASE n = job[p].mandate /\ pc[p] = "auditQuarantine"
    <3>1. <<"quarantine", n>> \in audit'
      BY <1>21, <2>4 DEF AuditCompletion, WriteAudit
    <3> QED
      BY ONLY Story(n), <2>1, <2>4, <3>1 DEF Story, Reconciling, Abandoning
  <2> QED
    BY <1>21, <2>2, <2>3, <2>4 DEF AuditCompletion
<1>22. ASSUME NEW p \in Dispatchers, DispatcherFails(p) PROVE Story(n)'
  <2>1. n # job[p].mandate
    BY <1>22 DEF DispatcherFails
  <2> QED
    BY <1>22, <2>1, StoryKept DEF DispatcherFails, Return
<1>23. ASSUME NEW o \in Operators, CheckQuarantined(o) PROVE Story(n)'
  BY <1>23, StoryKept DEF CheckQuarantined
<1>24. ASSUME NEW o \in Operators, FindAttempt(o) PROVE Story(n)'
  BY <1>24, StoryKept DEF FindAttempt, OReturn
<1>25. ASSUME NEW o \in Operators, QueryProvider(o) PROVE Story(n)'
  BY <1>25, StoryKept DEF QueryProvider, OReturn, Correlated
<1>26. ASSUME NEW o \in Operators, ReconcileCas(o) PROVE Story(n)'
  <2>1. /\ opc[o] = "reconcile" /\ ojob[o].expected = 3
        /\ UNCHANGED <<attempt, recorded, receipts, audit, pc, job>>
    BY <1>26 DEF ReconcileCas, OperatorCas
  <2>2. CASE n = ojob[o].mandate /\ version[n] = 3
    <3>1. /\ mstate'[n] = "consumed" /\ version'[n] = 4 /\ Reconciling(o, n)'
      BY <1>26, <2>1, <2>2 DEF ReconcileCas, OperatorCas, VersionMatches, Swap, OGoto
    <3> QED
      BY <3>1 DEF Story
  <2>3. CASE n = ojob[o].mandate /\ version[n] # 3
    BY <1>26, <2>1, <2>3, StoryKept DEF ReconcileCas, OperatorCas, VersionMatches, OReturn
  <2>4. CASE n # ojob[o].mandate
    BY <1>26, <2>1, <2>4, StoryKept DEF ReconcileCas, OperatorCas, Swap, OGoto, OReturn
  <2> QED
    BY <2>2, <2>3, <2>4
<1>27. ASSUME NEW o \in Operators, RecordFoundId(o) PROVE Story(n)'
  <2>1. CASE n = ojob[o].mandate
    <3>1. Reconciling(o, n) /\ Reconciling(o, n)'
      BY <1>27, <2>1 DEF RecordFoundId, OGoto, OReturn
    <3>2. mstate[n] = "consumed"
      BY ONLY VInv, <3>1, RecordFoundId(o) DEF VInv, OperatorKnows, Reconciling, RecordFoundId
    <3>3. mstate'[n] = "consumed" /\ version'[n] = version[n] /\ version[n] = 4
      BY ONLY VInv, <3>1, <3>2, RecordFoundId(o) DEF VInv, OperatorKnows, VersionTellsState, Reconciling, RecordFoundId
    <3> QED
      BY <3>1, <3>3 DEF Story
  <2>2. CASE n # ojob[o].mandate
    BY <1>27, <2>2, StoryKept DEF RecordFoundId, OGoto
  <2> QED
    BY <2>1, <2>2
<1>28. ASSUME NEW o \in Operators, MarkReconciled(o) PROVE Story(n)'
  <2>1. CASE n = ojob[o].mandate
    <3>1. Reconciling(o, n) /\ Reconciling(o, n)'
      BY <1>28, <2>1 DEF MarkReconciled, OGoto, OReturn
    <3>2. mstate[n] = "consumed"
      BY ONLY VInv, <3>1, MarkReconciled(o) DEF VInv, OperatorKnows, Reconciling, MarkReconciled
    <3>3. mstate'[n] = "consumed" /\ version'[n] = version[n] /\ version[n] = 4
      BY ONLY VInv, <3>1, <3>2, MarkReconciled(o) DEF VInv, OperatorKnows, VersionTellsState, Reconciling, MarkReconciled
    <3> QED
      BY <3>1, <3>3 DEF Story
  <2>2. CASE n # ojob[o].mandate
    BY <1>28, <2>2, StoryKept DEF MarkReconciled, SetAttempt, OGoto
  <2> QED
    BY <2>1, <2>2
<1>29. ASSUME NEW o \in Operators, AbandonCas(o) PROVE Story(n)'
  <2>1. /\ opc[o] = "abandon" /\ ojob[o].expected = 3
        /\ UNCHANGED <<attempt, recorded, receipts, audit, pc, job>>
    BY <1>29 DEF AbandonCas, OperatorCas
  <2>2. CASE n = ojob[o].mandate /\ version[n] = 3
    <3>1. /\ mstate'[n] = "abandoned" /\ version'[n] = 4 /\ Abandoning(o, n)'
      BY <1>29, <2>1, <2>2 DEF AbandonCas, OperatorCas, VersionMatches, Swap, OGoto
    <3> QED
      BY <3>1 DEF Story
  <2>3. CASE n = ojob[o].mandate /\ version[n] # 3
    BY <1>29, <2>1, <2>3, StoryKept DEF AbandonCas, OperatorCas, VersionMatches, OReturn
  <2>4. CASE n # ojob[o].mandate
    BY <1>29, <2>1, <2>4, StoryKept DEF AbandonCas, OperatorCas, Swap, OGoto, OReturn
  <2> QED
    BY <2>2, <2>3, <2>4
<1>30. ASSUME NEW o \in Operators, MarkAbandoned(o) PROVE Story(n)'
  <2>1. CASE n = ojob[o].mandate
    <3>1. Abandoning(o, n) /\ Abandoning(o, n)'
      BY <1>30, <2>1 DEF MarkAbandoned, OGoto, OReturn
    <3>2. mstate[n] = "abandoned"
      BY ONLY VInv, <3>1, MarkAbandoned(o) DEF VInv, OperatorKnows, Abandoning, MarkAbandoned
    <3>3. mstate'[n] = "abandoned" /\ version'[n] = version[n] /\ version[n] = 4
      BY ONLY VInv, <3>1, <3>2, MarkAbandoned(o) DEF VInv, OperatorKnows, VersionTellsState, Abandoning, MarkAbandoned
    <3> QED
      BY <3>1, <3>3 DEF Story
  <2>2. CASE n # ojob[o].mandate
    BY <1>30, <2>2, StoryKept DEF MarkAbandoned, SetAttempt, OGoto
  <2> QED
    BY <2>1, <2>2
<1>31. ASSUME NEW o \in Operators, InsertUnknownReceipt(o) PROVE Story(n)'
  <2>1. CASE n = ojob[o].mandate
    <3>1. Abandoning(o, n) /\ opc[o] = "insertReceipt"
      BY <1>31, <2>1 DEF InsertUnknownReceipt
    <3>2. mstate[n] = "abandoned" /\ n \notin receipts
      BY ONLY VInv, <3>1 DEF VInv, OperatorKnows, Abandoning
    <3>3. Abandoning(o, n)' /\ mstate'[n] = "abandoned"
      BY <1>31, <2>1, <3>2 DEF InsertUnknownReceipt, OGoto
    <3> QED
      BY <3>3 DEF Story
  <2>2. CASE n # ojob[o].mandate
    BY <1>31, <2>2, StoryKept DEF InsertUnknownReceipt, OGoto, OReturn
  <2> QED
    BY <2>1, <2>2
<1>32. ASSUME NEW o \in Operators, AuditResolution(o) PROVE Story(n)'
  <2>1. UNCHANGED <<mstate, version, attempt, recorded, receipts, pc, job>>
    BY <1>32 DEF AuditResolution
  <2>2. CASE n # ojob[o].mandate
    BY <1>32, <2>2, StoryKept DEF AuditResolution, WriteAudit, OReturn
  <2>3. CASE n = ojob[o].mandate /\ opc[o] = "auditReconciled"
    <3>1. /\ mstate[n] = "consumed" /\ version[n] = 4
          /\ attempt[n] = "reconciled" /\ recorded[n] # NoDeployment
      BY ONLY VInv, <2>3 DEF VInv, OperatorKnows, Reconciling
    <3>2. <<"reconciled", n>> \in audit'
      BY <1>32, <2>3 DEF AuditResolution, WriteAudit
    <3> QED
      BY ONLY <2>1, <3>1, <3>2 DEF Story
  <2>4. CASE n = ojob[o].mandate /\ opc[o] = "auditAbandoned"
    <3>1. mstate[n] = "abandoned" /\ n \in receipts
      BY ONLY VInv, <2>4 DEF VInv, OperatorKnows, Abandoning
    <3>2. <<"abandoned", n>> \in audit'
      BY <1>32, <2>4 DEF AuditResolution, WriteAudit
    <3> QED
      BY ONLY <2>1, <3>1, <3>2 DEF Story
  <2> QED
    BY <1>32, <2>2, <2>3, <2>4 DEF AuditResolution
<1>33. ASSUME NEW o \in Operators, OperatorFails(o) PROVE Story(n)'
  <2>1. n # ojob[o].mandate
    BY <1>33 DEF OperatorFails
  <2> QED
    BY <1>33, <2>1, StoryKept DEF OperatorFails, OReturn
<1>34. CASE UNCHANGED vars
  BY <1>34, StoryKept DEF vars
<1> QED
  BY <1>1, <1>2, <1>3, <1>4, <1>5, <1>6, <1>7, <1>8, <1>9, <1>10, <1>11, <1>12, <1>13, <1>14, <1>15, <1>16, <1>17, <1>18, <1>19, <1>20, <1>21, <1>22, <1>23, <1>24, <1>25, <1>26, <1>27, <1>28, <1>29, <1>30, <1>31, <1>32, <1>33, <1>34
  DEF Next, Environment, DispatcherStep, OperatorStep

\* Nothing is spent yet.
LEMMA JournalInit == Init => JournalIsOnItsWay
  BY DEF Init, JournalIsOnItsWay, Story

-----------------------------------------------------------------------------
(* The life cycle.  Each swap is the abstract move of its mandate, the call *)
(* and GitHub's acceptance are the abstract call and effect, and every      *)
(* other step of the handlers stutters.                                     *)

\* Every step of disciplined callers is a step of the life cycle or a stutter.
LEMMA LifecycleStep ==
    ASSUME Disciplined, IInv, VInv, [Next]_vars
    PROVE  [L!Next]_(L!vars)
<1> DEFINE called == {m \in Mandates : calls[m] > 0}
           effected == {m \in Mandates : deployed[m] # {}}
<1> TypeOK
  BY DEF IInv
<1> USE DEF TypeOK, Jobs, OperatorJobs, Disciplined, quietVars, storeVars, providerVars,
            dispatcherVars, operatorVars
<1>1. ASSUME NEW m \in Mandates, Issue(m) PROVE L!Issue(m)
  BY <1>1 DEF Issue, L!Issue, L!Move
<1>2. ASSUME NEW m \in Mandates, GitHubAccepts(m) PROVE L!Effect(m)
  <2>1. calls[m] = 1 /\ deployed[m] = {}
    BY <1>2 DEF GitHubAccepts, VInv, ProviderActsOnce
  <2>2. PICK d \in Deployments : deployed' = [deployed EXCEPT ![m] = @ \cup {d}]
    BY <1>2 DEF GitHubAccepts
  <2>3. deployed'[m] # {} /\ \A n \in Mandates \ {m} : deployed'[n] = deployed[n]
    BY <2>2
  <2>4. effected' = effected \cup {m}
    BY ONLY <2>3, m \in Mandates
  <2> QED
    BY <1>2, <2>1, <2>4 DEF GitHubAccepts, L!Effect
<1>3. ASSUME NEW p \in Dispatchers, CallProvider(p) PROVE L!Call(job[p].mandate)
  <2> DEFINE m == job[p].mandate
  <2>1. m \in Mandates /\ pc[p] = "send" /\ Holding(p, m)
    BY <1>3 DEF CallProvider, Holding, ReserveSteps
  <2>2. mstate[m] = "reserved"
    BY ONLY VInv, <2>1, SoleHolder
  <2>3. calls[m] = 0
    BY <2>1 DEF IInv, BeforeCall
  <2>4. calls' = [calls EXCEPT ![m] = 1] /\ UNCHANGED <<mstate, deployed>>
    BY <1>3, <2>3 DEF CallProvider
  <2>5. called' = called \cup {m}
    BY <2>1, <2>4
  <2> QED
    BY <2>1, <2>2, <2>3, <2>4, <2>5 DEF L!Call
<1>4. ASSUME NEW p \in Dispatchers, ReserveCas(p)
      PROVE  L!Reserve(job[p].mandate) \/ UNCHANGED L!vars
  <2> DEFINE m == job[p].mandate
  <2>1. m \in Mandates /\ job[p].expected = 1 /\ UNCHANGED <<calls, deployed>>
    BY <1>4 DEF ReserveCas
  <2>2. CASE version[m] = 1 /\ Swap(m, "reserved")
    <3>1. mstate[m] = "issued"
      BY <2>1, <2>2 DEF VInv, VersionTellsState
    <3> QED
      BY <2>1, <2>2, <3>1 DEF Swap, L!Reserve, L!Move
  <2>3. CASE UNCHANGED mstate
    BY <2>1, <2>3 DEF L!vars
  <2> QED
    BY <1>4, <2>1, <2>2, <2>3 DEF ReserveCas, VersionMatches
<1>5. ASSUME NEW p \in Dispatchers, ConsumeCas(p)
      PROVE  L!Consume(job[p].mandate)
  <2> DEFINE m == job[p].mandate
  <2>1. /\ m \in Mandates /\ pc[p] = "consume" /\ Holding(p, m) /\ job[p].expected = 1
        /\ UNCHANGED <<calls, deployed>>
    BY <1>5 DEF ConsumeCas, CompleteCas, Holding, CompleteSteps
  <2>2. mstate[m] = "reserved" /\ version[m] = 2
    BY ONLY VInv, <2>1, SoleHolder
  <2>3. mstate' = [mstate EXCEPT ![m] = "consumed"]
    BY <1>5, <2>1, <2>2 DEF ConsumeCas, CompleteCas, VersionMatches, Swap
  <2>4. deployed[m] # {}
    BY <2>1 DEF IInv, IdsAreReal
  <2> QED
    BY <2>1, <2>2, <2>3, <2>4 DEF L!Consume, L!Move
<1>6. ASSUME NEW p \in Dispatchers, QuarantineCas(p)
      PROVE  L!Quarantine(job[p].mandate)
  <2> DEFINE m == job[p].mandate
  <2>1. /\ m \in Mandates /\ pc[p] = "quarantine" /\ Holding(p, m) /\ job[p].expected = 1
        /\ UNCHANGED <<calls, deployed>>
    BY <1>6 DEF QuarantineCas, CompleteCas, Holding, CompleteSteps
  <2>2. mstate[m] = "reserved" /\ version[m] = 2
    BY ONLY VInv, <2>1, SoleHolder
  <2>3. mstate' = [mstate EXCEPT ![m] = "quarantined"]
    BY <1>6, <2>1, <2>2 DEF QuarantineCas, CompleteCas, VersionMatches, Swap
  <2>4. calls[m] = 1
    BY <2>1 DEF IInv, AfterCall, CompleteSteps
  <2> QED
    BY <2>1, <2>2, <2>3, <2>4 DEF L!Quarantine, L!Move
<1>7. ASSUME NEW o \in Operators, ReconcileCas(o)
      PROVE  L!Consume(ojob[o].mandate) \/ UNCHANGED L!vars
  <2> DEFINE m == ojob[o].mandate
  <2>1. /\ m \in Mandates /\ opc[o] = "reconcile" /\ ojob[o].expected = 3
        /\ UNCHANGED <<calls, deployed>>
    BY <1>7 DEF ReconcileCas, OperatorCas
  <2>2. CASE version[m] = 3 /\ Swap(m, "consumed")
    <3>1. mstate[m] = "quarantined"
      BY <2>1, <2>2 DEF VInv, OperatorKnows, VersionTellsState
    <3>2. deployed[m] # {}
      BY <2>1 DEF IInv, IdsAreReal
    <3> QED
      BY <2>1, <2>2, <3>1, <3>2 DEF Swap, L!Consume, L!Move
  <2>3. CASE UNCHANGED mstate
    BY <2>1, <2>3 DEF L!vars
  <2> QED
    BY <1>7, <2>1, <2>2, <2>3 DEF ReconcileCas, OperatorCas, VersionMatches
<1>8. ASSUME NEW o \in Operators, AbandonCas(o)
      PROVE  L!Abandon(ojob[o].mandate) \/ UNCHANGED L!vars
  <2> DEFINE m == ojob[o].mandate
  <2>1. /\ m \in Mandates /\ opc[o] = "abandon" /\ ojob[o].expected = 3
        /\ UNCHANGED <<calls, deployed>>
    BY <1>8 DEF AbandonCas, OperatorCas
  <2>2. CASE version[m] = 3 /\ Swap(m, "abandoned")
    <3>1. mstate[m] = "quarantined"
      BY <2>1, <2>2 DEF VInv, OperatorKnows, VersionTellsState
    <3> QED
      BY <2>1, <2>2, <3>1 DEF Swap, L!Abandon, L!Move
  <2>3. CASE UNCHANGED mstate
    BY <2>1, <2>3 DEF L!vars
  <2> QED
    BY <1>8, <2>1, <2>2, <2>3 DEF AbandonCas, OperatorCas, VersionMatches
<1>9. ASSUME \/ \E r \in Requests : Decide(r) \/ Revoke(r)
             \/ \E m \in Mandates : GitHubDrops(m)
             \/ \E p \in Dispatchers :
                   \/ CheckRequest(p) \/ InsertAttempt(p) \/ MarkDispatching(p)
                   \/ AuditReserve(p) \/ CheckReplay(p) \/ AuditReplay(p)
                   \/ ReceiveAccepted(p) \/ ReceiveNothing(p) \/ MarkAccepted(p)
                   \/ RecordDeploymentId(p) \/ MarkAmbiguous(p) \/ AuditCompletion(p)
                   \/ DispatcherFails(p)
             \/ \E o \in Operators :
                   \/ CheckQuarantined(o) \/ FindAttempt(o) \/ QueryProvider(o)
                   \/ RecordFoundId(o) \/ MarkReconciled(o) \/ MarkAbandoned(o)
                   \/ InsertUnknownReceipt(o) \/ AuditResolution(o) \/ OperatorFails(o)
             \/ UNCHANGED vars
      PROVE  UNCHANGED L!vars
  <2>1. UNCHANGED <<mstate, calls, deployed>>
    BY <1>9 DEF Decide, Revoke, GitHubDrops, CheckRequest, InsertAttempt, MarkDispatching,
       AuditReserve, CheckReplay, AuditReplay, ReceiveAccepted, ReceiveNothing,
       MarkAccepted, RecordDeploymentId, MarkAmbiguous, AuditCompletion, DispatcherFails,
       CheckQuarantined, FindAttempt, QueryProvider, RecordFoundId, MarkReconciled,
       MarkAbandoned, InsertUnknownReceipt, AuditResolution, OperatorFails, vars
  <2> QED
    BY <2>1 DEF L!vars
<1>10. ASSUME NEW m \in Mandates, Issue(m) \/ GitHubAccepts(m) PROVE L!Next
  BY ONLY <1>1, <1>2, <1>10 DEF L!Next
<1>11. ASSUME NEW p \in Dispatchers,
              CallProvider(p) \/ ReserveCas(p) \/ ConsumeCas(p) \/ QuarantineCas(p)
       PROVE  L!Next \/ UNCHANGED L!vars
  <2>1. job[p].mandate \in Mandates
    BY <1>11 DEF ReserveCas, CallProvider, ConsumeCas, QuarantineCas, CompleteCas
  <2>2. CASE CallProvider(p)
    <3>1. L!Call(job[p].mandate)
      BY <1>3, <2>2
    <3> QED
      BY ONLY <2>1, <3>1 DEF L!Next, L!Call
  <2>3. CASE ReserveCas(p)
    <3>1. L!Reserve(job[p].mandate) \/ UNCHANGED L!vars
      BY <1>4, <2>3
    <3> QED
      BY <2>1, <3>1 DEF L!Next
  <2>4. CASE ConsumeCas(p) \/ QuarantineCas(p)
    BY ONLY <1>5, <1>6, <2>1, <2>4, p \in Dispatchers DEF L!Next
  <2> QED
    BY <1>11, <2>2, <2>3, <2>4
<1>12. ASSUME NEW o \in Operators, ReconcileCas(o) \/ AbandonCas(o)
       PROVE  L!Next \/ UNCHANGED L!vars
  <2>1. ojob[o].mandate \in Mandates
    BY <1>12 DEF ReconcileCas, AbandonCas, OperatorCas
  <2> QED
    BY ONLY <1>7, <1>8, <1>12, <2>1 DEF L!Next
<1> QED
  BY ONLY [Next]_vars, <1>9, <1>10, <1>11, <1>12
  DEF Next, Environment, DispatcherStep, OperatorStep

-----------------------------------------------------------------------------

\* The invariants of disciplined callers: who holds a mandate, what its version
\* tells, and what every caller at work may rely on.
THEOREM DisciplinedInvariant ==
    ASSUME Disciplined PROVE Spec => [](IInv /\ VInv /\ JournalIsOnItsWay)
<1>1. IInv /\ VInv /\ JournalIsOnItsWay /\ [Next]_vars
         => (IInv /\ VInv /\ JournalIsOnItsWay)'
  BY InvStep, VInvStep, JournalStep
<1> QED
  BY <1>1, InvInit, VInvInit, JournalInit, PTL DEF Spec

\* Two callers of reserve never hold the same reservation.
THEOREM OneWinner == ASSUME Disciplined PROVE Spec => []OneConcurrentWinner
<1>1. VInv => OneConcurrentWinner
  BY DEF VInv
<1> QED
  BY <1>1, DisciplinedInvariant, PTL

\* No failure strands a mandate in a quarantine its attempt does not match.
THEOREM QuarantineCanBeLeft ==
    ASSUME Disciplined PROVE Spec => []QuarantineIsReconcilable
<1>1. VInv => QuarantineIsReconcilable
  BY DEF VInv, AttemptFollowsMandate, QuarantineIsReconcilable
<1> QED
  BY <1>1, DisciplinedInvariant, PTL

\* Nothing follows an Unknown receipt: mandate and attempt stay abandoned, and
\* no deployment id was or will be recorded for it.
THEOREM UnknownIsTheLastWord ==
    ASSUME Disciplined PROVE Spec => []UnknownReceiptIsFinal
<1>1. IInv /\ VInv => UnknownReceiptIsFinal
  BY DEF IInv, TypeOK, VInv, AttemptFollowsMandate, UnknownReceiptIsFinal
<1> QED
  BY <1>1, DisciplinedInvariant, PTL

\* A mandate nobody works on any more, and on which no call failed, has its
\* attempt, deployment id, receipt and audit events on record.
THEOREM SettledIsOnRecord == ASSUME Disciplined PROVE Spec => []SettledIsJournaled
<1>1. VInv /\ JournalIsOnItsWay => SettledIsJournaled
  <2> SUFFICES ASSUME VInv, JournalIsOnItsWay, NEW m \in Mandates, ~Served(m), m \notin failed
               PROVE  /\ mstate[m] = "consumed" =>
                            /\ recorded[m] # NoDeployment
                            /\ \/ attempt[m] = "accepted" /\ <<"consume", m>> \in audit
                               \/ attempt[m] = "reconciled" /\ <<"reconciled", m>> \in audit
                      /\ mstate[m] = "quarantined" => <<"quarantine", m>> \in audit
                      /\ mstate[m] = "abandoned" =>
                            m \in receipts /\ <<"abandoned", m>> \in audit
    BY DEF SettledIsJournaled
  <2>1. /\ \A p \in Dispatchers : pc[p] # "idle" => job[p].mandate # m
        /\ \A o \in Operators : ~Reconciling(o, m) /\ ~Abandoning(o, m)
    BY DEF Served, Reconciling, Abandoning
  <2>2. Story(m)
    BY DEF JournalIsOnItsWay
  <2>3. mstate[m] = "consumed" => version[m] \in {3, 4}
    BY DEF VInv, VersionTellsState
  <2> QED
    BY <2>1, <2>2, <2>3 DEF Story
<1> QED
  BY <1>1, DisciplinedInvariant, PTL

\* Dispatch and reconciliation implement the mandate's life cycle: whatever the
\* races, the failures and the delays, a mandate is reserved once, sent to
\* GitHub at most once, consumed only with a deployment, and never reopened.
THEOREM ImplementsLifecycle == ASSUME Disciplined PROVE Spec => Lifecycle
<1>1. Init => L!Init
  BY DEF Init, L!Init
<1>2. IInv /\ VInv /\ [Next]_vars => [L!Next]_(L!vars)
  BY LifecycleStep
<1> QED
  BY <1>1, <1>2, DisciplinedInvariant, PTL DEF Spec, Lifecycle, L!Spec

\* What dispatch.rs says of a spent mandate, that it cannot be dispatched again,
\* holds of disciplined callers: reserve compares only the version, and no
\* version of a spent mandate is that of an issued one.
THEOREM SpentIsNotReopened == ASSUME Disciplined PROVE Spec => SpentStaysSpent
<1>1. ASSUME IInv, VInv, [Next]_vars, NEW m \in Mandates, mstate[m] \in SpentStates
      PROVE  mstate'[m] # "reserved"
  <2>1. mstate \in [Mandates -> MandateStates]
    BY <1>1 DEF IInv, TypeOK
  <2>2. CASE UNCHANGED L!vars
    BY <1>1, <2>2 DEF L!vars, SpentStates
  <2>3. CASE L!Next
    BY <1>1, <2>1, <2>3
    DEF L!Next, L!Issue, L!Reserve, L!Call, L!Effect, L!Consume, L!Quarantine, L!Abandon,
        L!Move, SpentStates
  <2> QED
    BY <1>1, <2>2, <2>3, LifecycleStep
<1>2. IInv /\ VInv /\ [Next]_vars =>
         [\A m \in Mandates : mstate[m] \in SpentStates => mstate'[m] # "reserved"]_vars
  BY <1>1
<1> QED
  BY <1>2, DisciplinedInvariant, PTL DEF Spec, SpentStaysSpent

=============================================================================
