-------------------------- MODULE RequestApiProofs --------------------------
(***************************************************************************)
(* Theorems about ActionRequests, for every set of requests, callers and   *)
(* intents, with or without failures; and about RequestApi over it, for any*)
(* number of clients, handlers, keys and repeated posts, whatever versions *)
(* the bodies name.                                                        *)
(***************************************************************************)
EXTENDS RequestApi, TLAPS

-----------------------------------------------------------------------------
(* Type correctness, whatever versions the callers present *)

\* Nothing is stored and nobody is at work.
LEMMA TypeInit == Init => TypeOK
  BY DEF Init, TypeOK, IntentOrNone

\* No step of any call leaves the declared types.
LEMMA TypeStep == TypeOK /\ [Next]_vars => TypeOK'
<1> SUFFICES ASSUME TypeOK, [Next]_vars PROVE TypeOK'
  OBVIOUS
<1> USE DEF TypeOK
<1>1. ASSUME NEW c \in Callers, Propose(c) PROVE TypeOK'
  BY <1>1 DEF Propose, Start, Jobs
<1>2. ASSUME NEW c \in Callers, CheckStatus(c) PROVE TypeOK'
  BY <1>2 DEF CheckStatus, Start
<1>3. ASSUME NEW c \in Callers, SwapStatus(c) PROVE TypeOK'
  <2>1. job[c] \in Jobs /\ job[c].kind # "propose" /\ pc[c] = "swap"
    BY <1>3 DEF SwapStatus
  <2>2. job[c].request \in Requests /\ job[c].kind \in {"approve", "reject", "revoke"}
    BY <2>1 DEF Jobs
  <2>3. Verdict[job[c].kind] \in {"approved", "rejected", "revoked"}
    BY <2>2 DEF Verdict
  <2>4. UNCHANGED <<intent, decision, audit, failed>>
    BY <1>3 DEF SwapStatus
  <2>5. CASE VersionMatches(job[c].request, job[c].expected)
    <3>1. /\ status' = [status EXCEPT ![job[c].request] = Verdict[job[c].kind]]
          /\ version' = [version EXCEPT ![job[c].request] = @ + 1]
          /\ Goto(c, IF job[c].kind = "revoke" THEN "audit" ELSE "decide")
      BY <1>3, <2>5 DEF SwapStatus
    <3> QED
      BY <2>1, <2>2, <2>3, <2>4, <3>1 DEF Goto
  <2>6. CASE ~VersionMatches(job[c].request, job[c].expected)
    BY <1>3, <2>1, <2>2, <2>4, <2>6 DEF SwapStatus, Return
  <2> QED
    BY <2>5, <2>6
<1>4. ASSUME NEW c \in Callers, InsertDecision(c) PROVE TypeOK'
  <2>1. job[c] \in Jobs /\ job[c].kind \in {"approve", "reject"} /\ pc[c] = "decide"
    BY <1>4 DEF InsertDecision
  <2>2. job[c].request \in Requests /\ Decision(job[c]) \in Decisions
    BY <2>1 DEF Jobs, Decision, Decisions, Verdict
  <2> QED
    BY <1>4, <2>1, <2>2 DEF InsertDecision, Goto, Return
<1>5. ASSUME NEW c \in Callers, Audit(c) PROVE TypeOK'
  <2>1. <<job[c].kind, job[c].request>>
           \in {"propose", "approve", "reject", "revoke"} \X Requests
    BY <1>5 DEF Audit, Jobs
  <2> QED
    BY <1>5, <2>1 DEF Audit, Return
<1>6. ASSUME NEW c \in Callers, Fails(c) PROVE TypeOK'
  BY <1>6 DEF Fails, Return, Jobs
<1>7. CASE UNCHANGED vars
  BY <1>7 DEF vars
<1> QED
  BY <1>1, <1>2, <1>3, <1>4, <1>5, <1>6, <1>7 DEF Next, CallerStep

\* Every store and every call keeps its type.
THEOREM TypeCorrect == Spec => []TypeOK
<1> QED
  BY TypeInit, TypeStep, PTL DEF Spec

-----------------------------------------------------------------------------
(* The decision on record, whatever versions the callers present           *)

\* A recorded decision is never replaced, although a caller that guesses the
\* next version can swap the status again: only the insert of the decision
\* store writes it, and it refuses an identifier it knows.
THEOREM DecisionNeverChanges == Spec => DecisionIsImmutable
<1>1. ASSUME TypeOK, [Next]_vars, NEW r \in Requests, decision[r] # NoDecision
      PROVE  decision'[r] = decision[r]
  <2>1. ASSUME NEW c \in Callers, InsertDecision(c) PROVE decision'[r] = decision[r]
    BY <1>1, <2>1 DEF InsertDecision, DecisionIsNew, TypeOK
  <2>2. ASSUME NEW c \in Callers,
               Propose(c) \/ CheckStatus(c) \/ SwapStatus(c) \/ Audit(c) \/ Fails(c)
        PROVE  UNCHANGED decision
    BY <2>2 DEF Propose, CheckStatus, SwapStatus, Audit, Fails
  <2>3. CASE UNCHANGED vars
    BY <2>3 DEF vars
  <2> QED
    BY <1>1, <2>1, <2>2, <2>3 DEF Next, CallerStep
<1>2. TypeOK /\ [Next]_vars =>
        [\A r \in Requests : decision[r] # NoDecision => decision'[r] = decision[r]]_vars
  BY <1>1
<1> QED
  BY <1>2, TypeCorrect, PTL DEF Spec, DecisionIsImmutable

\* The verdict on record for a request.
Decided(r, verdict) == decision[r] # NoDecision /\ decision[r].verdict = verdict

\* A caller about to audit an approval or a rejection has put it on record.
AuditInv ==
    /\ TypeOK
    /\ AuditAgreesWithDecision
    /\ \A c \in Callers : pc[c] = "audit" =>
          /\ job[c].kind = "approve" => Decided(job[c].request, "approved")
          /\ job[c].kind = "reject" => Decided(job[c].request, "rejected")

\* Every step, at whatever version, keeps audit log and decisions consistent.
LEMMA AuditInvStep == AuditInv /\ [Next]_vars => AuditInv'
<1> SUFFICES ASSUME AuditInv, [Next]_vars PROVE AuditInv'
  OBVIOUS
<1>0. TypeOK /\ TypeOK'
  BY TypeStep DEF AuditInv
<1> USE DEF AuditInv, AuditAgreesWithDecision, Decided
<1>1. ASSUME NEW c \in Callers, Propose(c) PROVE AuditInv'
  BY <1>0, <1>1 DEF Propose, Start, TypeOK
<1>2. ASSUME NEW c \in Callers, CheckStatus(c) PROVE AuditInv'
  BY <1>0, <1>2 DEF CheckStatus, Start, TypeOK
<1>3. ASSUME NEW c \in Callers, SwapStatus(c) PROVE AuditInv'
  BY <1>0, <1>3 DEF SwapStatus, Goto, Return, TypeOK
<1>4. ASSUME NEW c \in Callers, InsertDecision(c) PROVE AuditInv'
  <2> DEFINE r == job[c].request
  <2>1. /\ pc[c] = "decide" /\ r \in Requests
        /\ job[c].kind \in {"approve", "reject"} /\ job[c] \in Jobs
    BY <1>0, <1>4 DEF InsertDecision, TypeOK, Jobs
  <2>2. /\ Decision(job[c]) # NoDecision
        /\ job[c].kind = "approve" => Decision(job[c]).verdict = "approved"
        /\ job[c].kind = "reject" => Decision(job[c]).verdict = "rejected"
    BY <2>1, DecisionAssumption DEF Decision, Decisions, Verdict, Jobs
  <2>3. CASE DecisionIsNew(r)
    <3>1. /\ decision' = [decision EXCEPT ![r] = Decision(job[c])]
          /\ Goto(c, "audit") /\ UNCHANGED audit
      BY <1>4, <2>3 DEF InsertDecision
    <3>2. \A s \in Requests : decision[s] # NoDecision => decision'[s] = decision[s]
      BY <1>0, <2>3, <3>1 DEF DecisionIsNew, TypeOK
    <3>3. \A d \in Callers : pc[d] = "audit" => job[d].request \in Requests
      BY <1>0 DEF TypeOK, Jobs
    <3>4. decision'[r] = Decision(job[c])
      BY <1>0, <2>1, <3>1 DEF TypeOK
    <3> QED
      BY <1>0, <2>1, <2>2, <3>1, <3>2, <3>3, <3>4 DEF Goto, TypeOK
  <2>4. CASE ~DecisionIsNew(r)
    BY <1>0, <1>4, <2>4 DEF InsertDecision, Return, TypeOK
  <2> QED
    BY <2>3, <2>4
<1>5. ASSUME NEW c \in Callers, Audit(c) PROVE AuditInv'
  BY <1>0, <1>5 DEF Audit, Return, TypeOK
<1>6. ASSUME NEW c \in Callers, Fails(c) PROVE AuditInv'
  BY <1>0, <1>6 DEF Fails, Return, TypeOK
<1>7. CASE UNCHANGED vars
  BY <1>0, <1>7 DEF vars, TypeOK
<1> QED
  BY <1>1, <1>2, <1>3, <1>4, <1>5, <1>6, <1>7 DEF Next, CallerStep

\* Even callers that guess versions, and so decide a status twice, cannot make
\* the audit log contradict the decision on record, or audit two verdicts.
THEOREM AuditNeverContradicts == Spec => []AuditAgreesWithDecision
<1>1. Init => AuditInv
  BY TypeInit DEF Init, AuditInv, AuditAgreesWithDecision
<1>2. AuditInv => AuditAgreesWithDecision
  BY DEF AuditInv
<1> QED
  BY <1>1, <1>2, AuditInvStep, PTL DEF Spec

-----------------------------------------------------------------------------
(* The life cycle, for callers that present the version they were shown    *)

\* Nothing has been decided.
LEMMA DInvInit == Init => DInv
<1> SUFFICES ASSUME Init PROVE DInv
  OBVIOUS
<1> QED
  BY TypeInit DEF Init, DInv, DecisionMatchesStatus, SoleDecider

\* What a swap that succeeds found, and what it leaves: an approval or a
\* rejection applies to a pending request, a revocation to an approved one.
LEMMA SwapFound ==
    ASSUME Disciplined, DInv, NEW c \in Callers, SwapStatus(c),
           VersionMatches(job[c].request, job[c].expected)
    PROVE  LET j == job[c]
               r == job[c].request
           IN  \/ /\ j.kind \in {"approve", "reject"} /\ status[r] = "pending"
                  /\ version[r] = 1
               \/ /\ j.kind = "revoke" /\ status[r] = "approved"
                  /\ version[r] = 2
<1> DEFINE j == job[c]
           r == job[c].request
<1>1. j \in Jobs /\ j.kind # "propose" /\ pc[c] = "swap"
  BY DEF SwapStatus, DInv, TypeOK
<1>2. r \in Requests
  BY <1>1 DEF Jobs
<1>3. CASE j.kind \in {"approve", "reject"}
  <2>1. j.expected = 1
    BY <1>1, <1>3 DEF Jobs, Disciplined
  <2> QED
    BY <1>2, <1>3, <2>1 DEF VersionMatches, DInv
<1>4. CASE j.kind = "revoke"
  <2>1. j.expected = 2
    BY <1>1, <1>4 DEF Jobs, Disciplined
  <2>2. status[r] \in {"approved", "revoked"}
    BY <1>1, <1>4 DEF DInv
  <2> QED
    BY <1>2, <1>4, <2>1, <2>2 DEF VersionMatches, DInv
<1> QED
  BY <1>1, <1>3, <1>4 DEF Jobs

\* Every step of a disciplined caller preserves DInv.
LEMMA DInvStep == ASSUME Disciplined, DInv, [Next]_vars PROVE DInv'
<1>0. TypeOK /\ TypeOK'
  BY TypeStep DEF DInv
<1> USE DEF DInv, DecisionMatchesStatus, SoleDecider
<1>1. ASSUME NEW c \in Callers, Propose(c) PROVE DInv'
  <2>1. PICK r \in Requests :
           /\ status[r] = "absent"
           /\ status' = [status EXCEPT ![r] = "pending"]
           /\ version' = [version EXCEPT ![r] = 1]
           /\ Start(c, [kind |-> "propose", request |-> r], "audit")
           /\ UNCHANGED <<decision, audit>>
    BY <1>1 DEF Propose
  <2> QED
    BY <1>0, <2>1 DEF Start, TypeOK, Jobs
<1>2. ASSUME NEW c \in Callers, CheckStatus(c) PROVE DInv'
  <2>1. PICK j \in Jobs :
           /\ j.kind # "propose" /\ status[j.request] \in Required(j.kind)
           /\ Start(c, j, "swap")
    BY <1>2 DEF CheckStatus
  <2>2. UNCHANGED <<status, version, intent, decision, audit, failed>>
    BY <1>2 DEF CheckStatus
  <2> QED
    BY <1>0, <2>1, <2>2 DEF Start, TypeOK, Required
<1>3. ASSUME NEW c \in Callers, SwapStatus(c) PROVE DInv'
  <2> DEFINE r == job[c].request
  <2>1. /\ pc[c] = "swap" /\ r \in Requests /\ job[c] \in Jobs
        /\ UNCHANGED <<intent, decision, audit, failed>>
    BY <1>0, <1>3 DEF SwapStatus, TypeOK, Jobs
  <2>2. CASE VersionMatches(r, job[c].expected)
    <3>1. /\ status' = [status EXCEPT ![r] = Verdict[job[c].kind]]
          /\ version' = [version EXCEPT ![r] = @ + 1]
          /\ Goto(c, IF job[c].kind = "revoke" THEN "audit" ELSE "decide")
      BY <1>3, <2>2 DEF SwapStatus
    <3>2. CASE /\ job[c].kind \in {"approve", "reject"}
               /\ status[r] = "pending" /\ version[r] = 1
      <4>1. decision[r] = NoDecision
        BY <2>1, <3>2
      <4>2. \A d \in Callers : pc[d] = "decide" => job[d].request # r
        BY <3>2
      <4>3. \A d \in Callers : pc[d] = "swap" /\ job[d].request = r => job[d].kind # "revoke"
        BY <3>2
      <4> QED
        BY <1>0, <2>1, <3>1, <3>2, <4>1, <4>2, <4>3 DEF Goto, TypeOK, Verdict
    <3>3. CASE job[c].kind = "revoke" /\ status[r] = "approved" /\ version[r] = 2
      BY <1>0, <2>1, <3>1, <3>3 DEF Goto, TypeOK, Verdict
    <3> QED
      BY <1>3, <2>2, <3>2, <3>3, SwapFound
  <2>3. CASE ~VersionMatches(r, job[c].expected)
    BY <1>0, <1>3, <2>1, <2>3 DEF SwapStatus, Return, TypeOK
  <2> QED
    BY <2>2, <2>3
<1>4. ASSUME NEW c \in Callers, InsertDecision(c) PROVE DInv'
  <2> DEFINE r == job[c].request
  <2>1. /\ pc[c] = "decide" /\ r \in Requests
        /\ UNCHANGED <<status, version, intent, audit, failed>>
    BY <1>0, <1>4 DEF InsertDecision, TypeOK, Jobs
  <2>2. /\ decision' = [decision EXCEPT ![r] = Decision(job[c])]
        /\ Goto(c, "audit")
    BY <1>4, <2>1 DEF InsertDecision, DecisionIsNew
  <2>3. \A d \in Callers \ {c} : pc[d] = "decide" => job[d].request # r
    BY <2>1
  <2>4. \/ Decision(job[c]).verdict = "approved" /\ status[r] \in {"approved", "revoked"}
        \/ Decision(job[c]).verdict = "rejected" /\ status[r] = "rejected"
    BY <2>1 DEF Decision, Verdict
  <2> QED
    BY <1>0, <2>1, <2>2, <2>3, <2>4 DEF Goto, TypeOK
<1>5. ASSUME NEW c \in Callers, Audit(c) PROVE DInv'
  BY <1>0, <1>5 DEF Audit, Return, TypeOK
<1>6. ASSUME NEW c \in Callers, Fails(c) PROVE DInv'
  BY <1>0, <1>6 DEF Fails, Return, TypeOK
<1>7. CASE UNCHANGED vars
  BY <1>0, <1>7 DEF vars, TypeOK
<1> QED
  BY <1>1, <1>2, <1>3, <1>4, <1>5, <1>6, <1>7 DEF Next, CallerStep

\* Every step of a disciplined caller is a step of the life cycle, or none.
LEMMA LifecycleStep ==
    ASSUME Disciplined, DInv, [Next]_vars PROVE [R!Next]_status
<1>1. ASSUME NEW c \in Callers, Propose(c) PROVE R!Next
  BY <1>1 DEF Propose, R!Next, R!Propose, R!Move
<1>2. ASSUME NEW c \in Callers, SwapStatus(c) PROVE [R!Next]_status
  <2> DEFINE r == job[c].request
  <2>1. r \in Requests
    BY <1>2 DEF SwapStatus, DInv, TypeOK, Jobs
  <2>2. CASE VersionMatches(r, job[c].expected)
    <3>1. status' = [status EXCEPT ![r] = Verdict[job[c].kind]]
      BY <1>2, <2>2 DEF SwapStatus
    <3>2. \/ job[c].kind \in {"approve", "reject"} /\ status[r] = "pending"
          \/ job[c].kind = "revoke" /\ status[r] = "approved"
      BY <1>2, <2>2, SwapFound
    <3>3. R!Decide(r) \/ R!Revoke(r)
      <4> USE DEF R!Decide, R!Revoke, R!Move
      <4>1. CASE job[c].kind = "approve" /\ status[r] = "pending"
        <5>1. Verdict[job[c].kind] = "approved"
          BY <4>1 DEF Verdict
        <5> QED
          BY <3>1, <4>1, <5>1
      <4>2. CASE job[c].kind = "reject" /\ status[r] = "pending"
        <5>1. Verdict[job[c].kind] = "rejected"
          BY <4>2 DEF Verdict
        <5> QED
          BY <3>1, <4>2, <5>1
      <4>3. CASE job[c].kind = "revoke" /\ status[r] = "approved"
        <5>1. Verdict[job[c].kind] = "revoked"
          BY <4>3 DEF Verdict
        <5> QED
          BY <3>1, <4>3, <5>1
      <4> QED
        BY <3>2, <4>1, <4>2, <4>3
    <3> QED
      BY <2>1, <3>3 DEF R!Next
  <2>3. CASE ~VersionMatches(r, job[c].expected)
    BY <1>2, <2>3 DEF SwapStatus
  <2> QED
    BY <2>2, <2>3
<1>3. ASSUME NEW c \in Callers,
             CheckStatus(c) \/ InsertDecision(c) \/ Audit(c) \/ Fails(c)
      PROVE  UNCHANGED status
  BY <1>3 DEF CheckStatus, InsertDecision, Audit, Fails
<1>4. CASE UNCHANGED vars
  BY <1>4 DEF vars
<1> QED
  BY <1>1, <1>2, <1>3, <1>4 DEF Next, CallerStep

\* The invariant of disciplined callers.
THEOREM DisciplinedInvariant == ASSUME Disciplined PROVE Spec => []DInv
<1>1. DInv /\ [Next]_vars => DInv'
  BY DInvStep
<1> QED
  BY <1>1, DInvInit, PTL DEF Spec

\* The decision on record is the one the status came from: no race and no
\* failure leaves a request approved under a recorded rejection.
THEOREM StatusOfTheDecision == ASSUME Disciplined PROVE Spec => []DecisionMatchesStatus
<1>1. DInv => DecisionMatchesStatus
  BY DEF DInv
<1> QED
  BY <1>1, DisciplinedInvariant, PTL

\* Approval, rejection and revocation implement the life cycle: whatever the
\* races and the failures, a request is decided once.
THEOREM ImplementsLifecycle == ASSUME Disciplined PROVE Spec => Lifecycle
<1>1. Init => R!Init
  BY DEF Init, R!Init
<1>2. DInv /\ [Next]_vars => [R!Next]_status
  BY LifecycleStep
<1> QED
  BY <1>1, <1>2, DisciplinedInvariant, PTL DEF Spec, Lifecycle, R!Spec

-----------------------------------------------------------------------------
(* The record of requests on which no call has failed *)

\* A story stays told, or its tellers at work, in a step that leaves the
\* request's row, its decision and its tellers alone.
LEMMA StoryKept ==
    ASSUME NEW r \in Requests, Story(r),
           status'[r] = status[r], decision'[r] = decision[r], audit \subseteq audit',
           \A c \in Callers :
              pc[c] \in {"decide", "audit"} /\ job[c].request = r =>
                 pc'[c] = pc[c] /\ job'[c] = job[c]
    PROVE  Story(r)'
<1>1. ASSUME NEW kind, Telling(kind, r) PROVE Telling(kind, r)'
  BY <1>1 DEF Telling
<1> QED
  BY <1>1 DEF Story

\* Every step of disciplined callers keeps every story told or being told.
LEMMA RecordStep ==
    ASSUME Disciplined, DInv, RecordIsOnItsWay, [Next]_vars
    PROVE  RecordIsOnItsWay'
<1> SUFFICES ASSUME NEW n \in Requests, n \notin failed' PROVE Story(n)'
  BY DEF RecordIsOnItsWay
<1> TypeOK
  BY DEF DInv
<1> Story(n)
  <2>1. failed \subseteq failed'
    BY DEF Next, CallerStep, Propose, CheckStatus, SwapStatus, InsertDecision, Audit, Fails,
           vars
  <2> QED
    BY <2>1 DEF RecordIsOnItsWay
<1> USE DEF TypeOK
<1>1. ASSUME NEW c \in Callers, Propose(c) PROVE Story(n)'
  <2>1. PICK r \in Requests : /\ status[r] = "absent"
                              /\ status' = [status EXCEPT ![r] = "pending"]
                              /\ \E j : Start(c, j, "audit")
                              /\ UNCHANGED <<decision, audit>>
    BY <1>1 DEF Propose
  <2>2. CASE n = r
    <3>1. status'[n] = "pending"
      BY <2>1, <2>2
    <3> QED
      BY <3>1 DEF Story
  <2>3. CASE n # r
    BY <2>1, <2>3, StoryKept DEF Start
  <2> QED
    BY <2>2, <2>3
<1>2. ASSUME NEW c \in Callers, CheckStatus(c) PROVE Story(n)'
  BY <1>2, StoryKept DEF CheckStatus, Start
<1>3. ASSUME NEW c \in Callers, SwapStatus(c) PROVE Story(n)'
  <2> DEFINE j == job[c]
             r == job[c].request
  <2>1. /\ pc[c] = "swap" /\ j \in Jobs /\ r \in Requests
        /\ UNCHANGED <<intent, decision, audit, failed>>
    BY <1>3 DEF SwapStatus, Jobs
  <2>2. CASE ~VersionMatches(r, j.expected) \/ n # r
    BY <1>3, <2>1, <2>2, StoryKept DEF SwapStatus, Goto, Return
  <2>3. CASE VersionMatches(r, j.expected) /\ n = r
    <3>1. /\ status'[n] = Verdict[j.kind]
          /\ pc' = [pc EXCEPT ![c] = IF j.kind = "revoke" THEN "audit" ELSE "decide"]
          /\ UNCHANGED job
      BY <1>3, <2>1, <2>3 DEF SwapStatus, Goto
    <3>2. CASE j.kind \in {"approve", "reject"}
      <4>1. /\ Verdict[j.kind] = IF j.kind = "approve" THEN "approved" ELSE "rejected"
            /\ pc'[c] = "decide" /\ job'[c].request = n /\ job'[c].kind = j.kind
        BY <2>1, <2>3, <3>1, <3>2 DEF Verdict
      <4>2. Telling(j.kind, n)'
        BY <4>1 DEF Telling
      <4> QED
        BY <3>1, <3>2, <4>1, <4>2 DEF Story
    <3>3. CASE j.kind = "revoke" /\ status[r] = "approved"
      <4>1. status'[n] = "revoked" /\ pc'[c] = "audit"
        BY <3>1, <3>3, <2>1 DEF Verdict
      <4>2. Telling("revoke", n)'
        BY <2>3, <3>1, <3>3, <4>1 DEF Telling
      <4>3. Telling("approve", n) => Telling("approve", n)'
        BY <2>1, <3>1 DEF Telling
      <4>4. ASSUME NEW d \in Callers, pc[d] = "decide" PROVE pc'[d] = "decide"
        BY <2>1, <3>1, <4>4
      <4> QED
        BY <2>1, <2>3, <3>1, <3>3, <4>1, <4>2, <4>3, <4>4 DEF Story
    <3> QED
      BY <1>3, <2>3, <3>2, <3>3, SwapFound
  <2> QED
    BY <2>2, <2>3
<1>4. ASSUME NEW c \in Callers, InsertDecision(c) PROVE Story(n)'
  <2> DEFINE r == job[c].request
  <2>1. /\ pc[c] = "decide" /\ r \in Requests /\ decision[r] = NoDecision
        /\ job[c].kind \in {"approve", "reject"} /\ job[c] \in Jobs
        /\ UNCHANGED <<status, version, intent, audit, failed>>
    BY <1>4 DEF InsertDecision, Jobs, DInv
  <2>2. /\ decision' = [decision EXCEPT ![r] = Decision(job[c])]
        /\ pc' = [pc EXCEPT ![c] = "audit"] /\ UNCHANGED job
    BY <1>4, <2>1 DEF InsertDecision, DecisionIsNew, Goto
  <2>3. CASE n = r
    <3>1. decision'[n] # NoDecision
      <4>1. Decision(job[c]) \in Decisions
        BY <2>1 DEF Decision, Decisions, Verdict, Jobs
      <4> QED
        BY <2>1, <2>2, <2>3, <4>1, DecisionAssumption
    <3>2. ASSUME NEW kind, Telling(kind, n) PROVE Telling(kind, n)'
      BY <2>1, <2>2, <3>2 DEF Telling
    <3> QED
      BY <2>1, <3>1, <3>2 DEF Story
  <2>4. CASE n # r
    BY <2>1, <2>2, <2>4, StoryKept
  <2> QED
    BY <2>3, <2>4
<1>5. ASSUME NEW c \in Callers, Audit(c) PROVE Story(n)'
  <2> DEFINE k == job[c].kind
             r == job[c].request
  <2>1. /\ pc[c] = "audit" /\ UNCHANGED <<status, decision>>
        /\ audit' = audit \cup {<<k, r>>}
        /\ \A d \in Callers \ {c} : pc'[d] = pc[d] /\ job'[d] = job[d]
    BY <1>5 DEF Audit, Return
  <2>2. CASE n # r
    BY <2>1, <2>2, StoryKept
  <2>3. CASE n = r
    <3>1. ASSUME NEW kind, Telling(kind, n)
          PROVE  <<kind, n>> \in audit' \/ Telling(kind, n)'
      BY <2>1, <2>3, <3>1 DEF Telling
    <3> QED
      BY <2>1, <3>1 DEF Story
  <2> QED
    BY <2>2, <2>3
<1>6. ASSUME NEW c \in Callers, Fails(c) PROVE Story(n)'
  <2>1. n # job[c].request
    BY <1>6 DEF Fails
  <2> QED
    BY <1>6, <2>1, StoryKept DEF Fails, Return
<1>7. CASE UNCHANGED vars
  BY <1>7, StoryKept DEF vars
<1> QED
  BY <1>1, <1>2, <1>3, <1>4, <1>5, <1>6, <1>7 DEF Next, CallerStep

\* A decided request that nobody works on any more, and on which no call failed,
\* has its decision on record and an audit event for each of its decisions.
THEOREM DecisionsAreOnRecord == ASSUME Disciplined PROVE Spec => []DecidedIsOnRecord
<1>1. Init => RecordIsOnItsWay
  BY DEF Init, RecordIsOnItsWay, Story
<1>2. DInv /\ RecordIsOnItsWay /\ [Next]_vars => RecordIsOnItsWay'
  BY RecordStep
<1>3. RecordIsOnItsWay => DecidedIsOnRecord
  <2> SUFFICES ASSUME RecordIsOnItsWay, NEW r \in Requests, ~Served(r), r \notin failed
               PROVE  /\ status[r] \in {"approved", "revoked"} => <<"approve", r>> \in audit
                      /\ status[r] = "rejected" => <<"reject", r>> \in audit
                      /\ status[r] = "revoked" => <<"revoke", r>> \in audit
                      /\ status[r] \in {"approved", "rejected", "revoked"} =>
                            decision[r] # NoDecision
    BY DEF DecidedIsOnRecord
  <2>1. \A kind : ~Telling(kind, r)
    BY DEF Served, Telling
  <2>2. \A c \in Callers : ~(pc[c] = "decide" /\ job[c].request = r)
    BY DEF Served
  <2> QED
    BY <2>1, <2>2 DEF RecordIsOnItsWay, Story
<1> QED
  BY <1>1, <1>2, <1>3, DisciplinedInvariant, PTL DEF Spec

-----------------------------------------------------------------------------
(* The endpoints take the steps of the use case and no others              *)

\* A step of a handler is a step of the use case, or leaves the stores alone.
LEMMA ApiStep == [ApiNext]_allVars => [Next]_vars
<1> SUFFICES ASSUME [ApiNext]_allVars PROVE [Next]_vars
  OBVIOUS
<1>1. CASE UNCHANGED allVars
  BY <1>1 DEF allVars
<1>2. ASSUME NEW c \in Callers, Handle(c) PROVE [Next]_vars
  BY <1>2 DEF Handle, PostRefused, ProposeActionRequest, DecideActionRequest,
             GetActionRequest, Next
<1>3. ASSUME NEW c \in Callers, HandleSwap(c) \/ HandleDecision(c) \/ HandleAudit(c)
      PROVE  Next
  BY <1>3 DEF HandleSwap, HandleDecision, HandleAudit, Next, CallerStep
<1>4. ASSUME NEW c \in Callers, Refresh(c) \/ ReadDecisions(c) \/ HandleFails(c)
      PROVE  [Next]_vars
  BY <1>4 DEF Refresh, ReadDecisions, HandleFails, Next, vars
<1> QED
  BY <1>1, <1>2, <1>3, <1>4 DEF ApiNext

\* The endpoints implement the use case, so that what is proved of it holds of them: the
\* life cycle, the decision that never changes, the audit trail that agrees with it.
THEOREM ApiImplementsUseCase == ApiSpec => Spec
<1>1. ApiInit => Init
  BY DEF ApiInit
<1> QED
  BY <1>1, ApiStep, PTL DEF ApiSpec, Spec

\* Behind the endpoints, with clients that send the version they were shown, a request is
\* decided once, the decision on record is that of its status, and it is there for good.
THEOREM ApiKeepsTheRecord ==
    ASSUME Disciplined
    PROVE  ApiSpec => /\ [](DecisionMatchesStatus /\ DecidedIsOnRecord)
                      /\ DecisionIsImmutable /\ Lifecycle
  BY ApiImplementsUseCase, StatusOfTheDecision, DecisionsAreOnRecord, DecisionNeverChanges,
     ImplementsLifecycle, PTL

-----------------------------------------------------------------------------
(* Errors                                                                  *)

\* What an answer says of the call it answers.
LEMMA AnswerHonest ==
    ASSUME ClientErrorDidNothing, NEW c, NEW k, NEW code, NEW shows, NEW decided, NEW did,
           Answer(c, k, code, shows, decided, did), code \in 400..499 => ~did
    PROVE  ClientErrorDidNothing'
  BY DEF Answer, ClientErrorDidNothing

\* A call that is answered with a 4xx has changed nothing: a store that fails, or a
\* decision that is there already, after the swap is a 500 (ApiError::from).
THEOREM ClientErrorsDidNothing == ApiSpec => []ClientErrorDidNothing
<1>1. ApiInit => ClientErrorDidNothing
  BY DEF ApiInit, ClientErrorDidNothing
<1>2. ASSUME ClientErrorDidNothing, [ApiNext]_allVars PROVE ClientErrorDidNothing'
  <2>1. ASSUME UNCHANGED answers PROVE ClientErrorDidNothing'
    BY <1>2, <2>1 DEF ClientErrorDidNothing
  <2>2. ASSUME NEW c, NEW k, NEW error, NEW did, Refuse(c, k, error, did),
               error \in {"Exists", "Storage"} \/ did = FALSE
        PROVE  ClientErrorDidNothing'
    <3>1. StatusCode(error) \in 400..499 => ~did
      BY <2>2 DEF StatusCode
    <3> QED
      BY <1>2, <2>2, <3>1, AnswerHonest DEF Refuse
  <2>3. ASSUME NEW c \in Callers, Handle(c) PROVE ClientErrorDidNothing'
    BY <2>1, <2>2, <2>3 DEF Handle, PostRefused, ProposeActionRequest, DecideActionRequest,
                            GetActionRequest, Continue
  <2>4. ASSUME NEW c \in Callers, HandleSwap(c) \/ HandleDecision(c) PROVE ClientErrorDidNothing'
    BY <2>1, <2>2, <2>4 DEF HandleSwap, HandleDecision, Continue
  <2>5. ASSUME NEW c \in Callers, HandleAudit(c) \/ Refresh(c) \/ ReadDecisions(c)
        PROVE  ClientErrorDidNothing'
    BY <1>2, <2>1, <2>5 DEF HandleAudit, Refresh, ReadDecisions, Continue, Answer,
                            ClientErrorDidNothing
  <2>6. ASSUME NEW c \in Callers, HandleFails(c) PROVE ClientErrorDidNothing'
    BY <2>2, <2>6 DEF HandleFails
  <2> QED
    BY <1>2, <2>1, <2>3, <2>4, <2>5, <2>6 DEF ApiNext, allVars, apiVars
<1> QED
  BY <1>1, <1>2, PTL DEF ApiSpec

-----------------------------------------------------------------------------
(* The parts of a step: what the handler that takes it changes, and what   *)
(* every other handler can rely on.                                        *)

\* The types the argument needs.
ApiTypes ==
    /\ TypeOK
    /\ body \in [Keys -> Bodies \cup {NoBody}]
    /\ serving \in [Callers -> Keys \cup {NoKey}]
    /\ stage \in [Callers -> {"idle", "useCase", "refresh", "decisions"}]
    /\ changed \in [Callers -> BOOLEAN]
    /\ effects \in [Keys -> Nat]

\* The other handlers stand where they stood.
OthersStand(c) ==
    \A d \in Callers \ {c} :
        /\ pc'[d] = pc[d] /\ job'[d] = job[d]
        /\ serving'[d] = serving[d] /\ stage'[d] = stage[d] /\ changed'[d] = changed[d]

\* A body that was posted stays what it is.
BodiesStay == \A k \in Keys : body[k] # NoBody => body'[k] = body[k]

\* What is on record stays there, and versions only grow.
RecordStays ==
    /\ \A r \in Requests : decision[r] # NoDecision => decision'[r] = decision[r]
    /\ \A r \in Requests : version'[r] >= version[r]
    /\ \A r \in Requests : status'[r] = "absent" => version'[r] = 0
    /\ audit \subseteq audit'

\* A counter of effects stays a number.
LEMMA EffectsType ==
    ASSUME effects \in [Keys -> Nat], NEW k, NEW did,
           effects' = [effects EXCEPT ![k] = IF did THEN @ + 1 ELSE @]
    PROVE  effects' \in [Keys -> Nat]
<1>1. effects' = [x \in Keys |-> IF x = k THEN IF did THEN effects[x] + 1 ELSE effects[x]
                                          ELSE effects[x]]
  OBVIOUS
<1>2. \A x \in Keys : effects[x] + 1 \in Nat /\ effects[x] \in Nat
  OBVIOUS
<1> QED
  BY <1>1, <1>2

\* Every step keeps the types.
LEMMA ApiTypesStep == ASSUME ApiTypes, [ApiNext]_allVars PROVE ApiTypes'
<1>1. TypeOK'
  BY TypeStep, ApiStep DEF ApiTypes
<1> DEFINE HandlerTypes == /\ serving' \in [Callers -> Keys \cup {NoKey}]
                           /\ stage' \in [Callers -> {"idle", "useCase", "refresh", "decisions"}]
                           /\ changed' \in [Callers -> BOOLEAN]
           BodyType == body' \in [Keys -> Bodies \cup {NoBody}]
           EffectType == effects' \in [Keys -> Nat]
<1>2. ASSUME NEW c \in Callers, Handle(c) PROVE HandlerTypes /\ BodyType /\ EffectType
  <2>1. PICK k \in Keys, b \in Bodies :
           /\ Post(k, b)
           /\ \/ PostRefused(c, k, b)
              \/ ProposeActionRequest(c, k, b)
              \/ DecideActionRequest(c, k, b)
              \/ GetActionRequest(c, k, b)
    BY <1>2 DEF Handle
  <2>2. BodyType
    BY <2>1 DEF Post, ApiTypes
  <2>3. CASE PostRefused(c, k, b)
    <3>1. HandlerTypes
      BY <2>3 DEF PostRefused, Refuse, Answer, ApiTypes
    <3>2. effects' = [effects EXCEPT ![k] = IF FALSE THEN @ + 1 ELSE @]
      BY <2>3 DEF PostRefused, Refuse, Answer
    <3> QED
      BY <2>2, <3>1, <3>2, EffectsType DEF ApiTypes
  <2>4. CASE ~PostRefused(c, k, b)
    BY <2>1, <2>2, <2>4 DEF ProposeActionRequest, DecideActionRequest, GetActionRequest,
                            Continue, ApiTypes
  <2> QED
    BY <2>2, <2>3, <2>4
<1>3. ASSUME NEW c \in Callers,
             HandleSwap(c) \/ HandleDecision(c) \/ HandleAudit(c) \/ Refresh(c)
             \/ ReadDecisions(c) \/ HandleFails(c)
      PROVE  HandlerTypes /\ BodyType /\ EffectType
  <2>1. BodyType
    BY <1>3 DEF HandleSwap, HandleDecision, HandleAudit, Refresh, ReadDecisions, HandleFails,
                ApiTypes
  <2>2. serving[c] \in Keys \cup {NoKey} /\ changed[c] \in BOOLEAN
    BY DEF ApiTypes
  <2>3. UNCHANGED effects \/ \E did \in BOOLEAN :
           effects' = [effects EXCEPT ![serving[c]] = IF did THEN @ + 1 ELSE @]
    <3>1. CASE HandleSwap(c) \/ HandleAudit(c)
      BY <3>1 DEF HandleSwap, HandleAudit, Refuse, Answer, Continue
    <3>2. CASE HandleDecision(c) \/ HandleFails(c)
      BY <2>2, <3>2 DEF HandleDecision, HandleFails, Refuse, Answer
    <3>3. CASE Refresh(c) \/ ReadDecisions(c)
      BY <2>2, <3>3 DEF Refresh, ReadDecisions, Answer, Continue
    <3> QED
      BY <1>3, <3>1, <3>2, <3>3
  <2>4. EffectType
    BY <2>3, EffectsType DEF ApiTypes
  <2>5. CASE HandleSwap(c) \/ HandleAudit(c)
    BY <2>1, <2>2, <2>4, <2>5 DEF HandleSwap, HandleAudit, Refuse, Answer, Continue, ApiTypes
  <2>6. CASE HandleDecision(c) \/ HandleFails(c)
    BY <2>1, <2>4, <2>6 DEF HandleDecision, HandleFails, Refuse, Answer, ApiTypes
  <2>7. CASE Refresh(c) \/ ReadDecisions(c)
    BY <2>1, <2>2, <2>4, <2>7 DEF Refresh, ReadDecisions, Answer, Continue, ApiTypes
  <2> QED
    BY <1>3, <2>5, <2>6, <2>7
<1>4. ASSUME UNCHANGED allVars PROVE HandlerTypes /\ BodyType /\ EffectType
  BY <1>4 DEF allVars, apiVars, ApiTypes
<1> QED
  BY <1>1, <1>2, <1>3, <1>4 DEF ApiNext, ApiTypes

\* A step of the use case keeps what is on record.
LEMMA RecordKept ==
    ASSUME TypeOK, \A r \in Requests : status[r] = "absent" => version[r] = 0, [Next]_vars
    PROVE  RecordStays
<1> USE DEF RecordStays, TypeOK
<1>1. ASSUME NEW c \in Callers, Propose(c) PROVE RecordStays
  BY <1>1 DEF Propose
<1>2. ASSUME NEW c \in Callers, SwapStatus(c) PROVE RecordStays
  <2>1. job[c] \in Jobs /\ job[c].kind \in {"approve", "reject", "revoke"}
    BY <1>2 DEF SwapStatus, Jobs
  <2>2. Verdict[job[c].kind] # "absent" /\ job[c].request \in Requests
    BY <2>1 DEF Verdict, Jobs
  <2> QED
    BY <1>2, <2>2 DEF SwapStatus
<1>3. ASSUME NEW c \in Callers, InsertDecision(c) PROVE RecordStays
  BY <1>3 DEF InsertDecision, DecisionIsNew
<1>4. ASSUME NEW c \in Callers, CheckStatus(c) \/ Audit(c) \/ Fails(c) PROVE RecordStays
  BY <1>4 DEF CheckStatus, Audit, Fails
<1>5. CASE UNCHANGED vars
  BY <1>5 DEF vars
<1> QED
  BY <1>1, <1>2, <1>3, <1>4, <1>5 DEF Next, CallerStep

\* A handler's step leaves the other handlers where they stand, forgets no answer, and
\* changes no body.
LEMMA StepOfOne ==
    ASSUME ApiTypes, NEW c \in Callers,
           Handle(c) \/ HandleSwap(c) \/ HandleDecision(c) \/ HandleAudit(c) \/ Refresh(c)
           \/ ReadDecisions(c) \/ HandleFails(c)
    PROVE  OthersStand(c) /\ BodiesStay /\ answers \subseteq answers'
<1> USE DEF OthersStand, BodiesStay, ApiTypes, TypeOK
<1>1. CASE Handle(c)
  <2>1. PICK k \in Keys, b \in Bodies :
           /\ Post(k, b)
           /\ \/ PostRefused(c, k, b)
              \/ ProposeActionRequest(c, k, b)
              \/ DecideActionRequest(c, k, b)
              \/ GetActionRequest(c, k, b)
    BY <1>1 DEF Handle
  <2>2. BodiesStay
    BY <2>1 DEF Post
  <2>3. CASE PostRefused(c, k, b)
    BY <2>2, <2>3 DEF PostRefused, Refuse, Answer, vars
  <2>4. CASE ProposeActionRequest(c, k, b)
    BY <2>2, <2>4 DEF ProposeActionRequest, Propose, Start, Continue
  <2>5. CASE DecideActionRequest(c, k, b) \/ GetActionRequest(c, k, b)
    BY <2>2, <2>5 DEF DecideActionRequest, GetActionRequest, CheckStatus, Start, Continue, vars
  <2> QED
    BY <2>1, <2>3, <2>4, <2>5
<1>2. CASE HandleSwap(c)
  BY <1>2 DEF HandleSwap, SwapStatus, Goto, Return, Continue, Refuse, Answer
<1>3. CASE HandleDecision(c)
  BY <1>3 DEF HandleDecision, InsertDecision, Goto, Return, Refuse, Answer
<1>4. CASE HandleAudit(c)
  BY <1>4 DEF HandleAudit, Audit, Return, Continue, Answer
<1>5. CASE Refresh(c) \/ ReadDecisions(c)
  BY <1>5 DEF Refresh, ReadDecisions, Continue, Answer, vars
<1>6. CASE HandleFails(c)
  BY <1>6 DEF HandleFails, Fails, Return, Refuse, Answer, vars
<1> QED
  BY <1>1, <1>2, <1>3, <1>4, <1>5, <1>6

-----------------------------------------------------------------------------
(* What the handler that takes the step has to show for the invariant      *)

\* A key gets no new handler that acts for it; or is a proposal's; or its handler has
\* answered; or its swap went through.
KeyMove(c, k) ==
    \/ effects'[k] = effects[k] /\ (Acting(c, k)' => Acting(c, k))
    \/ body'[k] # NoBody /\ body'[k].kind = "propose"
    \/ Acting(c, k) /\ ~Acting(c, k)' /\ effects'[k] = effects[k] + 1
    \/ /\ Acting(c, k)' /\ effects'[k] = effects[k]
       /\ body[k] # NoBody /\ ~Spent(body[k]) /\ Spent(body[k])'

\* No key is credited that was not, except for a decision that is new.
CreditMove ==
    \E new \in SUBSET Keys :
        /\ \A k \in Keys \ new : Credited(k)' => Credited(k)
        /\ \A k, l \in new : k = l
        /\ \A k \in new :
              /\ body[k] # NoBody /\ body[k].request \in Requests
              /\ decision[body[k].request] = NoDecision
              /\ decision'[body[k].request] = Decision(body[k])

\* A new answer is to a post, and shows what is on record.
AnswerMove(c) ==
    /\ stage'[c] \in {"refresh", "decisions"} => Audited(Serving(c))'
    /\ \A a \in answers' \ answers :
          /\ a.key \in Keys /\ body'[a.key] # NoBody
          /\ a.code = 200 /\ Decides(a)' =>
                /\ Audited(body[a.key])'
                /\ a.decisions = {decision'[body'[a.key].request]}

\* What holds of the handlers that stand.
LEMMA OthersKnow ==
    ASSUME ApiTypes, ApiInv, NEW c \in Callers, OthersStand(c), BodiesStay,
           NEW d \in Callers, d # c
    PROVE  /\ HandlerKnows(d)' /\ (Effective(d)' <=> Effective(d))
           /\ \A k : Acting(d, k)' <=> Acting(d, k)
           /\ stage[d] # "idle" => Serving(d)' = Serving(d)
<1>1. /\ pc'[d] = pc[d] /\ job'[d] = job[d] /\ serving'[d] = serving[d]
      /\ stage'[d] = stage[d] /\ changed'[d] = changed[d] /\ HandlerKnows(d)
  BY DEF OthersStand, ApiInv
<1>2. stage[d] # "idle" => Serving(d)' = Serving(d)
  BY <1>1 DEF HandlerKnows, Serving, BodiesStay
<1>3. Effective(d)' <=> Effective(d)
  BY <1>1, <1>2 DEF Effective
<1>4. \A k : Acting(d, k)' <=> Acting(d, k)
  BY <1>1, <1>3 DEF Acting
<1>5. HandlerKnows(d)'
  <2>1. CASE stage[d] = "idle"
    BY <1>1, <1>3, <2>1 DEF HandlerKnows
  <2>2. CASE stage[d] # "idle"
    BY <1>1, <1>2, <1>3, <2>2 DEF HandlerKnows
  <2> QED
    BY <2>1, <2>2
<1> QED
  BY <1>2, <1>3, <1>4, <1>5

\* A body of the decision kinds names a request and a version.
LEMMA DecideBody ==
    ASSUME NEW b \in Bodies
    PROVE  /\ b.kind \in {"unnamed", "propose", "get", "approve", "reject", "revoke"}
           /\ b.kind \in {"get", "approve", "reject", "revoke"} => b.request \in Requests
           /\ b.kind \in {"approve", "reject", "revoke"} => b \in Jobs /\ b.expected \in Nat
           /\ b.kind \in {"approve", "reject"} => Decision(b) \in Decisions
<1>1. CASE b \in [kind : {"approve", "reject"}, request : Requests, intent : IntentOrNone,
                  expected : DecideVersions]
  <2>1. b \in Jobs /\ b.expected \in Nat /\ b.request \in Requests /\ b.intent \in IntentOrNone
    BY <1>1, VersionsAssumption DEF Jobs
  <2>2. b.kind \in {"approve", "reject"} /\ Verdict[b.kind] \in {"approved", "rejected"}
    BY <1>1 DEF Verdict
  <2> QED
    BY <2>1, <2>2 DEF Decision, Decisions
<1>2. CASE b \in [kind : {"revoke"}, request : Requests, expected : RevokeVersions]
  BY <1>2, VersionsAssumption DEF Jobs
<1>3. CASE b \in [kind : {"unnamed"}] \cup [kind : {"propose"}, intent : IntentOrNone]
                 \cup [kind : {"get"}, request : Requests]
                 \cup [kind : {"propose"}, request : Requests]
  BY <1>3
<1> QED
  BY <1>1, <1>2, <1>3 DEF Bodies, Jobs

\* Each key keeps its part of the invariant.
LEMMA KeyStep ==
    ASSUME ApiTypes, ApiTypes', ApiInv, NEW c \in Callers, OthersStand(c), BodiesStay,
           RecordStays, NEW k \in Keys, KeyMove(c, k)
    PROVE  KeyIsSpent(k)'
<1>0. /\ KeyIsSpent(k) /\ effects[k] \in Nat /\ effects'[k] \in Nat
      /\ body[k] \in Bodies \cup {NoBody}
  BY DEF ApiInv, ApiTypes
<1>1. \A d \in Callers \ {c} : Acting(d, k)' <=> Acting(d, k)
  BY OthersKnow
<1>2. CASE body'[k] # NoBody /\ body'[k].kind = "propose"
  BY <1>2 DEF KeyIsSpent
<1>3. CASE body[k] = NoBody
  <2>1. \A d \in Callers : ~Acting(d, k)
    BY <1>3 DEF ApiInv, HandlerKnows, Acting, Effective, Serving
  <2>2. effects[k] = 0
    BY <1>0, <1>3 DEF KeyIsSpent
  <2>3. CASE effects'[k] = effects[k] /\ (Acting(c, k)' => Acting(c, k))
    <3>1. \A d \in Callers : ~Acting(d, k)'
      BY <1>1, <2>1, <2>3
    <3> QED
      BY <2>2, <2>3, <3>1 DEF KeyIsSpent
  <2> QED
    BY <1>2, <1>3, <2>1, <2>3 DEF KeyMove
<1>4. CASE body[k] # NoBody /\ body[k].kind # "propose"
  <2>0. body'[k] = body[k] /\ body[k] \in Bodies
    BY <1>0, <1>4 DEF BodiesStay
  <2>1. Spent(body[k]) => Spent(body[k])'
    <3>1. ASSUME Spent(body[k]) PROVE Spent(body[k])'
      <4> DEFINE r == body[k].request
      <4>1. r \in Requests /\ body[k].expected \in Nat
        BY <2>0, <3>1, DecideBody DEF Spent
      <4>2. version[r] \in Nat /\ version'[r] \in Nat /\ version'[r] >= version[r]
        BY <4>1 DEF RecordStays, ApiTypes, TypeOK
      <4> QED
        BY <2>0, <3>1, <4>1, <4>2 DEF Spent
    <3> QED
      BY <3>1
  <2>2. /\ effects[k] <= 1
        /\ effects[k] = 1 \/ (\E d \in Callers : Acting(d, k)) => Spent(body[k])
        /\ \A d \in Callers : Acting(d, k) => effects[k] = 0
        /\ \A d, e \in Callers : Acting(d, k) /\ Acting(e, k) => d = e
    BY <1>0, <1>4 DEF KeyIsSpent
  <2> SUFFICES /\ effects'[k] <= 1
               /\ effects'[k] = 1 \/ (\E d \in Callers : Acting(d, k)') => Spent(body[k])'
               /\ \A d \in Callers : Acting(d, k)' => effects'[k] = 0
               /\ \A d, e \in Callers : Acting(d, k)' /\ Acting(e, k)' => d = e
    BY <1>4, <2>0 DEF KeyIsSpent
  <2>3. CASE effects'[k] = effects[k] /\ (Acting(c, k)' => Acting(c, k))
    BY <1>1, <2>1, <2>2, <2>3
  <2>4. CASE Acting(c, k) /\ ~Acting(c, k)' /\ effects'[k] = effects[k] + 1
    <3>1. effects[k] = 0 /\ Spent(body[k]) /\ \A d \in Callers : ~Acting(d, k)'
      BY <1>1, <2>2, <2>4
    <3> QED
      BY <2>1, <2>4, <3>1
  <2>5. CASE Acting(c, k)' /\ effects'[k] = effects[k] /\ ~Spent(body[k]) /\ Spent(body[k])'
    <3>1. effects[k] = 0 /\ \A d \in Callers : ~Acting(d, k)
      BY <1>0, <2>2, <2>5
    <3> QED
      BY <1>1, <2>5, <3>1
  <2> QED
    BY <1>2, <1>4, <2>0, <2>3, <2>4, <2>5 DEF KeyMove
<1>5. CASE body[k] # NoBody /\ body[k].kind = "propose"
  BY <1>2, <1>5 DEF BodiesStay
<1> QED
  BY <1>3, <1>4, <1>5

\* The decision of a credited key stays on record, and no second key is credited.
LEMMA CreditStep ==
    ASSUME ApiTypes, ApiTypes', ApiInv, BodiesStay, RecordStays, CreditMove
    PROVE  CreditIsDue'
<1>0. CreditIsDue
  BY DEF ApiInv
<1>1. PICK new \in SUBSET Keys :
        /\ \A k \in Keys \ new : Credited(k)' => Credited(k)
        /\ \A k, l \in new : k = l
        /\ \A k \in new :
              /\ body[k] # NoBody /\ body[k].request \in Requests
              /\ decision[body[k].request] = NoDecision
              /\ decision'[body[k].request] = Decision(body[k])
  BY DEF CreditMove
<1>2. ASSUME NEW k \in Keys \ new, Credited(k)'
      PROVE  /\ body'[k] = body[k] /\ body[k].request \in Requests
             /\ Credited(k) /\ decision[body[k].request] # NoDecision
             /\ decision'[body'[k].request] = Decision(body[k])
  <2>1. Credited(k) /\ body[k] \in Bodies /\ body[k].kind \in {"approve", "reject"}
        /\ body'[k] = body[k]
    BY <1>1, <1>2 DEF Credited, BodiesStay, ApiTypes
  <2>2. body[k].request \in Requests /\ Decision(body[k]) \in Decisions
    BY <2>1, DecideBody
  <2>3. decision[body[k].request] = Decision(body[k])
    BY <1>0, <2>1 DEF CreditIsDue
  <2> QED
    BY <2>1, <2>2, <2>3, DecisionAssumption DEF RecordStays
<1>3. ASSUME NEW k \in new PROVE body'[k] = body[k]
  BY <1>1, <1>3 DEF BodiesStay
<1>4. ASSUME NEW k \in Keys, Credited(k)'
      PROVE  decision'[body'[k].request] = Decision(body'[k])
  BY <1>1, <1>2, <1>3, <1>4
<1>5. ASSUME NEW k \in Keys, NEW l \in Keys, Credited(k)', Credited(l)',
             body'[k].request = body'[l].request
      PROVE  k = l
  <2>1. CASE k \in new /\ l \in new
    BY <1>1, <2>1
  <2>2. CASE k \notin new /\ l \notin new
    BY <1>0, <1>2, <1>5, <2>2 DEF CreditIsDue
  <2>3. CASE (k \in new /\ l \notin new) \/ (k \notin new /\ l \in new)
    BY <1>1, <1>2, <1>3, <1>5, <2>3
  <2> QED
    BY <2>1, <2>2, <2>3
<1>6. \A k \in Keys : Credited(k)' => decision'[body'[k].request] = Decision(body'[k])
  BY <1>4
<1>7. \A k, l \in Keys :
         Credited(k)' /\ Credited(l)' /\ body'[k].request = body'[l].request => k = l
  BY <1>5
<1>8. \A k \in Keys : Decision(body'[k]) = Decision(body[k])'
  BY DEF Decision
<1> QED
  BY <1>6, <1>7, <1>8 DEF CreditIsDue

\* What an answer has shown stays true.
LEMMA AnswersStep ==
    ASSUME ApiTypes, ApiInv, NEW c \in Callers, OthersStand(c), BodiesStay, RecordStays,
           AnswerMove(c)
    PROVE  AnswersAreBacked'
<1>0. AnswersAreBacked /\ CreditIsDue
  BY DEF ApiInv
<1>1. ASSUME NEW d \in Callers, stage'[d] \in {"refresh", "decisions"}
      PROVE  Audited(Serving(d))'
  <2>1. CASE d = c
    BY <1>1, <2>1 DEF AnswerMove
  <2>2. CASE d # c
    <3>1. stage[d] \in {"refresh", "decisions"} /\ Serving(d)' = Serving(d)
      BY <1>1, <2>2, OthersKnow DEF OthersStand
    <3> QED
      BY <1>0, <3>1 DEF AnswersAreBacked, Audited, RecordStays
  <2> QED
    BY <2>1, <2>2
<1>2. ASSUME NEW a \in answers
      PROVE  /\ a.key \in Keys /\ body'[a.key] # NoBody
             /\ a.code = 200 /\ Decides(a)' =>
                   /\ Audited(body[a.key])'
                   /\ a.decisions = {decision'[body'[a.key].request]}
  <2>1. a.key \in Keys /\ body[a.key] # NoBody /\ body'[a.key] = body[a.key]
    BY <1>0 DEF AnswersAreBacked, BodiesStay
  <2>2. ASSUME a.code = 200, Decides(a)
        PROVE  /\ Audited(body[a.key])'
               /\ a.decisions = {decision'[body'[a.key].request]}
    <3>1. Credited(a.key) /\ body[a.key] \in Bodies
      BY <2>1, <2>2 DEF Credited, Decides, ApiTypes
    <3>2. decision[body[a.key].request] = Decision(body[a.key])
      BY <1>0, <2>1, <3>1 DEF CreditIsDue
    <3>3. decision'[body[a.key].request] = decision[body[a.key].request]
      BY <2>2, <3>1, <3>2, DecideBody, DecisionAssumption DEF RecordStays, Decides
    <3>4. Audited(body[a.key]) /\ a.decisions = {decision[body[a.key].request]}
      BY <1>0, <2>2 DEF AnswersAreBacked
    <3> QED
      BY <2>1, <3>3, <3>4 DEF Audited, RecordStays
  <2> QED
    BY <2>1, <2>2 DEF Decides
<1> QED
  BY <1>1, <1>2 DEF AnswersAreBacked, AnswerMove

\* What the handler that takes a step has to show.
Move(c) ==
    /\ HandlerKnows(c)'
    /\ \A k \in Keys : KeyMove(c, k)
    /\ CreditMove
    /\ AnswerMove(c)

\* With it, the invariant is kept.
LEMMA MoveKeeps ==
    ASSUME ApiTypes, ApiTypes', ApiInv, NEW c \in Callers, OthersStand(c), BodiesStay,
           RecordStays, Move(c)
    PROVE  ApiInv'
<1>1. \A d \in Callers : HandlerKnows(d)'
  BY OthersKnow DEF Move
<1>2. \A k \in Keys : KeyIsSpent(k)'
  BY KeyStep DEF Move
<1>3. CreditIsDue'
  BY CreditStep DEF Move
<1>4. AnswersAreBacked'
  BY AnswersStep DEF Move
<1> QED
  BY <1>1, <1>2, <1>3, <1>4 DEF ApiInv, RecordStays

\* A step that inserts no decision credits nobody.
LEMMA NoNewCredit ==
    ASSUME ApiTypes, ApiInv, NEW c \in Callers, OthersStand(c), BodiesStay,
           PastInsert(c)' /\ Serving(c)'.kind \in {"approve", "reject"} =>
              PastInsert(c) /\ serving'[c] = serving[c],
           \A a \in answers' \ answers : a.code = 200 => PastInsert(c) /\ a.key = serving[c]
    PROVE  CreditMove
<1>1. ASSUME NEW k \in Keys, Credited(k)' PROVE Credited(k)
  <2>1. ASSUME NEW d \in Callers, serving[d] = k, PastInsert(d) PROVE Credited(k)
    <3>1. body[k] # NoBody
      BY <2>1 DEF ApiInv, HandlerKnows, PastInsert, Serving
    <3> QED
      BY <1>1, <2>1, <3>1 DEF Credited, BodiesStay
  <2>2. ASSUME NEW a \in answers, a.key = k, a.code = 200 PROVE Credited(k)
    <3>1. body[k] # NoBody
      BY <2>2 DEF ApiInv, AnswersAreBacked
    <3> QED
      BY <1>1, <2>2, <3>1 DEF Credited, BodiesStay
  <2>3. CASE \E d \in Callers : serving'[d] = k /\ PastInsert(d)'
    <3>1. PICK d \in Callers : serving'[d] = k /\ PastInsert(d)'
      BY <2>3
    <3>2. serving[d] = k /\ PastInsert(d)
      <4>1. CASE d = c
        BY <1>1, <3>1, <4>1 DEF Credited, Serving
      <4>2. CASE d # c
        BY <3>1, <4>2 DEF OthersStand, PastInsert
      <4> QED
        BY <4>1, <4>2
    <3> QED
      BY <2>1, <3>2
  <2>4. CASE \E a \in answers' : a.key = k /\ a.code = 200
    BY <2>1, <2>2, <2>4
  <2> QED
    BY <1>1, <2>3, <2>4 DEF Credited
<1> USE DEF CreditMove
<1> WITNESS {} \in SUBSET Keys
<1> QED
  BY <1>1

-----------------------------------------------------------------------------
(* The moves of a handler, action by action                                *)

\* No error is answered with a 200.
LEMMA ErrorCode == \A error : StatusCode(error) # 200
  BY DEF StatusCode

\* A post that is refused.
LEMMA RefusedMove ==
    ASSUME ApiTypes, ApiInv, NEW c \in Callers, OthersStand(c), BodiesStay,
           NEW k \in Keys, NEW b \in Bodies, stage[c] = "idle", Post(k, b),
           PostRefused(c, k, b)
    PROVE  Move(c)
<1>1. PICK error : Refuse(c, k, error, FALSE)
  BY DEF PostRefused
<1>2. /\ pc'[c] = "idle" /\ stage'[c] = "idle" /\ changed'[c] = FALSE /\ body'[k] = b
      /\ UNCHANGED vars /\ \A n \in Keys : effects'[n] = effects[n]
      /\ \A a \in answers' \ answers : a.key = k /\ a.code = StatusCode(error)
  BY <1>1 DEF Refuse, Answer, ApiTypes, ApiInv, HandlerKnows, Post, PostRefused, vars
<1>3. ~Effective(c)' /\ ~PastInsert(c)'
  BY <1>2 DEF Effective, PastInsert
<1>4. HandlerKnows(c)'
  BY <1>2, <1>3 DEF HandlerKnows
<1>5. \A n \in Keys : KeyMove(c, n)
  BY <1>2, <1>3 DEF KeyMove, Acting
<1>6. CreditMove
  BY <1>2, <1>3, ErrorCode, NoNewCredit
<1>7. AnswerMove(c)
  BY <1>2, ErrorCode, BodyAssumption DEF AnswerMove
<1> QED
  BY <1>4, <1>5, <1>6, <1>7 DEF Move

\* A proposal is inserted.
LEMMA ProposeMove ==
    ASSUME ApiTypes, ApiInv, NEW c \in Callers, OthersStand(c), BodiesStay,
           NEW k \in Keys, NEW b \in Bodies, stage[c] = "idle", Post(k, b),
           ProposeActionRequest(c, k, b)
    PROVE  Move(c)
<1>1. /\ pc'[c] = "audit" /\ job'[c].kind = "propose" /\ stage'[c] = "useCase"
      /\ serving'[c] = k /\ changed'[c] = TRUE /\ body'[k] = b /\ b.kind = "propose"
      /\ answers' = answers /\ \A n \in Keys : effects'[n] = effects[n]
  BY DEF ProposeActionRequest, Propose, Start, Continue, Post, ApiTypes, TypeOK
<1>2. Serving(c)' = b /\ b # NoBody
  BY <1>1, BodyAssumption DEF Serving
<1>3. Effective(c)'
  BY <1>1 DEF Effective
<1>4. HandlerKnows(c)'
  BY <1>1, <1>2, <1>3 DEF HandlerKnows
<1>5. \A n \in Keys : KeyMove(c, n)
  BY <1>1, <1>2 DEF KeyMove, Acting
<1>6. CreditMove
  BY <1>1, <1>2, NoNewCredit
<1>7. AnswerMove(c)
  BY <1>1 DEF AnswerMove
<1> QED
  BY <1>4, <1>5, <1>6, <1>7 DEF Move

\* The status is checked for a decision.
LEMMA DecideMove ==
    ASSUME ApiTypes, ApiInv, NEW c \in Callers, OthersStand(c), BodiesStay,
           NEW k \in Keys, NEW b \in Bodies, stage[c] = "idle", Post(k, b),
           DecideActionRequest(c, k, b)
    PROVE  Move(c)
<1>1. /\ pc'[c] = "swap" /\ job'[c] = b /\ stage'[c] = "useCase"
      /\ serving'[c] = k /\ changed'[c] = FALSE /\ body'[k] = b
      /\ b.kind \in {"approve", "reject", "revoke"}
      /\ answers' = answers /\ \A n \in Keys : effects'[n] = effects[n]
  BY DEF DecideActionRequest, CheckStatus, Start, Continue, Post, ApiTypes, TypeOK
<1>2. Serving(c)' = b /\ b # NoBody
  BY <1>1, BodyAssumption DEF Serving
<1>3. ~Effective(c)' /\ ~PastInsert(c)'
  BY <1>1 DEF Effective, PastInsert
<1>4. HandlerKnows(c)'
  BY <1>1, <1>2, <1>3 DEF HandlerKnows
<1>5. \A n \in Keys : KeyMove(c, n)
  BY <1>1, <1>3 DEF KeyMove, Acting
<1>6. CreditMove
  BY <1>1, <1>3, NoNewCredit
<1>7. AnswerMove(c)
  BY <1>1 DEF AnswerMove
<1> QED
  BY <1>4, <1>5, <1>6, <1>7 DEF Move

\* A request is read.
LEMMA GetMove ==
    ASSUME ApiTypes, ApiInv, NEW c \in Callers, OthersStand(c), BodiesStay,
           NEW k \in Keys, NEW b \in Bodies, stage[c] = "idle", Post(k, b),
           GetActionRequest(c, k, b)
    PROVE  Move(c)
<1>1. /\ pc'[c] = "idle" /\ stage'[c] = "decisions"
      /\ serving'[c] = k /\ changed'[c] = FALSE /\ body'[k] = b /\ b.kind = "get"
      /\ answers' = answers /\ \A n \in Keys : effects'[n] = effects[n]
  BY DEF GetActionRequest, Continue, Post, ApiTypes, ApiInv, HandlerKnows, vars
<1>2. Serving(c)' = b /\ b # NoBody
  BY <1>1, BodyAssumption DEF Serving
<1>3. ~Effective(c)'
  BY <1>1, <1>2 DEF Effective
<1>4. HandlerKnows(c)'
  BY <1>1, <1>2, <1>3 DEF HandlerKnows
<1>5. \A n \in Keys : KeyMove(c, n)
  BY <1>1, <1>3 DEF KeyMove, Acting
<1>6. CreditMove
  BY <1>1, <1>2, NoNewCredit
<1>7. AnswerMove(c)
  BY <1>1, <1>2 DEF AnswerMove, Audited
<1> QED
  BY <1>4, <1>5, <1>6, <1>7 DEF Move

\* A call is answered: if it was effective it is counted, and what a 200 shows is on record.
LEMMA AnsweredMove ==
    ASSUME ApiTypes, ApiInv, NEW c \in Callers, OthersStand(c), BodiesStay, RecordStays,
           stage[c] # "idle", pc'[c] = "idle", stage'[c] = "idle", changed'[c] = FALSE,
           \A k \in Keys :
              effects'[k] = IF k = serving[c] /\ Effective(c) THEN effects[k] + 1 ELSE effects[k],
           \A a \in answers' \ answers :
              /\ a.key = serving[c]
              /\ a.code = 200 =>
                    /\ stage[c] = "decisions"
                    /\ a.decisions = {decision[Serving(c).request]} \ {NoDecision}
    PROVE  Move(c)
<1>1. /\ serving[c] \in Keys /\ Serving(c) # NoBody /\ body'[serving[c]] = Serving(c)
      /\ Serving(c) \in Bodies
  BY DEF ApiInv, HandlerKnows, Serving, BodiesStay, ApiTypes
<1>2. ~Effective(c)' /\ ~PastInsert(c)'
  BY DEF Effective, PastInsert
<1>3. HandlerKnows(c)'
  BY <1>2 DEF HandlerKnows
<1>4. \A k \in Keys : KeyMove(c, k)
  BY <1>1, <1>2 DEF KeyMove, Acting
<1>5. CreditMove
  BY <1>2, NoNewCredit DEF PastInsert
<1>6. ASSUME NEW a \in answers' \ answers, a.code = 200, Decides(a)'
      PROVE  /\ Audited(body[a.key])'
             /\ a.decisions = {decision'[body'[a.key].request]}
  <2>1. /\ stage[c] = "decisions" /\ a.key = serving[c]
        /\ Serving(c).kind \in {"approve", "reject"}
        /\ a.decisions = {decision[Serving(c).request]} \ {NoDecision}
    BY <1>1, <1>6 DEF Decides
  <2>2. Credited(serving[c])
    BY <1>1, <2>1 DEF Credited, PastInsert, Serving
  <2>3. decision[Serving(c).request] = Decision(Serving(c))
    BY <1>1, <2>2 DEF ApiInv, CreditIsDue, Serving
  <2>4. decision[Serving(c).request] # NoDecision /\ Serving(c).request \in Requests
    BY <1>1, <2>1, <2>3, DecideBody, DecisionAssumption
  <2>5. decision'[Serving(c).request] = decision[Serving(c).request]
    BY <2>4 DEF RecordStays
  <2>6. Audited(Serving(c))
    BY <2>1 DEF ApiInv, AnswersAreBacked
  <2> QED
    BY <1>1, <2>1, <2>4, <2>5, <2>6 DEF Audited, RecordStays
<1>7. AnswerMove(c)
  BY <1>1, <1>6 DEF AnswerMove
<1> QED
  BY <1>3, <1>4, <1>5, <1>7 DEF Move

\* The swap goes through, or another one came first.
LEMMA SwapMove ==
    ASSUME ApiTypes, ApiTypes', ApiInv, NEW c \in Callers, OthersStand(c), BodiesStay,
           RecordStays, HandleSwap(c)
    PROVE  Move(c)
<1>1. /\ pc[c] = "swap" /\ stage[c] = "useCase" /\ job[c] \in Jobs /\ job[c].kind # "propose"
      /\ Serving(c) = job[c] /\ serving[c] \in Keys /\ Serving(c) # NoBody
      /\ body' = body /\ Serving(c) \in Bodies
  BY DEF HandleSwap, SwapStatus, ApiTypes, TypeOK, ApiInv, HandlerKnows, Serving
<1>2. ~Effective(c) /\ job[c].kind \in {"approve", "reject", "revoke"}
  <2>1. job[c].kind \in {"approve", "reject", "revoke"}
    BY <1>1 DEF Jobs
  <2> QED
    BY <1>1, <2>1 DEF Effective
<1>3. CASE VersionMatches(job[c].request, job[c].expected)
  <2>1. pc'[c] = IF job[c].kind = "revoke" THEN "audit" ELSE "decide"
    BY <1>3 DEF HandleSwap, SwapStatus, Goto, ApiTypes, TypeOK
  <2>2. /\ job' = job /\ version' = [version EXCEPT ![job[c].request] = @ + 1]
    BY <1>3 DEF HandleSwap, SwapStatus, Goto
  <2>3. Continue(c, serving[c], "useCase", "none", TRUE)
    BY <2>1 DEF HandleSwap
  <2>4. /\ stage'[c] = "useCase" /\ serving'[c] = serving[c] /\ changed'[c] = TRUE
        /\ answers' = answers /\ effects' = effects
    BY <2>3 DEF Continue, ApiTypes
  <2>5. Serving(c)' = Serving(c) /\ Effective(c)'
    BY <1>1, <2>1, <2>4 DEF Serving, Effective
  <2>6. HandlerKnows(c)'
    BY <1>1, <1>2, <2>1, <2>2, <2>4, <2>5 DEF HandlerKnows
  <2>7. ~Spent(Serving(c)) /\ Spent(Serving(c))'
    <3>1. job[c].request \in Requests /\ job[c].expected \in Nat
          /\ version[job[c].request] = job[c].expected
      BY <1>1, <1>2, <1>3, DecideBody DEF VersionMatches
    <3>2. version'[job[c].request] = job[c].expected + 1
      BY <2>2, <3>1 DEF ApiTypes, TypeOK
    <3> QED
      BY <1>1, <1>2, <2>5, <3>1, <3>2 DEF Spent
  <2>8. \A k \in Keys : KeyMove(c, k)
    BY <1>1, <2>4, <2>5, <2>7 DEF KeyMove, Acting, Serving
  <2>9. CreditMove
    <3>1. ~(PastInsert(c)' /\ Serving(c)'.kind \in {"approve", "reject"})
      BY <1>1, <2>1, <2>4, <2>5 DEF PastInsert
    <3> QED
      BY <2>4, <3>1, NoNewCredit
  <2>10. AnswerMove(c)
    BY <2>4 DEF AnswerMove
  <2> QED
    BY <2>6, <2>8, <2>9, <2>10 DEF Move
<1>4. CASE ~VersionMatches(job[c].request, job[c].expected)
  <2>1. pc'[c] = "idle"
    BY <1>4 DEF HandleSwap, SwapStatus, Return, ApiTypes, TypeOK
  <2>2. Refuse(c, serving[c], "Conflict", FALSE)
    BY <2>1 DEF HandleSwap
  <2>3. /\ stage'[c] = "idle" /\ changed'[c] = FALSE /\ effects' = effects
        /\ \A a \in answers' \ answers : a.key = serving[c] /\ a.code = StatusCode("Conflict")
    BY <2>2 DEF Refuse, Answer, ApiTypes
  <2>4. /\ stage[c] # "idle"
        /\ \A k \in Keys :
              effects'[k] = IF k = serving[c] /\ Effective(c) THEN effects[k] + 1 ELSE effects[k]
    BY <1>1, <1>2, <2>3
  <2>5. \A a \in answers' \ answers : a.key = serving[c] /\ a.code # 200
    BY <2>3, ErrorCode
  <2> QED
    BY <2>1, <2>3, <2>4, <2>5, AnsweredMove
<1> QED
  BY <1>3, <1>4

\* The decision is inserted, or is there already.
LEMMA DecisionMove ==
    ASSUME ApiTypes, ApiTypes', ApiInv, NEW c \in Callers, OthersStand(c), BodiesStay,
           RecordStays, HandleDecision(c)
    PROVE  Move(c)
<1>1. /\ pc[c] = "decide" /\ stage[c] = "useCase" /\ job[c] \in Jobs
      /\ job[c].kind \in {"approve", "reject"}
      /\ Serving(c) = job[c] /\ serving[c] \in Keys /\ Serving(c) # NoBody
      /\ body' = body /\ Serving(c) \in Bodies /\ Effective(c) /\ changed[c]
  BY DEF HandleDecision, InsertDecision, ApiTypes, TypeOK, ApiInv, HandlerKnows, Serving,
         Effective
<1>2. job[c].request \in Requests
  BY <1>1, DecideBody
<1>3. CASE DecisionIsNew(job[c].request)
  <2>1. /\ pc'[c] = "audit" /\ job' = job
        /\ decision'[job[c].request] = Decision(job[c])
    BY <1>2, <1>3 DEF HandleDecision, InsertDecision, Goto, ApiTypes, TypeOK
  <2>2. UNCHANGED <<serving, stage, changed, effects, answers>>
    BY <2>1 DEF HandleDecision
  <2>3. Serving(c)' = Serving(c) /\ Effective(c)'
    BY <1>1, <2>1, <2>2 DEF Serving, Effective
  <2>4. HandlerKnows(c)'
    BY <1>1, <2>1, <2>2, <2>3 DEF HandlerKnows
  <2>5. \A k \in Keys : KeyMove(c, k)
    BY <1>1, <2>2, <2>3 DEF KeyMove, Acting
  <2>6. CreditMove
    <3>1. ASSUME NEW k \in Keys \ {serving[c]}, Credited(k)' PROVE Credited(k)
      <4>1. \A d \in Callers : serving'[d] = k /\ PastInsert(d)' => serving[d] = k /\ PastInsert(d)
        BY <2>2 DEF PastInsert, OthersStand
      <4> QED
        BY <1>1, <2>2, <3>1, <4>1 DEF Credited
    <3> USE DEF CreditMove
    <3> serving[c] \in Keys
      BY <1>1
    <3> WITNESS {serving[c]} \in SUBSET Keys
    <3> QED
      BY <1>1, <1>2, <1>3, <2>1, <3>1 DEF DecisionIsNew, Serving
  <2>7. AnswerMove(c)
    BY <1>1, <2>2 DEF AnswerMove
  <2> QED
    BY <2>4, <2>5, <2>6, <2>7 DEF Move
<1>4. CASE ~DecisionIsNew(job[c].request)
  <2>1. pc'[c] = "idle"
    BY <1>4 DEF HandleDecision, InsertDecision, Return, ApiTypes, TypeOK
  <2>2. Refuse(c, serving[c], "Exists", changed[c])
    BY <2>1 DEF HandleDecision
  <2>3. /\ stage'[c] = "idle" /\ changed'[c] = FALSE
        /\ \A k \in Keys : effects'[k] = IF k = serving[c] THEN effects[k] + 1 ELSE effects[k]
        /\ \A a \in answers' \ answers : a.key = serving[c] /\ a.code = StatusCode("Exists")
    BY <1>1, <2>2 DEF Refuse, Answer, ApiTypes
  <2>4. /\ stage[c] # "idle"
        /\ \A k \in Keys :
              effects'[k] = IF k = serving[c] /\ Effective(c) THEN effects[k] + 1 ELSE effects[k]
    BY <1>1, <2>3
  <2>5. \A a \in answers' \ answers : a.key = serving[c] /\ a.code # 200
    BY <2>3, ErrorCode
  <2> QED
    BY <2>1, <2>3, <2>4, <2>5, AnsweredMove
<1> QED
  BY <1>3, <1>4

\* The audit event is written: a proposal is answered, the others read on.
LEMMA AuditMove ==
    ASSUME ApiTypes, ApiTypes', ApiInv, NEW c \in Callers, OthersStand(c), BodiesStay,
           RecordStays, HandleAudit(c)
    PROVE  Move(c)
<1>1. /\ pc[c] = "audit" /\ stage[c] = "useCase" /\ job[c] \in Jobs
      /\ serving[c] \in Keys /\ Serving(c) # NoBody
      /\ body' = body /\ Effective(c) /\ changed[c] /\ pc'[c] = "idle"
      /\ audit' = audit \cup {<<job[c].kind, job[c].request>>}
  BY DEF HandleAudit, Audit, Return, ApiTypes, TypeOK, ApiInv, HandlerKnows, Serving, Effective
<1>2. CASE job[c].kind = "propose"
  <2>1. Answer(c, serving[c], 201, "pending", {}, TRUE)
    BY <1>2 DEF HandleAudit
  <2>2. /\ stage'[c] = "idle" /\ changed'[c] = FALSE
        /\ \A k \in Keys : effects'[k] = IF k = serving[c] THEN effects[k] + 1 ELSE effects[k]
        /\ \A a \in answers' \ answers : a.key = serving[c] /\ a.code # 200
    BY <1>1, <2>1 DEF Answer, ApiTypes
  <2>3. \A k \in Keys :
           effects'[k] = IF k = serving[c] /\ Effective(c) THEN effects[k] + 1 ELSE effects[k]
    BY <1>1, <2>2
  <2> QED
    BY <1>1, <2>2, <2>3, AnsweredMove
<1>3. CASE job[c].kind # "propose"
  <2>1. Continue(c, serving[c], "refresh", "none", changed[c])
    BY <1>3 DEF HandleAudit
  <2>2. /\ stage'[c] = "refresh" /\ serving'[c] = serving[c] /\ changed'[c] = changed[c]
        /\ answers' = answers /\ effects' = effects
    BY <2>1 DEF Continue, ApiTypes
  <2>3. Serving(c) = job[c] /\ job[c].kind \in {"approve", "reject", "revoke"}
    <3>1. job[c].kind \in {"approve", "reject", "revoke"}
      BY <1>1, <1>3 DEF Jobs
    <3> QED
      BY <1>1, <1>3, <3>1 DEF ApiInv, HandlerKnows
  <2>4. Serving(c)' = Serving(c) /\ Effective(c)'
    BY <1>1, <2>2, <2>3 DEF Serving, Effective
  <2>5. HandlerKnows(c)'
    BY <1>1, <2>2, <2>3, <2>4 DEF HandlerKnows
  <2>6. \A k \in Keys : KeyMove(c, k)
    BY <1>1, <2>2, <2>4 DEF KeyMove, Acting
  <2>7. CreditMove
    BY <1>1, <2>2, NoNewCredit DEF PastInsert
  <2>8. AnswerMove(c)
    BY <1>1, <2>2, <2>3, <2>4 DEF AnswerMove, Audited
  <2> QED
    BY <2>5, <2>6, <2>7, <2>8 DEF Move
<1> QED
  BY <1>2, <1>3

\* The request is read again for the answer.
LEMMA RefreshMove ==
    ASSUME ApiTypes, ApiTypes', ApiInv, NEW c \in Callers, OthersStand(c), BodiesStay,
           RecordStays, Refresh(c)
    PROVE  Move(c)
<1>1. /\ stage[c] = "refresh" /\ serving[c] \in Keys /\ Serving(c) # NoBody
      /\ pc[c] = "idle" /\ pc'[c] = "idle" /\ body' = body /\ audit' = audit
      /\ Serving(c).kind \in {"approve", "reject", "revoke"} /\ changed[c]
      /\ Effective(c) /\ Audited(Serving(c))
  BY DEF Refresh, ApiInv, HandlerKnows, AnswersAreBacked, Effective, vars
<1>2. /\ stage'[c] = "decisions" /\ serving'[c] = serving[c] /\ changed'[c] = changed[c]
      /\ answers' = answers /\ effects' = effects
  BY DEF Refresh, Continue, ApiTypes
<1>3. Serving(c)' = Serving(c) /\ Effective(c)'
  BY <1>1, <1>2 DEF Serving, Effective
<1>4. HandlerKnows(c)'
  BY <1>1, <1>2, <1>3 DEF HandlerKnows
<1>5. \A k \in Keys : KeyMove(c, k)
  BY <1>1, <1>2, <1>3 DEF KeyMove, Acting
<1>6. CreditMove
  BY <1>1, <1>2, NoNewCredit DEF PastInsert
<1>7. AnswerMove(c)
  BY <1>1, <1>2, <1>3 DEF AnswerMove, Audited
<1> QED
  BY <1>4, <1>5, <1>6, <1>7 DEF Move

\* The decisions are read and the call is answered, or a store has failed.
LEMMA EndMove ==
    ASSUME ApiTypes, ApiTypes', ApiInv, NEW c \in Callers, OthersStand(c), BodiesStay,
           RecordStays, ReadDecisions(c) \/ HandleFails(c)
    PROVE  Move(c)
<1>1. /\ stage[c] # "idle" /\ serving[c] \in Keys /\ (changed[c] <=> Effective(c))
      /\ changed[c] \in BOOLEAN
  BY DEF ReadDecisions, HandleFails, ApiInv, HandlerKnows, ApiTypes
<1>2. pc'[c] = "idle"
  <2>1. CASE stage[c] = "useCase"
    BY <2>1 DEF ReadDecisions, HandleFails, Fails, Return, ApiTypes, TypeOK
  <2>2. CASE stage[c] # "useCase"
    BY <2>2 DEF ReadDecisions, HandleFails, ApiInv, HandlerKnows, vars
  <2> QED
    BY <2>1, <2>2
<1>3. \E code, shows, decided :
         /\ Answer(c, serving[c], code, shows, decided, changed[c])
         /\ code = 200 => /\ stage[c] = "decisions"
                          /\ decided = {decision[Serving(c).request]} \ {NoDecision}
  BY ErrorCode DEF ReadDecisions, HandleFails, Refuse, Serving
<1>4. PICK code, shows, decided :
         /\ Answer(c, serving[c], code, shows, decided, changed[c])
         /\ code = 200 => /\ stage[c] = "decisions"
                          /\ decided = {decision[Serving(c).request]} \ {NoDecision}
  BY <1>3
<1>5. /\ stage'[c] = "idle" /\ changed'[c] = FALSE
      /\ \A a \in answers' \ answers : a.key = serving[c] /\ a.code = code /\ a.decisions = decided
  BY <1>4 DEF Answer, ApiTypes
<1>6. \A k \in Keys :
         effects'[k] = IF k = serving[c] /\ Effective(c) THEN effects[k] + 1 ELSE effects[k]
  BY <1>1, <1>4 DEF Answer, ApiTypes
<1> QED
  BY <1>1, <1>2, <1>4, <1>5, <1>6, AnsweredMove

\* Every step of every handler keeps the invariant.
LEMMA ApiInvStep == ASSUME ApiTypes, ApiInv, [ApiNext]_allVars PROVE ApiInv'
<1>1. ApiTypes'
  BY ApiTypesStep
<1>2. RecordStays
  BY ApiStep, RecordKept DEF ApiTypes, ApiInv
<1>3. ASSUME NEW c \in Callers, Handle(c) PROVE ApiInv'
  <2>1. PICK k \in Keys, b \in Bodies :
           /\ stage[c] = "idle" /\ Post(k, b)
           /\ \/ PostRefused(c, k, b)
              \/ ProposeActionRequest(c, k, b)
              \/ DecideActionRequest(c, k, b)
              \/ GetActionRequest(c, k, b)
    BY <1>3 DEF Handle
  <2>2. OthersStand(c) /\ BodiesStay
    BY <1>3, StepOfOne
  <2>3. Move(c)
    BY <2>1, <2>2, RefusedMove, ProposeMove, DecideMove, GetMove
  <2> QED
    BY <1>1, <1>2, <2>2, <2>3, MoveKeeps
<1>4. ASSUME NEW c \in Callers,
             HandleSwap(c) \/ HandleDecision(c) \/ HandleAudit(c) \/ Refresh(c)
             \/ ReadDecisions(c) \/ HandleFails(c)
      PROVE  ApiInv'
  <2>1. OthersStand(c) /\ BodiesStay
    BY <1>4, StepOfOne
  <2>2. Move(c)
    BY <1>1, <1>2, <1>4, <2>1, SwapMove, DecisionMove, AuditMove, RefreshMove, EndMove
  <2> QED
    BY <1>1, <1>2, <2>1, <2>2, MoveKeeps
<1>5. CASE UNCHANGED allVars
  <2> USE <1>5 DEF allVars, apiVars, vars
  <2>1. \A c \in Callers : HandlerKnows(c)'
    BY DEF ApiInv, HandlerKnows, Effective, Serving
  <2>2. \A k \in Keys : KeyIsSpent(k)'
    BY DEF ApiInv, KeyIsSpent, Acting, Effective, Serving, Spent
  <2>3. CreditIsDue'
    BY DEF ApiInv, CreditIsDue, Credited, PastInsert, Decision
  <2>4. AnswersAreBacked'
    BY DEF ApiInv, AnswersAreBacked, Audited, Serving, Decides
  <2> QED
    BY <2>1, <2>2, <2>3, <2>4 DEF ApiInv
<1> QED
  BY <1>3, <1>4, <1>5 DEF ApiNext

\* Nobody has posted anything.
LEMMA ApiInvInit == ApiInit => ApiTypes /\ ApiInv
<1> SUFFICES ASSUME ApiInit PROVE ApiTypes /\ ApiInv
  OBVIOUS
<1>1. ApiTypes
  BY TypeInit DEF ApiInit, ApiTypes
<1>2. \A c \in Callers : pc[c] = "idle" /\ stage[c] = "idle" /\ changed[c] = FALSE
  BY DEF ApiInit, Init
<1>3. \A c \in Callers : ~Effective(c) /\ ~PastInsert(c)
  BY <1>2 DEF Effective, PastInsert
<1>4. \A c \in Callers : HandlerKnows(c)
  BY <1>2, <1>3 DEF HandlerKnows
<1>5. \A k \in Keys : KeyIsSpent(k)
  BY DEF ApiInit, KeyIsSpent
<1>6. \A k \in Keys : ~Credited(k)
  BY DEF ApiInit, Credited
<1>7. AnswersAreBacked
  BY <1>2 DEF AnswersAreBacked, ApiInit
<1> QED
  BY <1>1, <1>4, <1>5, <1>6, <1>7 DEF ApiInv, CreditIsDue, ApiInit, Init

-----------------------------------------------------------------------------
(* The theorems                                                            *)

\* The invariant of the endpoints holds in every reachable state.
THEOREM ApiInvariant == ApiSpec => [](ApiTypes /\ ApiInv)
<1>1. ApiTypes /\ ApiInv /\ [ApiNext]_allVars => ApiTypes' /\ ApiInv'
  BY ApiTypesStep, ApiInvStep
<1> QED
  BY <1>1, ApiInvInit, PTL DEF ApiSpec

\* However often and concurrently an approval, rejection or revocation is posted under one
\* key, one post takes effect at most, although no handler looks at the key: the version
\* the body names is spent by the first swap.
THEOREM OneEffectPerKey == ApiSpec => []EffectOncePerKey
<1>1. ApiInv => EffectOncePerKey
  BY DEF ApiInv, KeyIsSpent, EffectOncePerKey
<1> QED
  BY <1>1, ApiInvariant, PTL

\* Whoever is told with a 200 that it approved or rejected a request did, and nobody else
\* is told so: the decision on record, the answer and the audit event are its own,
\* whatever versions other clients name.
THEOREM ToldIsTrue == ApiSpec => []ToldIsOnRecord
<1>1. ASSUME ApiTypes, ApiInv PROVE ToldIsOnRecord
  <2> SUFFICES ASSUME NEW a \in answers, a.code = 200, Decides(a)
               PROVE  LET b == body[a.key] IN
                      /\ decision[b.request] = [verdict |-> Verdict[b.kind], intent |-> b.intent]
                      /\ a.decisions = {decision[b.request]}
                      /\ <<b.kind, b.request>> \in audit
                      /\ \A o \in answers :
                            o.code = 200 /\ Decides(o) /\ body[o.key].request = b.request
                            => o.key = a.key
    BY DEF ToldIsOnRecord
  <2>1. \A o \in answers : o.code = 200 /\ Decides(o) => o.key \in Keys /\ Credited(o.key)
    BY <1>1 DEF ApiInv, AnswersAreBacked, Credited, Decides
  <2>2. decision[body[a.key].request] = Decision(body[a.key])
    BY <1>1, <2>1 DEF ApiInv, CreditIsDue
  <2>3. \A o \in answers : o.code = 200 /\ Decides(o) /\ body[o.key].request = body[a.key].request
           => o.key = a.key
    BY <1>1, <2>1 DEF ApiInv, CreditIsDue
  <2>4. a.decisions = {decision[body[a.key].request]} /\ Audited(body[a.key])
    BY <1>1 DEF ApiInv, AnswersAreBacked
  <2> QED
    BY <2>2, <2>3, <2>4 DEF Decision, Audited, Decides
<1>2. ApiTypes /\ ApiInv => ToldIsOnRecord
  BY <1>1
<1> QED
  BY <1>2, ApiInvariant, PTL

=============================================================================
