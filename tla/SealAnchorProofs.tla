------------------------- MODULE SealAnchorProofs -------------------------
(***************************************************************************)
(* Theorems about SealAnchor and the Postgres store it stands on, for      *)
(* every set of mandates, objects and callers.                             *)
(***************************************************************************)
EXTENDS SealAnchor, TLAPS

-----------------------------------------------------------------------------
(* The store *)

\* The arguments of a call.
LEMMA CallTypes ==
    ASSUME NEW x \in PgCalls
    PROVE  /\ x.op \in {"insert", "get", "swap", "put", "fetch"}
           /\ x.op \in {"insert", "get", "swap"} => x.id \in Mandates
           /\ x.op \in {"put", "fetch"} => x.id \in Objects
           /\ x.op = "put" => x.bytes \in Bytes
           /\ x.op = "swap" => /\ x.expected \in Nat /\ x.expected + 1 \in 1..MaxVersion
                               /\ x.state \in {"reserved", "consumed"}
           /\ x # None
  BY NoneAssumption, PgAssumption DEF PgCalls, Versions

\* What holds of a pending call between its statements.  A swap presents a
\* version its mandate has reached, and one that looks for the reason of its
\* failure has lost for good; a put that compares has something to compare.
Pending(c) ==
    /\ statement[c] = 0 <=> call[c] = None
    /\ call[c] # None /\ call[c].op = "swap" =>
          /\ row[call[c].id] # None
          /\ call[c].expected <= row[call[c].id].version
    /\ statement[c] = 2 =>
          \/ call[c].op = "swap" /\ call[c].expected < row[call[c].id].version
          \/ call[c].op = "put" /\ object[call[c].id] # None

PgInv == PgTypeOK /\ \A c \in Callers : Pending(c)

\* What the rows and objects of one step may become: versions grow, an object
\* keeps its bytes.
Grows ==
    /\ row' \in [Mandates -> Rows \cup {None}]
    /\ object' \in [Objects -> Bytes \cup {None}]
    /\ \A m \in Mandates : row[m] # None =>
          row'[m] # None /\ row[m].version <= row'[m].version
    /\ \A o \in Objects : object[o] # None => object'[o] = object[o]

\* A write statement only lets them grow.
LEMMA WriteGrows ==
    ASSUME PgTypeOK, NEW x \in PgCalls, Write(x) PROVE Grows
<1> USE CallTypes DEF Grows, PgTypeOK
<1>0. \A r \in Rows : r # None /\ r.version \in Nat
  BY NoneAssumption, PgAssumption DEF Rows
<1>1. CASE InsertMandate(x)
  <2>1. [version |-> 1, state |-> "issued"] \in Rows
    BY PgAssumption DEF Rows
  <2> QED
    BY <1>0, <1>1, <2>1 DEF InsertMandate
<1>2. CASE UpdateMandate(x)
  <2>1. [version |-> x.expected + 1, state |-> x.state] \in Rows
    BY <1>2 DEF Rows, UpdateMandate
  <2> QED
    BY <1>0, <1>2, <2>1 DEF UpdateMandate
<1>3. CASE InsertObject(x)
  BY <1>0, <1>3, NoneAssumption DEF InsertObject
<1> QED
  BY <1>1, <1>2, <1>3 DEF Write

\* A call that does not move sees the others' writes as growth.
LEMMA PendingStays ==
    ASSUME PgInv, Grows, NEW c \in Callers, call'[c] = call[c], statement'[c] = statement[c]
    PROVE  Pending(c)'
<1>1. call[c] = None \/ call[c] \in PgCalls
  BY DEF PgInv, PgTypeOK
<1>2. CASE call[c] = None
  BY <1>2 DEF PgInv, Pending
<1>3. CASE call[c] # None
  <2>1. call[c] \in PgCalls /\ Pending(c)
    BY <1>1, <1>3 DEF PgInv
  <2>2. \A m \in Mandates : row[m] # None =>
           row[m].version \in Nat /\ row'[m].version \in Nat
    BY PgAssumption DEF PgInv, PgTypeOK, Grows, Rows
  <2> QED
    BY <1>3, <2>1, <2>2, CallTypes DEF Pending, Grows
<1> QED
  BY <1>2, <1>3

\* Every step of the store lets rows and objects grow.
LEMMA StepGrows ==
    ASSUME PgInv, NEW c \in Callers, PgStep(c) PROVE Grows
<1>1. CASE UNCHANGED <<row, object>>
  <2>1. \A r \in Rows : r.version \in Nat
    BY PgAssumption DEF Rows
  <2> QED
    BY <1>1, <2>1 DEF Grows, PgInv, PgTypeOK
<1>2. CASE statement[c] = 1 /\ Write(call[c])
  <2>1. call[c] \in PgCalls
    BY <1>2 DEF PgInv, Pending, PgTypeOK
  <2> QED
    BY <1>2, <2>1, WriteGrows DEF PgInv
<1> QED
  BY <1>1, <1>2 DEF PgStep, Written, Missed, Selected, Looked, PgFails

\* What a call looks like when it starts, waits for its second statement, or
\* has its answer.
LEMMA PgInvStep ==
    ASSUME PgInv, NEW c \in Callers, PgStep(c) PROVE PgInv'
<1>0. Grows
  BY StepGrows
<1>1. CASE \E a : PgReturn(c, a)
  <2>1. PgTypeOK'
    BY <1>0, <1>1 DEF PgReturn, Grows, PgInv, PgTypeOK
  <2>2. Pending(c)'
    BY <1>1 DEF PgReturn, Pending, PgInv, PgTypeOK
  <2>3. \A d \in Callers \ {c} : call'[d] = call[d] /\ statement'[d] = statement[d]
    BY <1>1 DEF PgReturn, PgInv, PgTypeOK
  <2> QED
    BY <1>0, <2>1, <2>2, <2>3, PendingStays DEF PgInv
<1>2. CASE Missed(c) /\ SecondStatement(c)
  <2>1. UNCHANGED <<row, object, call>> /\ call[c] \in PgCalls /\ statement[c] = 1
    BY <1>2 DEF Missed, SecondStatement, PgInv, PgTypeOK, Pending
  <2>2. PgTypeOK'
    BY <1>2, <2>1 DEF SecondStatement, PgInv, PgTypeOK
  <2>3. statement'[c] = 2 /\ Pending(c) /\ call[c] # None
    BY <1>2, <2>1, CallTypes DEF SecondStatement, PgInv, PgTypeOK
  <2>4. \/ /\ call[c].op = "swap"
           /\ row[call[c].id] = None \/ row[call[c].id].version # call[c].expected
        \/ call[c].op = "put" /\ object[call[c].id] # None
    <3>1. ~(\E a : PgReturn(c, a))
      BY <2>3, <1>2 DEF PgReturn, SecondStatement, PgInv, PgTypeOK
    <3> QED
      BY <1>2, <3>1 DEF Missed
  <2>5. call[c].op = "swap" =>
           call[c].expected \in Nat /\ row[call[c].id].version \in Nat
    BY <2>1, <2>3, CallTypes, PgAssumption DEF Pending, PgInv, PgTypeOK, Rows
  <2>6. Pending(c)'
    BY <2>1, <2>3, <2>4, <2>5 DEF Pending
  <2>7. \A d \in Callers \ {c} : call'[d] = call[d] /\ statement'[d] = statement[d]
    BY <1>2 DEF SecondStatement, PgInv, PgTypeOK
  <2> QED
    BY <1>0, <2>2, <2>6, <2>7, PendingStays DEF PgInv
<1> QED
  BY <1>1, <1>2 DEF PgStep, Written, Missed, Selected, Looked, PgFails

\* A call that starts presents a version its mandate has reached.
LEMMA PgCallStep ==
    ASSUME PgInv, NEW c \in Callers, NEW x \in PgCalls, PgCall(c, x) PROVE PgInv'
<1>1. UNCHANGED <<row, object>>
  BY DEF PgCall
<1>2. Grows
  <2>1. \A r \in Rows : r.version \in Nat
    BY PgAssumption DEF Rows
  <2> QED
    BY <1>1, <2>1 DEF Grows, PgInv, PgTypeOK
<1>3. PgTypeOK'
  BY DEF PgCall, PgInv, PgTypeOK
<1>4. call'[c] = x /\ statement'[c] = 1 /\ Presentable(x)
  BY DEF PgCall, PgInv, PgTypeOK
<1>5. Pending(c)'
  BY <1>1, <1>4, CallTypes DEF Pending, Presentable
<1>6. \A d \in Callers \ {c} : call'[d] = call[d] /\ statement'[d] = statement[d]
  BY DEF PgCall, PgInv, PgTypeOK
<1> QED
  BY <1>2, <1>3, <1>5, <1>6, PendingStays DEF PgInv

\* Nothing is stored and nobody waits.
LEMMA PgInvInit == PgInit => PgInv
<1> SUFFICES ASSUME PgInit PROVE PgInv
  OBVIOUS
<1>1. PgTypeOK
  BY DEF PgInit, PgTypeOK
<1> QED
  BY <1>1 DEF PgInit, PgInv, Pending

\* The writes are the ones the atomic call would make, and its answers.
LEMMA WriteIsAtomic ==
    ASSUME PgInv, NEW x \in PgCalls, Write(x)
    PROVE  /\ row' = Atomic!Rows(x) /\ object' = Atomic!ObjectsAfter(x)
           /\ Atomic!Reply(x) = IF x.op = "swap" THEN <<"applied", x.expected + 1>> ELSE <<"ok">>
<1> USE CallTypes DEF Atomic!Rows, Atomic!ObjectsAfter, Atomic!Reply, Atomic!Wins
<1>1. CASE InsertMandate(x)
  BY <1>1 DEF InsertMandate
<1>2. CASE UpdateMandate(x)
  <2>1. x.op = "swap" /\ Atomic!Wins(x) /\ row[x.id].version = x.expected
    BY <1>2 DEF UpdateMandate
  <2> QED
    BY <1>2, <2>1 DEF UpdateMandate
<1>3. CASE InsertObject(x)
  BY <1>3 DEF InsertObject
<1> QED
  BY <1>1, <1>2, <1>3 DEF Write

\* Each step of the store is a call, an effect with its answer, an error, or
\* invisible to the callers.
LEMMA AtomicStep ==
    ASSUME PgInv, NEW c \in Callers, PgStep(c)
    PROVE  [Atomic!Next]_(Atomic!storeVars)
<1> DEFINE x == call[c]
<1>0. x \in PgCalls /\ x # None /\ Pending(c)
  BY DEF PgStep, Written, Missed, Selected, Looked, PgFails, PgInv, PgTypeOK, Pending
<1>1. CASE Written(c)
  <2>1. Write(x) /\ PgReturn(c, Atomic!Reply(x))
    BY <1>0, <1>1, WriteIsAtomic DEF Written
  <2>2. Atomic!Do(c)
    BY <1>0, <2>1, WriteIsAtomic DEF Atomic!Do, PgReturn
  <2> QED
    BY <2>2 DEF Atomic!Next
<1>2. CASE Missed(c)
  <2>1. CASE x.op = "insert"
    <3>1. /\ row[x.id] # None /\ PgReturn(c, <<"error">>) /\ UNCHANGED <<row, object>>
      BY <1>2, <2>1 DEF Missed
    <3>2. Atomic!Do(c)
      BY <1>0, <2>1, <3>1
         DEF Atomic!Do, PgReturn, Atomic!Rows, Atomic!ObjectsAfter, Atomic!Reply
    <3> QED
      BY <3>2 DEF Atomic!Next
  <2>2. CASE x.op # "insert"
    BY <1>2, <2>2 DEF Missed, SecondStatement, Atomic!storeVars
  <2> QED
    BY <2>1, <2>2
<1>3. CASE Selected(c)
  <2>1. Atomic!Do(c)
    BY <1>0, <1>3
       DEF Selected, Atomic!Do, PgReturn, Atomic!Rows, Atomic!ObjectsAfter, Atomic!Reply
  <2> QED
    BY <2>1 DEF Atomic!Next
<1>4. CASE Looked(c)
  <2>1. PgReturn(c, IF x.op = "put" THEN Compared(x) ELSE Conflict(x))
        /\ UNCHANGED <<row, object>>
    BY <1>4 DEF Looked
  <2>2. CASE x.op = "put" /\ object[x.id] # None
    <3>1. /\ Atomic!Reply(x) = Compared(x)
          /\ Atomic!Rows(x) = row /\ Atomic!ObjectsAfter(x) = object
      BY <2>2 DEF Atomic!Reply, Compared, Atomic!Rows, Atomic!ObjectsAfter
    <3>2. Atomic!Do(c)
      BY <1>0, <2>1, <2>2, <3>1 DEF Atomic!Do, PgReturn
    <3> QED
      BY <3>2 DEF Atomic!Next
  <2>3. CASE x.op = "swap" /\ x.expected < row[x.id].version
    <3>0. x.expected \in Nat /\ row[x.id].version \in Nat /\ row[x.id] # None
      BY <1>0, <2>3, CallTypes, PgAssumption DEF Pending, PgInv, PgTypeOK, Rows
    <3>1. ~Atomic!Wins(x)
      BY <2>3, <3>0 DEF Atomic!Wins
    <3>2. /\ Atomic!Reply(x) = Conflict(x)
          /\ Atomic!Rows(x) = row /\ Atomic!ObjectsAfter(x) = object
      BY <2>3, <3>0, <3>1 DEF Atomic!Reply, Conflict, Atomic!Rows, Atomic!ObjectsAfter
    <3>3. Atomic!Do(c)
      BY <1>0, <2>1, <2>3, <3>2 DEF Atomic!Do, PgReturn
    <3> QED
      BY <3>3 DEF Atomic!Next
  <2> QED
    BY <1>0, <1>4, <2>2, <2>3 DEF Looked, Pending
<1>5. CASE PgFails(c)
  <2>1. /\ PgReturn(c, <<"error">>)
        /\ Write(x) \/ UNCHANGED <<row, object>>
    BY <1>5 DEF PgFails
  <2>2. Atomic!Lose(c)
    BY <1>0, <2>1, WriteIsAtomic DEF Atomic!Lose, PgReturn
  <2> QED
    BY <2>2 DEF Atomic!Next
<1> QED
  BY <1>1, <1>2, <1>3, <1>4, <1>5 DEF PgStep

\* The two statements of the Postgres adapters answer as one atomic call would.
THEOREM PgStoreIsAtomic == Spec => StoreIsAtomic
<1>1. Init => PgInv /\ Atomic!StoreInit
  BY PgInvInit DEF Init, PgInit, Atomic!StoreInit
<1>2. ASSUME PgInv, [Next]_vars PROVE PgInv' /\ [Atomic!Next]_(Atomic!storeVars)
  <2>1. ASSUME NEW c \in Callers, NEW x \in PgCalls, PgCall(c, x)
        PROVE  PgInv' /\ [Atomic!Next]_(Atomic!storeVars)
    <3>1. Atomic!Ask(c)
      BY <2>1 DEF PgCall, Atomic!Ask, Atomic!Calls, PgCalls
    <3> QED
      BY <1>2, <2>1, <3>1, PgCallStep DEF Atomic!Next
  <2>2. ASSUME NEW c \in Callers, PgStep(c)
        PROVE  PgInv' /\ [Atomic!Next]_(Atomic!storeVars)
    BY <1>2, <2>2, PgInvStep, AtomicStep
  <2>3. CASE UNCHANGED pgVars
    BY <1>2, <2>3
       DEF pgVars, PgInv, PgTypeOK, Pending, Atomic!storeVars
  <2> QED
    BY <1>2, <2>1, <2>2, <2>3 DEF Next, vars, CreateSeal, ConsumeSeal, Restart
<1>3. PgInv /\ [Next]_vars => PgInv' /\ [Atomic!Next]_(Atomic!storeVars)
  BY <1>2
<1> QED
  BY <1>1, <1>3, PTL DEF Spec, StoreIsAtomic, Atomic!Spec

-----------------------------------------------------------------------------
(* The seals *)

\* What a caller was told in this run of the process is what the seal says.
Told ==
    /\ \A p \in proofs :
          /\ p.run <= restarts
          /\ p.run = restarts => /\ seal[p.seal_id] # None
                                /\ seal[p.seal_id].consumed_by = p.nullifier
                                /\ seal[p.seal_id].commitment = p.commitment
    /\ \A s \in created :
          /\ s.run <= restarts
          /\ s.run = restarts => /\ seal[s.seal_id] # None
                                /\ seal[s.seal_id].commitment = s.commitment

\* Nobody has the answer to a call that is pending.
Unanswered ==
    /\ answer = [c \in Callers |-> answer[c]]
    /\ \A c \in Callers : call[c] # None => answer[c] = None

SInv == PgInv /\ Unanswered /\ TypeOK /\ Told /\ OneProofPerSeal

\* A call has its answer when it returns, and not before.
LEMMA UnansweredStep ==
    ASSUME PgInv, Unanswered, NEW c \in Callers,
           PgStep(c) \/ \E x \in PgCalls : PgCall(c, x)
    PROVE  Unanswered'
<1>1. CASE \E a : PgReturn(c, a)
  BY <1>1 DEF PgReturn, Unanswered, PgInv, PgTypeOK
<1>2. CASE SecondStatement(c)
  BY <1>2 DEF SecondStatement, Unanswered
<1>3. CASE \E x \in PgCalls : PgCall(c, x)
  BY <1>3 DEF PgCall, Unanswered, PgInv, PgTypeOK
<1> QED
  BY <1>1, <1>2, <1>3 DEF PgStep, Written, Missed, Selected, Looked, PgFails

\* A caller is told a version the mandate can have.
LEMMA TokenTypes ==
    ASSUME PgInv, Unanswered, NEW c \in Callers, PgStep(c)
    PROVE  NewTokens(c) \subseteq Tokens
<1>0. call[c] \in PgCalls /\ call[c] # None /\ answer[c] = None
  BY CallTypes DEF PgStep, Written, Missed, Selected, Looked, PgFails, PgInv, PgTypeOK,
                   Pending, Unanswered
<1>1. CASE Written(c) /\ call[c].op = "swap"
  <2>1. answer'[c] = <<"applied", call[c].expected + 1>>
    BY <1>1 DEF Written, PgReturn, Unanswered
  <2> QED
    BY <1>0, <1>1, <2>1, CallTypes DEF NewTokens, Tokens
<1>2. CASE SecondStatement(c)
  BY <1>0, <1>2 DEF SecondStatement, NewTokens
<1>3. ASSUME NEW a, a \in {<<"ok">>, <<"error">>, <<"missing">>, <<"immutableViolation">>},
             PgReturn(c, a)
      PROVE  NewTokens(c) = {}
  <2>1. answer'[c] = a
    BY <1>3 DEF PgReturn, Unanswered
  <2> QED
    BY <1>3, <2>1 DEF NewTokens
<1>4. ASSUME NEW a, NEW v, a \in {"conflict", "row", "object"}, PgReturn(c, <<a, v>>)
      PROVE  NewTokens(c) = {}
  <2>1. answer'[c] = <<a, v>>
    BY <1>4 DEF PgReturn, Unanswered
  <2> QED
    BY <1>4, <2>1 DEF NewTokens
<1>5. CASE Written(c) /\ call[c].op # "swap"
  BY <1>3, <1>5 DEF Written
<1>6. CASE Missed(c)
  BY <1>2, <1>3, <1>6 DEF Missed
<1>7. CASE Selected(c)
  BY <1>4, <1>7 DEF Selected
<1>8. CASE Looked(c)
  <2>1. CASE call[c].op = "put"
    BY <1>3, <1>8, <2>1 DEF Looked, Compared
  <2>2. CASE call[c].op # "put"
    BY <1>3, <1>4, <1>8, <2>2 DEF Looked, Conflict
  <2> QED
    BY <2>1, <2>2
<1>9. CASE PgFails(c)
  BY <1>3, <1>9 DEF PgFails
<1> QED
  BY <1>1, <1>5, <1>6, <1>7, <1>8, <1>9 DEF PgStep

\* What is told in the current run agrees with the seals, and so with itself.
LEMMA ToldAgrees ==
    ASSUME OneProofPerSeal, TypeOK', Told',
           \A p \in proofs' : p \in proofs \/ p.run = restarts',
           \A s \in created' : s \in created \/ s.run = restarts'
    PROVE  OneProofPerSeal'
<1> SUFFICES ASSUME NEW p \in proofs', NEW q \in proofs', p.run = q.run, p.seal_id = q.seal_id
             PROVE  /\ p = q
                    /\ \A s \in created' :
                          s.run = p.run /\ s.seal_id = p.seal_id => s.commitment = p.commitment
  BY DEF OneProofPerSeal
<1>1. CASE p.run = restarts'
  <2>1. p.nullifier = q.nullifier /\ p.commitment = q.commitment
    BY <1>1 DEF Told
  <2>2. p = q
    BY <2>1 DEF TypeOK
  <2> QED
    BY <1>1, <2>2 DEF Told
<1>2. CASE p.run # restarts'
  BY <1>2 DEF OneProofPerSeal
<1> QED
  BY <1>1, <1>2

\* A seal binds the first commitment it is created with.
LEMMA CreateStep ==
    ASSUME SInv, NEW m \in Mandates, NEW commitment \in Commitments, CreateSeal(m, commitment)
    PROVE  TypeOK' /\ Told' /\ OneProofPerSeal'
<1>0. TypeOK /\ Told /\ restarts \in 0..MaxRestarts /\ restarts' = restarts
      /\ UNCHANGED <<pgVars, token, proofs>>
  BY DEF SInv, TypeOK, CreateSeal
<1>1. [commitment |-> commitment, consumed_by |-> None] \in Seals
  BY DEF Seals
<1>2. /\ seal' \in [Mandates -> Seals \cup {None}]
      /\ seal'[m] # None /\ seal'[m].commitment = commitment
      /\ \A n \in Mandates : seal[n] # None => seal'[n] = seal[n]
  BY <1>0, <1>1, NoSealAssumption DEF CreateSeal, TypeOK
<1>3. TypeOK'
  BY <1>0, <1>2 DEF CreateSeal, TypeOK, PgTypeOK, pgVars
<1>4. Told'
  <2>1. \A p \in proofs : p.seal_id \in Mandates
    BY <1>0 DEF TypeOK
  <2>2. \A s \in created : s.seal_id \in Mandates
    BY <1>0 DEF TypeOK
  <2> QED
    BY <1>0, <1>2, <2>1, <2>2 DEF CreateSeal, Told
<1> QED
  BY <1>0, <1>3, <1>4, ToldAgrees DEF CreateSeal, SInv

\* A seal is consumed by one reservation, which may ask again.
LEMMA ConsumeStep ==
    ASSUME SInv, NEW t \in token, ConsumeSeal(t.mandate, t)
    PROVE  TypeOK' /\ Told' /\ OneProofPerSeal'
<1> DEFINE m == t.mandate
<1>0. /\ TypeOK /\ Told /\ restarts \in 0..MaxRestarts /\ restarts' = restarts
      /\ UNCHANGED <<pgVars, token, created>>
      /\ t \in Tokens /\ m \in Mandates /\ t # None
  BY NoSealAssumption DEF SInv, TypeOK, ConsumeSeal, Tokens
<1>1. seal[m] \in Seals /\ seal[m].consumed_by \in {None, t}
  BY <1>0 DEF ConsumeSeal, Consumable, TypeOK
<1>2. [seal[m] EXCEPT !.consumed_by = t] \in Seals
  BY <1>0, <1>1 DEF Seals
<1>3. /\ seal' \in [Mandates -> Seals \cup {None}] /\ seal'[m] # None
      /\ seal'[m].consumed_by = t /\ seal'[m].commitment = seal[m].commitment
      /\ \A n \in Mandates \ {m} : seal'[n] = seal[n]
  <2>1. seal' = [seal EXCEPT ![m] = [seal[m] EXCEPT !.consumed_by = t]]
    BY DEF ConsumeSeal
  <2>2. seal'[m] = [seal[m] EXCEPT !.consumed_by = t]
    BY <1>0, <2>1 DEF TypeOK
  <2>3. /\ seal'[m].consumed_by = t /\ seal'[m].commitment = seal[m].commitment
    BY <1>1, <2>2 DEF Seals
  <2>4. seal'[m] # None
    BY <1>2, <2>2, NoSealAssumption
  <2> QED
    BY <1>0, <1>2, <2>1, <2>3, <2>4 DEF TypeOK
<1>4. [run |-> restarts, seal_id |-> m, nullifier |-> t, commitment |-> seal[m].commitment]
         \in [run : 0..MaxRestarts, seal_id : Mandates, nullifier : Tokens, commitment : Commitments]
  BY <1>0, <1>1 DEF Seals
<1>5. TypeOK'
  BY <1>0, <1>3, <1>4 DEF ConsumeSeal, TypeOK, PgTypeOK, pgVars
<1>6. Told'
  <2>1. \A p \in proofs : p.seal_id \in Mandates /\ p.nullifier \in Tokens
    BY <1>0 DEF TypeOK
  <2>2. \A s \in created : s.seal_id \in Mandates
    BY <1>0 DEF TypeOK
  <2>3. \A p \in proofs : p.run = restarts /\ p.seal_id = m => p.nullifier = t
    BY <1>0, <1>1, <2>1, NoSealAssumption DEF Told
  <2>4. ASSUME NEW p \in proofs'
        PROVE  /\ p.run <= restarts
               /\ p.run = restarts => /\ seal'[p.seal_id] # None
                                     /\ seal'[p.seal_id].consumed_by = p.nullifier
                                     /\ seal'[p.seal_id].commitment = p.commitment
    <3>1. CASE p \in proofs
      BY <1>0, <1>3, <2>1, <2>3, <3>1 DEF Told
    <3>2. CASE p \notin proofs
      BY <1>0, <1>3, <3>2 DEF ConsumeSeal
    <3> QED
      BY <3>1, <3>2
  <2> QED
    BY <1>0, <1>3, <2>2, <2>4 DEF Told
<1> QED
  BY <1>0, <1>5, <1>6, ToldAgrees DEF ConsumeSeal, SInv

\* A restart begins a run in which nobody has been told anything.
LEMMA RestartStep ==
    ASSUME SInv, Restart PROVE TypeOK' /\ Told' /\ OneProofPerSeal'
<1>0. /\ TypeOK /\ Told /\ restarts \in Nat /\ restarts' = restarts + 1
      /\ restarts' \in 0..MaxRestarts
      /\ UNCHANGED <<pgVars, token, created, proofs>>
  BY SealAssumption DEF SInv, TypeOK, Restart
<1>1. TypeOK'
  BY <1>0 DEF Restart, TypeOK, PgTypeOK, pgVars
<1>2. /\ \A p \in proofs : p.run \in Nat
      /\ \A s \in created : s.run \in Nat
  BY <1>0 DEF TypeOK
<1>3. Told'
  BY <1>0, <1>2 DEF Told
<1> QED
  BY <1>0, <1>1, <1>3, ToldAgrees DEF SInv

\* The store's steps leave the seals alone.
LEMMA StoreStep ==
    ASSUME SInv, PgInv', token' \subseteq Tokens, UNCHANGED <<seal, restarts, created, proofs>>
    PROVE  TypeOK' /\ Told' /\ OneProofPerSeal'
  BY DEF SInv, PgInv, TypeOK, Told, OneProofPerSeal

\* Every step preserves the invariant of seals and store.
LEMMA SInvStep == SInv /\ [Next]_vars => SInv'
<1> SUFFICES ASSUME SInv, [Next]_vars PROVE SInv'
  OBVIOUS
<1>0. PgInv /\ Unanswered /\ token \subseteq Tokens
  BY DEF SInv, TypeOK
<1>1. ASSUME NEW c \in Callers, NEW x \in PgCalls, PgCall(c, x), UNCHANGED sealVars
      PROVE  SInv'
  <2>1. PgInv' /\ Unanswered'
    BY <1>0, <1>1, PgCallStep, UnansweredStep
  <2> QED
    BY <1>0, <1>1, <2>1, StoreStep DEF SInv, sealVars
<1>2. ASSUME NEW c \in Callers, PgStep(c), token' = token \cup NewTokens(c),
             UNCHANGED <<seal, restarts, created, proofs>>
      PROVE  SInv'
  <2>1. PgInv' /\ Unanswered' /\ token' \subseteq Tokens
    BY <1>0, <1>2, PgInvStep, UnansweredStep, TokenTypes
  <2> QED
    BY <1>2, <2>1, StoreStep DEF SInv
<1>3. ASSUME UNCHANGED pgVars PROVE PgInv' /\ Unanswered'
  BY <1>0, <1>3 DEF pgVars, PgInv, PgTypeOK, Pending, Unanswered
<1>4. ASSUME NEW m \in Mandates, NEW commitment \in Commitments, CreateSeal(m, commitment)
      PROVE  SInv'
  BY <1>3, <1>4, CreateStep DEF SInv, CreateSeal
<1>5. ASSUME NEW t \in token, ConsumeSeal(t.mandate, t) PROVE SInv'
  BY <1>3, <1>5, ConsumeStep DEF SInv, ConsumeSeal
<1>6. CASE Restart
  BY <1>3, <1>6, RestartStep DEF SInv, Restart
<1>7. CASE UNCHANGED vars
  BY <1>0, <1>3, <1>7, StoreStep DEF SInv, vars, sealVars
<1> QED
  BY <1>1, <1>2, <1>4, <1>5, <1>6, <1>7 DEF Next

\* Within one run of the process every proof of a seal names one reservation
\* and the commitment its creators were told.
THEOREM SealsAreSingleUse == Spec => []OneProofPerSeal
<1>1. Init => SInv
  <2> SUFFICES ASSUME Init PROVE SInv
    OBVIOUS
  <2>1. PgInv /\ Unanswered
    BY PgInvInit DEF Init, PgInit, Unanswered
  <2> QED
    BY <2>1, SealAssumption
       DEF Init, PgInv, SInv, TypeOK, Told, OneProofPerSeal
<1>2. SInv => OneProofPerSeal
  BY DEF SInv
<1> QED
  BY <1>1, <1>2, SInvStep, PTL DEF Spec

===========================================================================
