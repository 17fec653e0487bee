---------------------------- MODULE SealAnchor ----------------------------
(***************************************************************************)
(* The single-use seals (piteka-infra anchor.rs) beside the Postgres       *)
(* reservation of a mandate.  A seal is created when its mandate is issued *)
(* and consumed by whoever won a swap of the mandate; both are retried     *)
(* after a lost answer.  The seals live in the memory of one process.      *)
(***************************************************************************)
EXTENDS PgStore

CONSTANTS
    Commitments,   \* authorized intent ids
    MaxRestarts    \* bound: restarts of the process

ASSUME SealAssumption == MaxRestarts \in Nat

VARIABLES
    seal,       \* the seal of each mandate: what it binds and who consumed it
    restarts,   \* how often the process was restarted
    token,      \* history: reservation tokens, one per swap a caller was told it won
    created,    \* history: the seals callers were told they created, per run of the process
    proofs      \* history: the consumption proofs callers hold, per run of the process

sealVars == <<seal, restarts, token, created, proofs>>

vars == <<pgVars, sealVars>>

\* The token of the swap of a mandate to this version.
Tokens == [mandate : Mandates, version : 1..MaxVersion]

Seals == [commitment : Commitments, consumed_by : Tokens \cup {None}]

ASSUME NoSealAssumption == None \notin Tokens \cup Seals

TypeOK ==
    /\ PgTypeOK
    /\ seal \in [Mandates -> Seals \cup {None}]
    /\ restarts \in 0..MaxRestarts
    /\ token \subseteq Tokens
    /\ created \subseteq [run : 0..MaxRestarts, seal_id : Mandates, commitment : Commitments]
    /\ proofs \subseteq [run : 0..MaxRestarts, seal_id : Mandates, nullifier : Tokens,
                         commitment : Commitments]

Init ==
    /\ PgInit
    /\ seal = [m \in Mandates |-> None]
    /\ restarts = 0
    /\ token = {}
    /\ created = {}
    /\ proofs = {}

-----------------------------------------------------------------------------

CreateSeal(m, commitment) ==
    /\ \/ /\ seal[m] = None
          /\ seal' = [seal EXCEPT ![m] = [commitment |-> commitment, consumed_by |-> None]]
       \/ /\ seal[m] # None
          /\ seal[m].commitment = commitment
          /\ UNCHANGED seal
    /\ \/ created' = created \cup {[run |-> restarts, seal_id |-> m, commitment |-> commitment]}
       \/ UNCHANGED created                     \* the answer is lost
    /\ UNCHANGED <<pgVars, restarts, token, proofs>>

\* Mutant: any retry is taken for a repetition.
Consumable_Any(m, nullifier) == seal[m] # None

Consumable(m, nullifier) ==
    seal[m] # None /\ seal[m].consumed_by \in {None, nullifier}

ConsumeSeal(m, nullifier) ==
    /\ Consumable(m, nullifier)
    /\ seal' = [seal EXCEPT ![m].consumed_by = nullifier]
    /\ \/ proofs' = proofs \cup {[run |-> restarts, seal_id |-> m, nullifier |-> nullifier,
                                  commitment |-> seal[m].commitment]}
       \/ UNCHANGED proofs                      \* the answer is lost
    /\ UNCHANGED <<pgVars, restarts, token, created>>

Restart ==
    /\ restarts < MaxRestarts
    /\ restarts' = restarts + 1
    /\ seal' = [m \in Mandates |-> None]
    /\ UNCHANGED <<pgVars, token, created, proofs>>

-----------------------------------------------------------------------------

\* A caller that is told it won keeps the token of its reservation.
NewTokens(c) ==
    IF answer'[c] # None /\ answer'[c][1] = "applied"
    THEN {[mandate |-> call[c].id, version |-> answer'[c][2]]} ELSE {}

Next ==
    \/ \E c \in Callers :
          \/ \E x \in PgCalls : PgCall(c, x) /\ UNCHANGED sealVars
          \/ /\ PgStep(c)
             /\ token' = token \cup NewTokens(c)
             /\ UNCHANGED <<seal, restarts, created, proofs>>
    \/ \E m \in Mandates, commitment \in Commitments :
          row[m] # None /\ CreateSeal(m, commitment)
    \/ \E t \in token : ConsumeSeal(t.mandate, t)
    \/ Restart

Spec == Init /\ [][Next]_vars

-----------------------------------------------------------------------------

\* However often a mandate was reserved and whatever was retried, all proofs of its seal
\* name one reservation, and bind the commitment of everyone who was told the seal was
\* created (create_seal, consume_seal).  The map is in memory: this is so in one run of
\* the process, and "consumed exactly once" does not survive a restart.
OneProofPerSeal ==
    \A p, q \in proofs :
        p.run = q.run /\ p.seal_id = q.seal_id =>
            /\ p = q
            /\ \A s \in created :
                  s.run = p.run /\ s.seal_id = p.seal_id => s.commitment = p.commitment

=============================================================================
