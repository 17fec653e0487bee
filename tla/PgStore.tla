------------------------------ MODULE PgStore ------------------------------
(***************************************************************************)
(* The Postgres adapters of the mandate projections and the protocol       *)
(* objects (postgres.rs).  A statement is atomic, a call is not: a swap    *)
(* that updates no row, and a put that inserts none, find out why in a     *)
(* second statement, and other callers run in between.  The connection     *)
(* may fail before a statement is executed or after.                       *)
(***************************************************************************)
EXTENDS Naturals

CONSTANTS
    Mandates,     \* mandate identifiers
    Objects,      \* protocol object identifiers
    Bytes,        \* contents of protocol objects
    Callers,      \* concurrent calls of the stores
    MaxVersion,   \* bound: the last version a mandate reaches
    None          \* no row, no pending call, no answer yet

ASSUME PgAssumption == MaxVersion \in Nat \ {0}

VARIABLES
    row,        \* mandate_projections
    object,     \* protocol_objects
    call,       \* the call each caller waits for
    statement,  \* the statement it executes next, 0 for an idle caller
    answer      \* the answer to its last call

pgVars == <<row, object, call, statement, answer>>

Versions == 1..(MaxVersion - 1)

PgCalls ==
    [op : {"insert", "get"}, id : Mandates]
    \cup [op : {"swap"}, id : Mandates, expected : Versions,
          state : {"reserved", "consumed"}]
    \cup [op : {"put"}, id : Objects, bytes : Bytes]
    \cup [op : {"fetch"}, id : Objects]

Rows == [version : 1..MaxVersion, state : {"issued", "reserved", "consumed"}]

ASSUME NoneAssumption == None \notin Rows \cup Bytes \cup PgCalls

PgTypeOK ==
    /\ row \in [Mandates -> Rows \cup {None}]
    /\ object \in [Objects -> Bytes \cup {None}]
    /\ call \in [Callers -> PgCalls \cup {None}]
    /\ statement \in [Callers -> 0..2]

PgInit ==
    /\ row = [m \in Mandates |-> None]
    /\ object = [o \in Objects |-> None]
    /\ call = [c \in Callers |-> None]
    /\ statement = [c \in Callers |-> 0]
    /\ answer = [c \in Callers |-> None]

-----------------------------------------------------------------------------

\* A caller presents a version that it has read or was told of.
Presentable(x) ==
    x.op = "swap" => row[x.id] # None /\ x.expected <= row[x.id].version

PgCall(c, x) ==
    /\ call[c] = None
    /\ Presentable(x)
    /\ call' = [call EXCEPT ![c] = x]
    /\ statement' = [statement EXCEPT ![c] = 1]
    /\ answer' = [answer EXCEPT ![c] = None]
    /\ UNCHANGED <<row, object>>

PgReturn(c, a) ==
    /\ answer' = [answer EXCEPT ![c] = a]
    /\ call' = [call EXCEPT ![c] = None]
    /\ statement' = [statement EXCEPT ![c] = 0]

SecondStatement(c) ==
    /\ statement' = [statement EXCEPT ![c] = 2]
    /\ UNCHANGED <<call, answer>>

\* INSERT INTO mandate_projections; the primary key refuses a second one.
InsertMandate(x) ==
    /\ x.op = "insert"
    /\ row[x.id] = None
    /\ row' = [row EXCEPT ![x.id] = [version |-> 1, state |-> "issued"]]
    /\ UNCHANGED object

\* UPDATE ... WHERE mandate_id_hex = $1 AND version = $2 RETURNING version
UpdateMandate(x) ==
    /\ x.op = "swap"
    /\ row[x.id] # None
    /\ row[x.id].version = x.expected
    /\ row' = [row EXCEPT ![x.id] = [version |-> x.expected + 1, state |-> x.state]]
    /\ UNCHANGED object

\* INSERT INTO protocol_objects ... ON CONFLICT (object_id_hex) DO NOTHING
InsertObject(x) ==
    /\ x.op = "put"
    /\ object[x.id] = None
    /\ object' = [object EXCEPT ![x.id] = x.bytes]
    /\ UNCHANGED row

Write(x) == InsertMandate(x) \/ UpdateMandate(x) \/ InsertObject(x)

\* The first statement changes its row.
Written(c) ==
    LET x == call[c] IN
    /\ statement[c] = 1
    /\ Write(x)
    /\ PgReturn(c, IF x.op = "swap" THEN <<"applied", x.expected + 1>> ELSE <<"ok">>)

\* It finds nothing to change.
Missed(c) ==
    LET x == call[c] IN
    /\ statement[c] = 1
    /\ \/ x.op = "insert" /\ row[x.id] # None /\ PgReturn(c, <<"error">>)
       \/ /\ x.op = "swap"
          /\ row[x.id] = None \/ row[x.id].version # x.expected
          /\ SecondStatement(c)
       \/ x.op = "put" /\ object[x.id] # None /\ SecondStatement(c)
    /\ UNCHANGED <<row, object>>

\* It only reads.
Selected(c) ==
    LET x == call[c] IN
    /\ statement[c] = 1
    /\ \/ x.op = "get" /\ PgReturn(c, <<"row", row[x.id]>>)
       \/ x.op = "fetch" /\ PgReturn(c, <<"object", object[x.id]>>)
    /\ UNCHANGED <<row, object>>

\* Mutant: an object that is there is taken to be the same.
Compared_Same(x) == <<"ok">>

\* The bytes of an object that was there are compared.
Compared(x) == IF object[x.id] = x.bytes THEN <<"ok">> ELSE <<"immutableViolation">>

\* Why the swap updated nothing, as the row now is.
Conflict(x) ==
    IF row[x.id] = None THEN <<"missing">> ELSE <<"conflict", row[x.id].version>>

Looked(c) ==
    LET x == call[c] IN
    /\ statement[c] = 2
    /\ PgReturn(c, IF x.op = "put" THEN Compared(x) ELSE Conflict(x))
    /\ UNCHANGED <<row, object>>

\* The statement is not executed, or its answer is lost.
PgFails(c) ==
    /\ statement[c] # 0
    /\ \/ statement[c] = 1 /\ Write(call[c])
       \/ UNCHANGED <<row, object>>
    /\ PgReturn(c, <<"error">>)

PgStep(c) == Written(c) \/ Missed(c) \/ Selected(c) \/ Looked(c) \/ PgFails(c)

-----------------------------------------------------------------------------

Atomic == INSTANCE AtomicStore

\* The two statements of a lost swap and of a repeated put answer as one atomic call
\* would, whatever happens between them and whichever statement fails: for callers that
\* present a version the mandate has had (compare_and_swap, put of the ports).
StoreIsAtomic == Atomic!Spec

=============================================================================
