---------------------------- MODULE AtomicStore ----------------------------
(***************************************************************************)
(* What the storage ports promise of the mandate projections and of the    *)
(* protocol objects: a call takes effect at once, somewhere between its    *)
(* start and its answer, and its answer is of that moment.  A call that    *)
(* ends with a backend error may have taken effect or not.                 *)
(***************************************************************************)
EXTENDS Naturals

CONSTANTS
    Mandates,   \* mandate identifiers
    Objects,    \* protocol object identifiers
    Bytes,      \* contents of protocol objects
    Callers,    \* concurrent calls of the stores
    Versions,   \* versions callers present
    None        \* no row, no pending call, no answer yet

VARIABLES
    row,        \* mandate_projections: the version and state of each mandate
    object,     \* protocol_objects: the bytes of each object
    call,       \* the call each caller waits for
    answer      \* the answer to its last call

storeVars == <<row, object, call, answer>>

Calls ==
    [op : {"insert", "get"}, id : Mandates]
    \cup [op : {"swap"}, id : Mandates, expected : Versions, state : {"reserved", "consumed"}]
    \cup [op : {"put"}, id : Objects, bytes : Bytes]
    \cup [op : {"fetch"}, id : Objects]

StoreInit ==
    /\ row = [m \in Mandates |-> None]
    /\ object = [o \in Objects |-> None]
    /\ call = [c \in Callers |-> None]
    /\ answer = [c \in Callers |-> None]

Wins(x) == row[x.id] # None /\ row[x.id].version = x.expected

\* What a call leaves of the mandates and of the objects.
Rows(x) ==
    CASE x.op = "insert" /\ row[x.id] = None ->
            [row EXCEPT ![x.id] = [version |-> 1, state |-> "issued"]]
      [] x.op = "swap" /\ Wins(x) ->
            [row EXCEPT ![x.id] = [version |-> @.version + 1, state |-> x.state]]
      [] OTHER -> row

ObjectsAfter(x) ==
    IF x.op = "put" /\ object[x.id] = None
    THEN [object EXCEPT ![x.id] = x.bytes] ELSE object

\* What it answers.
Reply(x) ==
    CASE x.op = "insert" -> IF row[x.id] = None THEN <<"ok">> ELSE <<"error">>
      [] x.op = "get"    -> <<"row", row[x.id]>>
      [] x.op = "swap"   -> IF row[x.id] = None THEN <<"missing">>
                            ELSE IF Wins(x) THEN <<"applied", x.expected + 1>>
                            ELSE <<"conflict", row[x.id].version>>
      [] x.op = "put"    -> IF object[x.id] \in {None, x.bytes} THEN <<"ok">>
                            ELSE <<"immutableViolation">>
      [] x.op = "fetch"  -> <<"object", object[x.id]>>

Ask(c) ==
    /\ call[c] = None
    /\ \E x \in Calls : call' = [call EXCEPT ![c] = x]
    /\ answer' = [answer EXCEPT ![c] = None]
    /\ UNCHANGED <<row, object>>

Do(c) ==
    /\ call[c] # None
    /\ row' = Rows(call[c])
    /\ object' = ObjectsAfter(call[c])
    /\ answer' = [answer EXCEPT ![c] = Reply(call[c])]
    /\ call' = [call EXCEPT ![c] = None]

Lose(c) ==
    /\ call[c] # None
    /\ \/ row' = Rows(call[c]) /\ object' = ObjectsAfter(call[c])
       \/ UNCHANGED <<row, object>>
    /\ answer' = [answer EXCEPT ![c] = <<"error">>]
    /\ call' = [call EXCEPT ![c] = None]

Next == \E c \in Callers : Ask(c) \/ Do(c) \/ Lose(c)

Spec == StoreInit /\ [][Next]_storeVars

=============================================================================
