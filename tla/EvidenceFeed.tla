--------------------------- MODULE EvidenceFeed ---------------------------
(***************************************************************************)
(* The signed evidence feed (evidence_feed_server.rs) and the connector    *)
(* that pulls it.  Every pull rebuilds the exports from the receipts of    *)
(* the store, numbers them by their place and returns a page after the     *)
(* connector's cursor.  Receipts are inserted in between; a receipt that   *)
(* cannot be exported in this pull, for good or for the moment, is left    *)
(* out and the ones behind it move up.  The connector indexes a page and   *)
(* then completes its run, or fails in between.                            *)
(***************************************************************************)
EXTENDS Integers, FiniteSets, FiniteSetsExt

CONSTANTS
    Receipts,      \* receipt identifiers, numbers in the order of their digests
    Gapped,        \* receipts with an evidence gap, which no bundle can be made of
    Times,         \* receipt times; i64, so one may be negative
    Limits,        \* page sizes asked for, 0 included
    MaxLimit,      \* the largest page size served, 1024
    Copies,        \* numbers, from 1 on, of the occurrences of a receipt in an allow-list
    AllowLists,    \* the allow-lists a server may be given, sets of entries
    MaxFaulty,     \* bound: receipts whose export fails for the moment
    None           \* no receipt time, no allow-list

\* A list may name a receipt several times; its order is lost when it is sorted.
Entries == [receipt : Receipts, copy : Copies]

ASSUME FeedAssumption ==
    /\ Receipts \subseteq Nat /\ Gapped \subseteq Receipts
    /\ Copies \subseteq Nat /\ 1 \in Copies
    /\ AllowLists \subseteq SUBSET Entries
    /\ Times \subseteq Int /\ Limits \subseteq Nat
    /\ MaxLimit \in Nat /\ MaxFaulty \in Nat
    /\ IsFiniteSet(Receipts) /\ IsFiniteSet(Copies)
    /\ None \notin Int

VARIABLES
    created,     \* created_at of each receipt in the store
    allow,       \* PITEKA_FEED_RECEIPTS, or None
    cursor,      \* the connector's next after_sequence
    indexed,     \* the receipts the connector has indexed
    running,     \* whether it has indexed a page in a run that is not over
    batch,       \* that page
    health,      \* its source's health: run started, run completed, cursor_observed_at
    handed,      \* history: the exports handed out
    late,        \* history: receipts inserted before one that was there already
    faulty       \* history: receipts a pull has skipped although they can be exported

feedVars == <<created, allow, cursor, indexed, running, batch, health, handed, late, faulty>>

Stored == {r \in Receipts : created[r] # None}

Exports == [sequence : 1..Cardinality(Entries), export_id : Receipts, emitted_at : Nat]

Healths == [started : BOOLEAN, completed : BOOLEAN, observed : Nat \cup {None}]

FeedTypeOK ==
    /\ created \in [Receipts -> Times \cup {None}]
    /\ allow \in AllowLists \cup {None}
    /\ cursor \in 0..Cardinality(Entries)
    /\ indexed \subseteq Receipts
    /\ running \in BOOLEAN
    /\ batch \subseteq Exports
    /\ health \in Healths
    /\ handed \subseteq Exports
    /\ late \subseteq Receipts
    /\ faulty \subseteq Receipts

FeedInit ==
    /\ created = [r \in Receipts |-> None]
    /\ allow \in AllowLists \cup {None}
    /\ cursor = 0
    /\ indexed = {}
    /\ running = FALSE
    /\ batch = {}
    /\ health = [started |-> FALSE, completed |-> FALSE, observed |-> None]
    /\ handed = {}
    /\ late = {}
    /\ faulty = {}

-----------------------------------------------------------------------------
(* The server *)

\* Mutant: the newest receipt first.
Before_Newest(q, r) == created[q] > created[r] \/ (created[q] = created[r] /\ q < r)

\* ORDER BY created_at, receipt_id_hex
Before(q, r) == created[q] < created[r] \/ (created[q] = created[r] /\ q < r)

\* The receipts to publish: those of the allow-list, or all.
CurrentReceipts == IF allow = None THEN [receipt : Stored, copy : {1}] ELSE allow

\* An allow-list with a receipt that is not in the store fails every pull.
CanList == \A e \in CurrentReceipts : e.receipt \in Stored

\* A receipt that the list repeats keeps its place, once per occurrence.
Precedes(d, e) ==
    Before(d.receipt, e.receipt) \/ (d.receipt = e.receipt /\ d.copy < e.copy)

\* The place of an entry among those exported.
Place(e, list) == Cardinality({d \in list : ~ Precedes(e, d)})

\* The emission clock: the receipt's time, moved on by those before it where it would not
\* increase, and never below 1.
EmittedAt(e, list) ==
    Max({Max({created[d.receipt], 1}) + Place(e, list) - Place(d, list) :
            d \in {x \in list : ~ Precedes(e, x)}})

\* The entries of receipts that a bundle can be made of.
Exportable == {e \in CurrentReceipts : e.receipt \notin Gapped}

\* The exports of the entries that assemble, numbered by their place.
BuildExports(skipped) ==
    LET list == Exportable \ skipped
    IN  {[sequence |-> Place(e, list), export_id |-> e.receipt, emitted_at |-> EmittedAt(e, list)] :
            e \in list}

\* Mutant: the page starts one too late.
Selected_OffByOne(exports, limit) ==
    {x \in exports : x.sequence > cursor + 1 /\ x.sequence <= cursor + 1 + limit}

\* The page after the connector's cursor.
Selected(exports, limit) ==
    {x \in exports : x.sequence > cursor /\ x.sequence <= cursor + limit}

\* The sequence number and the emission time of the page's last export.
Last(page) == CHOOSE x \in page : \A y \in page : y.sequence <= x.sequence

\* The limits serve_feed serves, to a caller with the token.
Serves(limit) == limit > 0 /\ limit <= MaxLimit

-----------------------------------------------------------------------------
(* The connector, external, and the producers of receipts *)

\* A producer reads the clock, and inserts its receipt when others may have inserted
\* theirs: of the same second, or of a later one.
InsertReceipt ==
    /\ \E r \in Receipts \ Stored, t \in Times :
          /\ created' = [created EXCEPT ![r] = t]
          /\ late' = IF \E q \in Stored : t < created[q] \/ (t = created[q] /\ r < q)
                     THEN late \cup {r} ELSE late
    /\ UNCHANGED <<allow, cursor, indexed, running, batch, health, handed, faulty>>

\* A run of the connector pulls a page and indexes it; the server may fail to export some
\* receipts for the moment, and skips them as it skips the gapped ones.
Pull ==
    /\ ~ running
    /\ running' = TRUE
    /\ CanList
    /\ \E skipped \in SUBSET Exportable :
          /\ faulty' = faulty \cup {e.receipt : e \in skipped}
          /\ Cardinality(faulty') <= MaxFaulty
          /\ \E exports \in {BuildExports(skipped)}, limit \in {n \in Limits : Serves(n)} :
                /\ batch' = Selected(exports, limit)
                /\ handed' = handed \cup batch'
                /\ indexed' = indexed \cup {x.export_id : x \in batch'}
    /\ health' = [health EXCEPT !.started = TRUE]
    /\ UNCHANGED <<created, allow, cursor, late>>

\* The run is over.
EndRun == running' = FALSE /\ batch' = {}

\* The run completes: the cursor moves to the end of its page.
CompleteRun ==
    /\ running
    /\ EndRun
    /\ cursor' = IF batch = {} THEN cursor ELSE Last(batch).sequence
    /\ health' = [health EXCEPT
                     !.completed = TRUE,
                     !.observed = IF batch = {} THEN @ ELSE Last(batch).emitted_at]
    /\ UNCHANGED <<created, allow, indexed, handed, late, faulty>>

\* The run fails after it has indexed its page, and the next one starts where it started.
RunFails ==
    /\ running
    /\ EndRun
    /\ UNCHANGED <<created, allow, cursor, indexed, health, handed, late, faulty>>

\* A run that ends without a page the connector can use: no token, a limit the server does
\* not serve, a receipt missing from its list, or an answer lost after it was sent.
PullFails ==
    /\ ~ running
    /\ health' = [health EXCEPT !.started = TRUE]
    /\ \/ UNCHANGED handed
       \/ /\ CanList
          /\ \E exports \in {BuildExports({})}, limit \in {n \in Limits : Serves(n)} :
                handed' = handed \cup Selected(exports, limit)
    /\ UNCHANGED <<created, allow, cursor, indexed, running, batch, late, faulty>>

FeedNext == InsertReceipt \/ Pull \/ CompleteRun \/ RunFails \/ PullFails

-----------------------------------------------------------------------------
(* Properties *)

\* A receipt that the allow-list names more than once.
Repeated(r) ==
    \E d, e \in CurrentReceipts : d # e /\ d.receipt = r /\ e.receipt = r

\* A sequence number goes on naming the receipt it was handed out for, with the same
\* emission time, and a receipt keeps its number, however pulls, failed pulls and
\* insertions interleave; only a receipt that was inserted late or skipped for the moment
\* is an excuse, for itself and for those behind it, and a receipt the allow-list repeats
\* has several numbers.  (build_exports makes no exception: the numbers are "stable as new
\* receipts append at the end".)
HandedOutIsStable ==
    \A x, y \in handed :
        x.sequence = y.sequence \/ (x.export_id = y.export_id /\ ~ Repeated(x.export_id)) =>
            \/ x = y
            \/ \E z \in late \cup faulty :
                  ~ Before(x.export_id, z) \/ ~ Before(y.export_id, z)

\* Every receipt the server lists and can export reaches the connector in the end,
\* whatever page sizes it asks for and answers it loses (serve_feed's cursor): unless it
\* was inserted late itself, behind the cursor, or it or one before it was skipped.
EveryExportIsPulled ==
    \A r \in Receipts \ Gapped :
        (CanList /\ \E e \in Exportable : e.receipt = r)
            ~> \/ r \in indexed \cup late
               \/ r \in Stored /\ \E z \in faulty : ~ Before(r, z)

-----------------------------------------------------------------------------
(* What makes HandedOutIsStable inductive *)

\* No receipt inserted late or skipped is at or before this one.
Unexcused(x) == \A z \in late \cup faulty : Before(x.export_id, z)

\* An export a pull would hand out for this receipt now.
IsCurrent(x) ==
    \E e \in Exportable :
        /\ x.export_id = e.receipt
        /\ x.sequence = Place(e, Exportable)
        /\ x.emitted_at = EmittedAt(e, Exportable)

\* Nothing that was handed out is out of date without an excuse.
HandedOutIsCurrent ==
    /\ late \cup faulty \subseteq Stored
    /\ handed # {} => CanList
    /\ \A x \in handed : x.export_id \in Stored /\ (Unexcused(x) => IsCurrent(x))

=============================================================================
