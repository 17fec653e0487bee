------------------------ MODULE ObservationProofs -------------------------
(***************************************************************************)
(* Theorems about EvidenceFeed and Observation: for every set of receipts, *)
(* receipt times, page sizes, allow-lists, tenants and queriers, however   *)
(* insertions, pulls, outages, retractions and queries interleave.         *)
(***************************************************************************)
EXTENDS Observation, FiniteSetTheorems, WellFoundedInduction, TLAPS

-----------------------------------------------------------------------------
(* The order of receipts and the numbers of a pull, for any receipt times  *)

\* The order of a list's entries, those at or before one, its place and its emission time,
\* with the receipt times as a parameter: two states, or two lists, can be compared.
BeforeIn(times, q, r) == times[q] < times[r] \/ (times[q] = times[r] /\ q < r)

PrecedesIn(times, d, e) ==
    BeforeIn(times, d.receipt, e.receipt) \/ (d.receipt = e.receipt /\ d.copy < e.copy)

UpTo(times, e, list) == {d \in list : ~PrecedesIn(times, e, d)}

PlaceIn(times, e, list) == Cardinality(UpTo(times, e, list))

Emission(times, e, list, d) ==
    Max({times[d.receipt], 1}) + PlaceIn(times, e, list) - PlaceIn(times, d, list)

EmittedIn(times, e, list) == Max({Emission(times, e, list, d) : d \in UpTo(times, e, list)})

\* The receipts of these entries have a time.
Timed(times, list) == list \subseteq Entries /\ \A d \in list : times[d.receipt] \in Int

\* The feed's own operators are these, at the times of the store.
LEMMA AtTheStore ==
    ASSUME NEW e, NEW list
    PROVE  /\ \A q, r : Before(q, r) <=> BeforeIn(created, q, r)
           /\ \A d : Precedes(e, d) <=> PrecedesIn(created, e, d)
           /\ Place(e, list) = PlaceIn(created, e, list)
           /\ EmittedAt(e, list) = EmittedIn(created, e, list)
<1>0. \A q, r : Before(q, r) <=> BeforeIn(created, q, r)
  BY DEF Before, BeforeIn
<1>1. \A d, f : Precedes(d, f) <=> PrecedesIn(created, d, f)
  BY <1>0 DEF Precedes, PrecedesIn
<1>2. \A d : Place(d, list) = PlaceIn(created, d, list)
  BY <1>1 DEF Place, PlaceIn, UpTo
<1>3. EmittedAt(e, list) = EmittedIn(created, e, list)
  BY <1>1, <1>2 DEF EmittedAt, EmittedIn, Emission, UpTo
<1> QED
  BY <1>0, <1>1, <1>2, <1>3

\* The entries are in a strict total order.
LEMMA Order ==
    ASSUME NEW times, NEW list, Timed(times, list), NEW a \in list, NEW b \in list, NEW c \in list
    PROVE  /\ ~PrecedesIn(times, a, a)
           /\ a = b \/ PrecedesIn(times, a, b) \/ PrecedesIn(times, b, a)
           /\ PrecedesIn(times, a, b) => ~PrecedesIn(times, b, a)
           /\ PrecedesIn(times, a, b) /\ PrecedesIn(times, b, c) => PrecedesIn(times, a, c)
           /\ ~PrecedesIn(times, b, a) /\ ~PrecedesIn(times, c, b) => ~PrecedesIn(times, c, a)
<1>0. a \in Entries /\ b \in Entries /\ c \in Entries
  BY DEF Timed
<1>1. /\ a.receipt \in Int /\ a.copy \in Int /\ b.receipt \in Int /\ b.copy \in Int
      /\ c.receipt \in Int /\ c.copy \in Int
      /\ times[a.receipt] \in Int /\ times[b.receipt] \in Int /\ times[c.receipt] \in Int
  <2>1. ASSUME NEW e \in Entries PROVE e.receipt \in Int /\ e.copy \in Int
    <3>1. e.receipt \in Receipts /\ e.copy \in Copies
      BY DEF Entries
    <3>2. Receipts \subseteq Int /\ Copies \subseteq Int
      BY FeedAssumption
    <3> QED
      BY <3>1, <3>2
  <2> QED
    BY <1>0, <2>1 DEF Timed
<1>2. a.receipt = b.receipt /\ a.copy = b.copy => a = b
  BY <1>0 DEF Entries
<1> QED
  BY <1>1, <1>2 DEF PrecedesIn, BeforeIn

\* Lists are finite: there are as many entries as pairs of a receipt and a number.
LEMMA EntriesAreFinite == IsFiniteSet(Entries)
<1> DEFINE f == [x \in Receipts \X Copies |-> [receipt |-> x[1], copy |-> x[2]]]
<1>1. f \in Surjection(Receipts \X Copies, Entries)
  <2>1. \A e \in Entries : <<e.receipt, e.copy>> \in Receipts \X Copies /\ f[<<e.receipt, e.copy>>] = e
    BY DEF Entries
  <2>2. f \in [Receipts \X Copies -> Entries]
    BY DEF Entries
  <2> HIDE DEF f
  <2> QED
    BY <2>1, <2>2 DEF Surjection
<1>2. IsFiniteSet(Receipts \X Copies)
  BY FeedAssumption, FS_Product
<1> HIDE DEF f
<1> QED
  BY <1>1, <1>2, FS_Surjection

\* A set of entries is finite, and so a place is a number.
LEMMA PlaceIsNumber ==
    ASSUME NEW times, NEW list \in SUBSET Entries, NEW r
    PROVE  IsFiniteSet(UpTo(times, r, list)) /\ PlaceIn(times, r, list) \in Nat
<1>1. UpTo(times, r, list) \in SUBSET Entries
  BY DEF UpTo
<1>2. IsFiniteSet(UpTo(times, r, list))
  BY <1>1, EntriesAreFinite, FS_Subset
<1> QED
  BY <1>2, FS_CardinalityType DEF PlaceIn

\* The place of an entry that is exported is one of those the entries have.
LEMMA PlaceIsInRange ==
    ASSUME NEW times, NEW list, Timed(times, list), NEW r \in list
    PROVE  PlaceIn(times, r, list) \in 1..Cardinality(Entries)
<1>1. UpTo(times, r, list) \in SUBSET Entries /\ r \in UpTo(times, r, list)
  BY Order DEF UpTo, Timed
<1>2. /\ IsFiniteSet(UpTo(times, r, list)) /\ PlaceIn(times, r, list) \in Nat
      /\ PlaceIn(times, r, list) <= Cardinality(Entries)
      /\ Cardinality(Entries) \in Nat
  BY <1>1, PlaceIsNumber, EntriesAreFinite, FS_Subset, FS_CardinalityType DEF PlaceIn, Timed
<1>3. PlaceIn(times, r, list) # 0
  BY <1>1, <1>2, FS_EmptySet DEF PlaceIn
<1> QED
  BY <1>2, <1>3

\* Two entries never have the same place.
LEMMA PlacesDiffer ==
    ASSUME NEW times, NEW list, Timed(times, list), NEW r \in list, NEW s \in list,
           PlaceIn(times, r, list) = PlaceIn(times, s, list)
    PROVE  r = s
<1>1. ASSUME NEW a \in list, NEW b \in list, PrecedesIn(times, a, b),
             PlaceIn(times, a, list) = PlaceIn(times, b, list)
      PROVE  FALSE
  <2>1. UpTo(times, a, list) \in SUBSET UpTo(times, b, list)
    <3>1. ASSUME NEW q \in list, ~PrecedesIn(times, a, q) PROVE ~PrecedesIn(times, b, q)
      BY <1>1, <3>1, Order
    <3> QED
      BY <3>1 DEF UpTo
  <2>2. b \in UpTo(times, b, list) /\ b \notin UpTo(times, a, list)
    BY <1>1, Order DEF UpTo
  <2>3. IsFiniteSet(UpTo(times, b, list))
    BY PlaceIsNumber DEF Timed
  <2>4. UpTo(times, b, list) = UpTo(times, a, list)
    BY <1>1, <2>1, <2>3, FS_Subset DEF PlaceIn
  <2> QED
    BY <2>2, <2>4
<1> QED
  BY <1>1, Order

\* The place and the emission time of an entry depend only on the entries at or before it
\* and on their receipts' times.
LEMMA SameUpTo ==
    ASSUME NEW times, NEW list, Timed(times, list), NEW times2, NEW list2, Timed(times2, list2),
           NEW r \in list, r \in list2,
           UpTo(times, r, list) = UpTo(times2, r, list2),
           \A q \in UpTo(times, r, list) : times[q.receipt] = times2[q.receipt]
    PROVE  /\ PlaceIn(times, r, list) = PlaceIn(times2, r, list2)
           /\ EmittedIn(times, r, list) = EmittedIn(times2, r, list2)
<1>1. ASSUME NEW q \in UpTo(times, r, list) PROVE UpTo(times, q, list) = UpTo(times2, q, list2)
  <2>0. q \in list /\ q \in list2 /\ ~PrecedesIn(times, r, q) /\ ~PrecedesIn(times2, r, q)
    BY <1>1 DEF UpTo
  <2>1. ASSUME NEW p \in UpTo(times, q, list) PROVE p \in UpTo(times2, q, list2)
    <3>1. p \in list /\ ~PrecedesIn(times, q, p)
      BY <2>1 DEF UpTo
    <3>2. ~PrecedesIn(times, r, p)
      BY <2>0, <3>1, Order
    <3>3. p \in UpTo(times, r, list)
      BY <3>1, <3>2 DEF UpTo
    <3> QED
      BY <1>1, <3>1, <3>3 DEF UpTo, PrecedesIn, BeforeIn
  <2>2. ASSUME NEW p \in UpTo(times2, q, list2) PROVE p \in UpTo(times, q, list)
    <3>1. p \in list2 /\ ~PrecedesIn(times2, q, p)
      BY <2>2 DEF UpTo
    <3>2. ~PrecedesIn(times2, r, p)
      BY <2>0, <3>1, Order
    <3>3. p \in UpTo(times, r, list)
      BY <3>1, <3>2 DEF UpTo
    <3> QED
      BY <1>1, <3>1, <3>3 DEF UpTo, PrecedesIn, BeforeIn
  <2> QED
    BY <2>1, <2>2
<1>2. PlaceIn(times, r, list) = PlaceIn(times2, r, list2)
  BY DEF PlaceIn
<1>3. \A q \in UpTo(times, r, list) :
         Emission(times, r, list, q) = Emission(times2, r, list2, q)
  BY <1>1, <1>2 DEF Emission, PlaceIn
<1>4. {Emission(times, r, list, q) : q \in UpTo(times, r, list)}
         = {Emission(times2, r, list2, q) : q \in UpTo(times2, r, list2)}
  BY <1>3
<1> QED
  BY <1>2, <1>4 DEF EmittedIn

-----------------------------------------------------------------------------
(* A largest value exists, so that a page has a last export and an export  *)
(* an emission time.                                                       *)

\* An integer-valued function on a finite set that is not empty has a largest value: a
\* smallest subset without one would have one as soon as an element is taken away.
LEMMA LargestExists ==
    ASSUME NEW S, IsFiniteSet(S), S # {}, NEW g \in [S -> Int]
    PROVE  \E x \in S : \A y \in S : g[x] >= g[y]
<1> DEFINE Bad == {T \in SUBSET S : T # {} /\ \A x \in T : \E y \in T : g[y] > g[x]}
<1>1. SUFFICES ASSUME Bad # {} PROVE FALSE
  <2>1. S \notin Bad
    BY <1>1
  <2>2. PICK x \in S : \A y \in S : ~(g[y] > g[x])
    BY <2>1
  <2> QED
    BY <2>2
<1>2. /\ FiniteSubsetsOf(S) = SUBSET S
      /\ IsWellFoundedOn(StrictSubsetOrdering(S), FiniteSubsetsOf(S))
  BY FS_FiniteSubsetsOfFinite, FS_StrictSubsetOrderingWellFounded
<1>3. PICK T \in Bad : \A U \in Bad : ~(<<U, T>> \in StrictSubsetOrdering(S))
  <2>1. Bad \subseteq FiniteSubsetsOf(S)
    BY <1>2
  <2> HIDE DEF Bad
  <2> QED
    BY <1>1, <1>2, <2>1, WFMin
<1>4. PICK x \in T : TRUE
  BY <1>3
<1> DEFINE U == T \ {x}
<1>5. U \notin Bad
  <2>1. <<U, T>> \in StrictSubsetOrdering(S)
    BY <1>3, <1>4 DEF StrictSubsetOrdering
  <2> QED
    BY <1>3, <2>1
<1>6. CASE U = {}
  BY <1>3, <1>4, <1>6
<1>7. CASE U # {}
  <2>1. PICK m \in U : \A y \in U : ~(g[y] > g[m])
    BY <1>5, <1>7
  <2>2. CASE g[m] >= g[x]
    BY <1>3, <1>4, <2>1, <2>2
  <2>3. CASE ~(g[m] >= g[x])
    BY <1>3, <1>4, <2>1, <2>3
  <2> QED
    BY <2>2, <2>3
<1> QED
  BY <1>6, <1>7

\* The emission time of an export is a number, and not below 1: at its own place it is the
\* receipt's time or 1.
LEMMA EmittedIsNumber ==
    ASSUME NEW times, NEW list, Timed(times, list), NEW r \in list
    PROVE  EmittedIn(times, r, list) \in Nat \ {0}
<1> DEFINE S == UpTo(times, r, list)
           g == [q \in S |-> Emission(times, r, list, q)]
<1>1. IsFiniteSet(S) /\ r \in S /\ S \subseteq list
  <2>1. ~PrecedesIn(times, r, r)
    BY Order
  <2> QED
    BY <2>1, PlaceIsNumber DEF UpTo, Timed
<1>2. ASSUME NEW q \in S
      PROVE  Emission(times, r, list, q) \in Int /\ (q = r => Emission(times, r, list, q) >= 1)
  <2>1. PlaceIn(times, r, list) \in Nat /\ PlaceIn(times, q, list) \in Nat
    BY PlaceIsNumber DEF Timed
  <2>2. times[q.receipt] \in Int
    BY <1>1 DEF Timed
  <2>3. Max({times[q.receipt], 1}) \in Int /\ Max({times[q.receipt], 1}) >= 1
    <3>1. \E x \in {times[q.receipt], 1} : \A y \in {times[q.receipt], 1} : x >= y
      BY <2>2
    <3> QED
      BY <2>2, <3>1 DEF Max
  <2> QED
    BY <2>1, <2>3 DEF Emission
<1>3. g \in [S -> Int]
  BY <1>2
<1>4. PICK x \in S : \A y \in S : g[x] >= g[y]
  BY <1>1, <1>3, LargestExists
<1> DEFINE E == {Emission(times, r, list, q) : q \in S}
<1>5. \E e \in E : \A f \in E : e >= f
  BY <1>4
<1>6. Max(E) \in E /\ \A f \in E : Max(E) >= f
  BY <1>5 DEF Max
<1>7. Max(E) \in Int /\ Max(E) >= Emission(times, r, list, r)
  BY <1>1, <1>2, <1>6
<1>8. Emission(times, r, list, r) \in Int /\ Emission(times, r, list, r) >= 1
  BY <1>1, <1>2
<1>9. EmittedIn(times, r, list) = Max(E)
  BY DEF EmittedIn
<1> HIDE DEF E
<1> QED
  BY <1>7, <1>8, <1>9

\* The last export of a page is one of the page.
LEMMA LastIsOfThePage ==
    ASSUME NEW page \in SUBSET Exports, page # {}
    PROVE  Last(page) \in page
<1> DEFINE S == {x.sequence : x \in page}
           g == [n \in S |-> n]
<1>1. S \in SUBSET (1..Cardinality(Entries)) /\ S # {} /\ Cardinality(Entries) \in Nat
  BY EntriesAreFinite, FS_CardinalityType DEF Exports
<1>2. IsFiniteSet(S)
  <2>1. IsFiniteSet(1..Cardinality(Entries))
    BY <1>1, FS_Interval
  <2> HIDE DEF S
  <2> QED
    BY <1>1, <2>1, FS_Subset
<1>3. g \in [S -> Int]
  BY <1>1
<1>4. PICK n \in S : \A k \in S : g[n] >= g[k]
  BY <1>1, <1>2, <1>3, LargestExists
<1>5. PICK x \in page : x.sequence = n
  OBVIOUS
<1>6. \A y \in page : y.sequence <= x.sequence
  BY <1>1, <1>4, <1>5
<1> QED
  BY <1>6 DEF Last

-----------------------------------------------------------------------------
(* The feed                                                                *)

\* Entries of receipts of the store have a time.
LEMMA StoredIsTimed ==
    ASSUME FeedTypeOK, NEW list \in SUBSET Entries, \A e \in list : e.receipt \in Stored
    PROVE  Timed(created, list)
  BY FeedAssumption DEF FeedTypeOK, Stored, Timed

\* What can be exported of a list that can be listed is of receipts of the store.
LEMMA ExportableIsStored ==
    ASSUME FeedTypeOK, CanList
    PROVE  Exportable \in SUBSET Entries /\ \A e \in Exportable : e.receipt \in Stored
<1>1. CurrentReceipts \subseteq Entries
  <2>1. CASE allow = None
    BY <2>1, FeedAssumption DEF CurrentReceipts, Entries, Stored
  <2>2. CASE allow # None
    BY <2>2, FeedAssumption DEF CurrentReceipts, FeedTypeOK
  <2> QED
    BY <2>1, <2>2
<1> QED
  BY <1>1 DEF CanList, Exportable

\* An export that a pull builds is one of its entry's.
LEMMA BuiltExport ==
    ASSUME FeedTypeOK, CanList, NEW skipped, NEW x \in BuildExports(skipped)
    PROVE  /\ x \in Exports /\ x.export_id \in Stored
           /\ \E e \in Exportable \ skipped :
                 /\ x.export_id = e.receipt
                 /\ x.sequence = PlaceIn(created, e, Exportable \ skipped)
                 /\ x.emitted_at = EmittedIn(created, e, Exportable \ skipped)
<1> DEFINE list == Exportable \ skipped
<1>1. PICK e \in list :
         x = [sequence |-> Place(e, list), export_id |-> e.receipt, emitted_at |-> EmittedAt(e, list)]
  BY DEF BuildExports
<1>2. list \in SUBSET Entries /\ e.receipt \in Stored /\ Timed(created, list)
  BY ExportableIsStored, StoredIsTimed
<1>3. /\ EmittedIn(created, e, list) \in Nat
      /\ PlaceIn(created, e, list) \in 1..Cardinality(Entries)
  BY <1>2, EmittedIsNumber, PlaceIsInRange
<1> HIDE DEF list
<1>4. /\ x.export_id = e.receipt /\ x.sequence = PlaceIn(created, e, list)
      /\ x.emitted_at = EmittedIn(created, e, list)
  BY <1>1, AtTheStore
<1>5. x \in Exports
  BY <1>1, <1>2, <1>3, AtTheStore DEF Exports, Stored
<1> QED
  BY <1>1, <1>2, <1>4, <1>5 DEF list

\* An export is the current one as long as what was skipped comes after it.
LEMMA BuiltIsCurrent ==
    ASSUME FeedTypeOK, CanList, NEW skipped \in SUBSET Exportable, NEW x \in BuildExports(skipped),
           \A d \in skipped : Before(x.export_id, d.receipt)
    PROVE  IsCurrent(x)
<1>1. PICK e \in Exportable \ skipped :
         /\ x.export_id = e.receipt
         /\ x.sequence = PlaceIn(created, e, Exportable \ skipped)
         /\ x.emitted_at = EmittedIn(created, e, Exportable \ skipped)
  BY BuiltExport
<1>2. Timed(created, Exportable) /\ Timed(created, Exportable \ skipped)
  BY ExportableIsStored, StoredIsTimed
<1>3. \A d \in skipped : PrecedesIn(created, e, d)
  BY <1>1, AtTheStore DEF PrecedesIn
<1>4. UpTo(created, e, Exportable) = UpTo(created, e, Exportable \ skipped)
  BY <1>3 DEF UpTo
<1>5. /\ PlaceIn(created, e, Exportable) = PlaceIn(created, e, Exportable \ skipped)
      /\ EmittedIn(created, e, Exportable) = EmittedIn(created, e, Exportable \ skipped)
  BY <1>1, <1>2, <1>4, SameUpTo
<1> QED
  BY <1>1, <1>5, AtTheStore DEF IsCurrent

\* What a pull hands out, and what it leaves.
LEMMA HandedStep ==
    ASSUME FeedTypeOK, HandedOutIsCurrent, UNCHANGED <<created, allow, late>>,
           NEW skipped \in SUBSET Exportable, skipped # {} => CanList,
           faulty' = faulty \cup {d.receipt : d \in skipped},
           NEW page \in SUBSET BuildExports(skipped), page # {} => CanList,
           handed' = handed \cup page
    PROVE  HandedOutIsCurrent'
<1>1. /\ Stored' = Stored /\ CanList' = CanList /\ Exportable' = Exportable
  BY DEF Stored, CanList, Exportable, CurrentReceipts
<1>2. ASSUME NEW r, NEW q PROVE Before(r, q)' <=> Before(r, q)
  BY DEF Before
<1>3. ASSUME NEW x PROVE IsCurrent(x) => IsCurrent(x)'
  <2>1. ASSUME NEW e
        PROVE  /\ Place(e, Exportable)' = Place(e, Exportable)
               /\ EmittedAt(e, Exportable)' = EmittedAt(e, Exportable)
    BY <1>1 DEF EmittedAt, Place, Precedes, Before
  <2> QED
    BY <1>1, <2>1 DEF IsCurrent
<1>4. ASSUME NEW x, Unexcused(x)'
      PROVE  Unexcused(x) /\ \A d \in skipped : Before(x.export_id, d.receipt)
  BY <1>2, <1>4 DEF Unexcused
<1>5. ASSUME NEW x \in handed, Unexcused(x)' PROVE IsCurrent(x)'
  BY <1>3, <1>4, <1>5 DEF HandedOutIsCurrent
<1>6. ASSUME NEW x \in page, Unexcused(x)' PROVE IsCurrent(x)'
  BY <1>3, <1>4, <1>6, BuiltIsCurrent
<1>7. \A x \in page : x.export_id \in Stored
  BY BuiltExport
<1>8. \A x \in handed' : x.export_id \in Stored' /\ (Unexcused(x)' => IsCurrent(x)')
  BY <1>1, <1>5, <1>6, <1>7 DEF HandedOutIsCurrent
<1>9. {d.receipt : d \in skipped} \subseteq Stored
  BY ExportableIsStored
<1> QED
  BY <1>1, <1>8, <1>9 DEF HandedOutIsCurrent

\* A step that hands out nothing and inserts nothing.
LEMMA HandedStays ==
    ASSUME FeedTypeOK, HandedOutIsCurrent, UNCHANGED <<created, allow, handed, late, faulty>>
    PROVE  HandedOutIsCurrent'
<1>1. /\ UNCHANGED <<created, allow, late>> /\ {} \in SUBSET Exportable
      /\ faulty' = faulty \cup {d.receipt : d \in {}} /\ handed' = handed \cup {}
      /\ {} \in SUBSET BuildExports({})
  OBVIOUS
<1> QED
  BY <1>1, HandedStep

\* A receipt that is inserted comes after every export that has no excuse.
LEMMA InsertStep ==
    ASSUME FeedTypeOK, FeedTypeOK', HandedOutIsCurrent, InsertReceipt PROVE HandedOutIsCurrent'
<1>1. PICK n \in Receipts \ Stored, t \in Times :
         /\ created' = [created EXCEPT ![n] = t]
         /\ late' = IF \E q \in Stored : t < created[q] \/ (t = created[q] /\ n < q)
                    THEN late \cup {n} ELSE late
         /\ UNCHANGED <<allow, cursor, indexed, health, handed, faulty>>
  BY DEF InsertReceipt
<1>2. t \in Int /\ t # None
  BY FeedAssumption
<1>3. /\ Stored' = Stored \cup {n} /\ created'[n] = t
      /\ \A q \in Stored : created'[q] = created[q] /\ created[q] \in Int
  BY <1>1, <1>2, FeedAssumption DEF Stored, FeedTypeOK
<1>4. late' \cup faulty' \subseteq Stored'
  BY <1>1, <1>3 DEF HandedOutIsCurrent
<1>5. CanList => CanList'
  <2>1. CASE allow = None
    BY <1>1, <2>1 DEF CanList, CurrentReceipts
  <2>2. CASE allow # None
    BY <1>1, <1>3, <2>2 DEF CanList, CurrentReceipts
  <2> QED
    BY <2>1, <2>2
<1>6. /\ CanList => Exportable' \subseteq Exportable \cup {[receipt |-> n, copy |-> 1]}
      /\ Exportable \subseteq Exportable'
      /\ CanList => n \notin {e.receipt : e \in Exportable}
  <2>1. CASE allow = None
    BY <1>1, <1>3, <2>1 DEF Exportable, CurrentReceipts
  <2>2. CASE allow # None
    BY <1>1, <2>2 DEF CanList, Exportable, CurrentReceipts
  <2> QED
    BY <2>1, <2>2
<1>7. ASSUME NEW x \in handed, Unexcused(x)' PROVE IsCurrent(x)'
  <2>0. x.export_id \in Stored /\ CanList /\ CanList'
    BY <1>5, <1>7 DEF HandedOutIsCurrent
  <2>1. BeforeIn(created', x.export_id, n)
    <3> DEFINE r == x.export_id
    <3>1. CASE n \in late'
      <4>1. Before(r, n)'
        BY <1>7, <3>1 DEF Unexcused
      <4> QED
        BY <4>1 DEF Before, BeforeIn
    <3>2. CASE n \notin late'
      <4>1. ~(t < created[r] \/ (t = created[r] /\ n < r))
        BY <1>1, <2>0, <3>2
      <4>2. n \in Nat /\ r \in Nat /\ n # r /\ created[r] \in Int
        BY <1>1, <1>3, <2>0, FeedAssumption DEF Stored
      <4> QED
        BY <1>2, <1>3, <2>0, <4>1, <4>2 DEF BeforeIn
    <3> QED
      BY <3>1, <3>2
  <2>2. Unexcused(x)
    <3>1. ASSUME NEW w \in late \cup faulty PROVE Before(x.export_id, w)
      <4>1. w \in Stored /\ Before(x.export_id, w)'
        BY <1>1, <1>7 DEF HandedOutIsCurrent, Unexcused
      <4> QED
        BY <1>3, <2>0, <4>1 DEF Before
    <3> QED
      BY <3>1 DEF Unexcused
  <2>3. PICK e \in Exportable :
           /\ x.export_id = e.receipt
           /\ x.sequence = PlaceIn(created, e, Exportable)
           /\ x.emitted_at = EmittedIn(created, e, Exportable)
    BY <1>7, <2>2, AtTheStore DEF HandedOutIsCurrent, IsCurrent
  <2>4. /\ Exportable \in SUBSET Entries /\ \A d \in Exportable : d.receipt \in Stored
        /\ Timed(created, Exportable)
    BY <2>0, ExportableIsStored, StoredIsTimed
  <2>5. Timed(created', Exportable')
    <3>1. [receipt |-> n, copy |-> 1] \in Entries
      BY <1>1, FeedAssumption DEF Entries
    <3> QED
      BY <1>2, <1>3, <1>6, <2>0, <2>4, <3>1 DEF Timed
  <2>6. \A d \in Exportable : PrecedesIn(created', e, d) <=> PrecedesIn(created, e, d)
    BY <1>3, <2>4 DEF PrecedesIn, BeforeIn
  <2>7. UpTo(created, e, Exportable) = UpTo(created', e, Exportable')
    <3>1. \A d \in Exportable' \ Exportable : PrecedesIn(created', e, d)
      BY <1>6, <2>0, <2>1, <2>3 DEF PrecedesIn
    <3> QED
      BY <1>6, <2>6, <3>1 DEF UpTo
  <2>8. \A d \in UpTo(created, e, Exportable) : created[d.receipt] = created'[d.receipt]
    BY <1>3, <2>4 DEF UpTo
  <2>9. /\ PlaceIn(created, e, Exportable) = PlaceIn(created', e, Exportable')
        /\ EmittedIn(created, e, Exportable) = EmittedIn(created', e, Exportable')
    BY <1>6, <2>4, <2>5, <2>7, <2>8, SameUpTo
  <2>10. /\ Place(e, Exportable)' = PlaceIn(created', e, Exportable')
         /\ EmittedAt(e, Exportable)' = EmittedIn(created', e, Exportable')
    BY DEF Place, EmittedAt, Precedes, Before, PlaceIn, EmittedIn, Emission, UpTo, PrecedesIn, BeforeIn
  <2> QED
    BY <1>6, <2>3, <2>9, <2>10 DEF IsCurrent
<1>8. \A x \in handed : x.export_id \in Stored'
  BY <1>3 DEF HandedOutIsCurrent
<1> QED
  BY <1>1, <1>4, <1>5, <1>7, <1>8 DEF HandedOutIsCurrent

\* What a step of the feed does to the connector's side: an observation stays indexed, and
\* a source that was healthy stays so, since a page that is not empty has a last export
\* and that has an emission time.
ConnectorGoesOn ==
    /\ indexed \subseteq indexed'
    /\ health.completed /\ health.observed # None =>
          health'.completed /\ health'.observed # None

\* A run that pulls a page and indexes it.
LEMMA PullDoes ==
    ASSUME FeedTypeOK, HandedOutIsCurrent, Pull
    PROVE  FeedTypeOK' /\ HandedOutIsCurrent' /\ ConnectorGoesOn
<1>1. PICK skipped \in SUBSET Exportable, limit \in Limits :
         LET page == Selected(BuildExports(skipped), limit)
         IN  /\ faulty' = faulty \cup {e.receipt : e \in skipped}
             /\ batch' = page
             /\ handed' = handed \cup page
             /\ indexed' = indexed \cup {x.export_id : x \in page}
  BY DEF Pull
<1> DEFINE page == Selected(BuildExports(skipped), limit)
<1>2. /\ CanList /\ UNCHANGED <<created, allow, cursor, late>>
      /\ running' = TRUE /\ health' = [health EXCEPT !.started = TRUE]
  BY DEF Pull
<1>3. page \in SUBSET BuildExports(skipped)
  BY DEF Selected
<1>4. HandedOutIsCurrent'
  BY <1>1, <1>2, <1>3, HandedStep
<1>5. page \in SUBSET Exports
  BY <1>2, <1>3, BuiltExport
<1>6. /\ faulty' = faulty \cup {e.receipt : e \in skipped} /\ batch' = page /\ handed' = handed \cup page
      /\ indexed' = indexed \cup {x.export_id : x \in page}
  BY <1>1
<1> HIDE DEF page
<1>7. {x.export_id : x \in page} \subseteq Receipts /\ {e.receipt : e \in skipped} \subseteq Receipts
  BY <1>2, <1>5, ExportableIsStored DEF Exports, Stored
<1>8. health' \in Healths /\ health'.completed = health.completed /\ health'.observed = health.observed
  BY <1>2 DEF FeedTypeOK, Healths
<1>9. FeedTypeOK'
  BY <1>2, <1>5, <1>6, <1>7, <1>8 DEF FeedTypeOK
<1>10. ConnectorGoesOn
  BY <1>6, <1>8 DEF ConnectorGoesOn
<1> QED
  BY <1>4, <1>9, <1>10

\* A run that completes: the cursor and the time observed are those of its page's last export.
LEMMA CompleteRunDoes ==
    ASSUME FeedTypeOK, CompleteRun
    PROVE  FeedTypeOK' /\ UNCHANGED <<created, allow, handed, late, faulty>> /\ ConnectorGoesOn
<1>1. batch # {} => /\ Last(batch).sequence \in 1..Cardinality(Entries)
                    /\ Last(batch).emitted_at \in Nat
  BY LastIsOfThePage DEF FeedTypeOK, Exports
<1>2. /\ UNCHANGED <<created, allow, indexed, handed, late, faulty>>
      /\ running' = FALSE /\ batch' = {}
      /\ cursor' = IF batch = {} THEN cursor ELSE Last(batch).sequence
      /\ health'.completed = TRUE /\ health'.started = health.started
      /\ health'.observed = IF batch = {} THEN health.observed ELSE Last(batch).emitted_at
      /\ health' \in [started : BOOLEAN, completed : BOOLEAN, observed : {health'.observed}]
  BY DEF CompleteRun, EndRun, FeedTypeOK, Healths
<1>3. cursor' \in 0..Cardinality(Entries) /\ health'.observed \in Nat \cup {None}
  BY <1>1, <1>2, EntriesAreFinite, FS_CardinalityType DEF FeedTypeOK, Healths
<1>4. health' \in Healths
  BY <1>2, <1>3 DEF Healths
<1>5. FeedTypeOK'
  BY <1>2, <1>3, <1>4 DEF FeedTypeOK
<1>6. ConnectorGoesOn
  BY <1>1, <1>2, FeedAssumption DEF ConnectorGoesOn
<1> QED
  BY <1>2, <1>5, <1>6

\* A pull that fails.
LEMMA PullFailsDoes ==
    ASSUME FeedTypeOK, HandedOutIsCurrent, PullFails
    PROVE  FeedTypeOK' /\ HandedOutIsCurrent' /\ ConnectorGoesOn
<1>1. /\ UNCHANGED <<created, allow, cursor, indexed, running, batch, late, faulty>>
      /\ health' = [health EXCEPT !.started = TRUE]
  BY DEF PullFails
<1>2. health'.completed = health.completed /\ health'.observed = health.observed /\ health' \in Healths
  BY <1>1 DEF FeedTypeOK, Healths
<1>3. PICK page \in SUBSET BuildExports({}) :
         (page # {} => CanList) /\ handed' = handed \cup page
  <2>1. CASE handed' = handed
    <3>1. handed' = handed \cup {} /\ {} \in SUBSET BuildExports({})
      BY <2>1
    <3> QED
      BY <3>1
  <2>2. CASE handed' # handed
    <3>1. PICK limit \in Limits :
             CanList /\ handed' = handed \cup Selected(BuildExports({}), limit)
      BY <2>2 DEF PullFails
    <3>2. Selected(BuildExports({}), limit) \in SUBSET BuildExports({})
      BY DEF Selected
    <3> QED
      BY <3>1, <3>2
  <2> QED
    BY <2>1, <2>2
<1>4. HandedOutIsCurrent'
  <2>1. faulty' = faulty \cup {d.receipt : d \in {}} /\ UNCHANGED <<created, allow, late>>
    BY <1>1
  <2>2. {} \in SUBSET Exportable
    OBVIOUS
  <2> QED
    BY <1>3, <2>1, <2>2, HandedStep
<1>5. page \in SUBSET Exports
  BY <1>3, BuiltExport
<1>6. FeedTypeOK'
  BY <1>1, <1>2, <1>3, <1>5 DEF FeedTypeOK
<1> QED
  BY <1>1, <1>2, <1>4, <1>6 DEF ConnectorGoesOn

\* A step of the feed.
LEMMA FeedStep ==
    ASSUME FeedTypeOK, HandedOutIsCurrent, FeedNext
    PROVE  FeedTypeOK' /\ HandedOutIsCurrent' /\ ConnectorGoesOn
<1>1. CASE InsertReceipt
  <2>1. FeedTypeOK'
    BY <1>1 DEF InsertReceipt, FeedTypeOK
  <2>2. ConnectorGoesOn
    BY <1>1 DEF InsertReceipt, ConnectorGoesOn
  <2> QED
    BY <1>1, <2>1, <2>2, InsertStep
<1>2. CASE Pull
  BY <1>2, PullDoes
<1>3. CASE PullFails
  BY <1>3, PullFailsDoes
<1>4. CASE CompleteRun
  BY <1>4, CompleteRunDoes, HandedStays
<1>5. CASE RunFails
  <2>1. UNCHANGED <<created, allow, cursor, indexed, health, handed, late, faulty>>
    BY <1>5 DEF RunFails
  <2>2. FeedTypeOK' /\ ConnectorGoesOn
    BY <1>5, <2>1 DEF RunFails, EndRun, FeedTypeOK, ConnectorGoesOn
  <2> QED
    BY <2>1, <2>2, HandedStays
<1> QED
  BY <1>1, <1>2, <1>3, <1>4, <1>5 DEF FeedNext

-----------------------------------------------------------------------------
(* The queries                                                             *)

\* What the query variables are.
QueryTypes ==
    /\ retracted \subseteq Receipts
    /\ stage \in [Queriers -> {"idle", "lineage", "health"}]
    /\ tenant \in [Queriers -> Tenants]
    /\ lineage \in [Queriers -> SUBSET Rows]
    /\ result \in [Queriers -> Results]
    /\ seen \in [Queriers -> SUBSET Receipts]

\* What CompleteIsBacked says of one query.
Backed(q) ==
    result[q].gaps = {} =>
        /\ result[q].lineage # {}
        /\ \A row \in result[q].lineage : row.observation \in seen[q] \cap indexed
        /\ health.completed /\ health.observed # None

\* Only this query moves.
OnlyMoves(q) ==
    \A p \in Queriers : p # q =>
        /\ stage'[p] = stage[p] /\ tenant'[p] = tenant[p] /\ lineage'[p] = lineage[p]
        /\ result'[p] = result[p] /\ seen'[p] = seen[p]

\* A query that does not move stays backed when the connector goes on.
LEMMA QueryStays ==
    ASSUME NEW q \in Queriers, QueryKnows(q), Backed(q), ConnectorGoesOn,
           stage'[q] = stage[q], tenant'[q] = tenant[q], lineage'[q] = lineage[q],
           result'[q] = result[q], seen'[q] = seen[q]
    PROVE  QueryKnows(q)' /\ Backed(q)'
<1>1. QueryKnows(q)'
  BY DEF QueryKnows, ConnectorGoesOn
<1>2. Backed(q)'
  BY DEF Backed, ConnectorGoesOn
<1> QED
  BY <1>1, <1>2

\* A query has just been asked, or was refused at once.
LEMMA AskDoes ==
    ASSUME QueryTypes, NEW q \in Queriers, Ask(q)
    PROVE  QueryTypes' /\ OnlyMoves(q) /\ QueryKnows(q)' /\ Backed(q)'
<1>1. /\ \/ /\ stage' = [stage EXCEPT ![q] = "lineage"]
            /\ result' = [result EXCEPT ![q] = NoResult]
            /\ seen' = [seen EXCEPT ![q] = {}]
            /\ UNCHANGED lineage
         \/ End(q, {}, {"invalid_observation_query"})
      /\ UNCHANGED <<feedVars, retracted>>
  BY DEF Ask
<1>2. \E t \in Tenants : tenant' = [tenant EXCEPT ![q] = t]
  BY ObservationAssumption DEF Ask, End, Queries, ValidIdentifier
<1>3. /\ NoResult \in Results /\ NoResult.gaps # {}
      /\ [lineage |-> {}, gaps |-> {"invalid_observation_query"}] \in Results
  BY DEF NoResult, Results, Gaps
<1>4. /\ \/ stage'[q] = "lineage" /\ result'[q] = NoResult
         \/ stage'[q] = "idle" /\ result'[q].gaps # {}
  BY <1>1 DEF QueryTypes, End
<1>5. OnlyMoves(q)
  BY <1>1, <1>2 DEF OnlyMoves, QueryTypes, End
<1>6. tenant' \in [Queriers -> Tenants]
  BY <1>2 DEF QueryTypes
<1>7. QueryTypes'
  <2>1. CASE UNCHANGED lineage /\ stage' = [stage EXCEPT ![q] = "lineage"]
             /\ result' = [result EXCEPT ![q] = NoResult] /\ seen' = [seen EXCEPT ![q] = {}]
    BY <1>1, <1>3, <1>6, <2>1 DEF QueryTypes
  <2>2. CASE End(q, {}, {"invalid_observation_query"})
    BY <1>1, <1>3, <1>6, <2>2 DEF QueryTypes, End
  <2> QED
    BY <1>1, <2>1, <2>2
<1>8. QueryKnows(q)'
  BY <1>4 DEF QueryKnows
<1>9. Backed(q)'
  BY <1>3, <1>4 DEF Backed
<1> QED
  BY <1>5, <1>7, <1>8, <1>9

\* A query has read its lineage.
LEMMA ReadLineageDoes ==
    ASSUME FeedTypeOK, QueryTypes, NEW q \in Queriers, QueryKnows(q), ReadLineage(q)
    PROVE  QueryTypes' /\ OnlyMoves(q) /\ QueryKnows(q)' /\ Backed(q)'
<1>1. PICK ending \in Endings, shown \in SUBSET Visible(q) :
         LET rows == {[observation |-> r, status |-> Status(r)] : r \in shown}
         IN  \/ /\ LineageGap(ending, rows) # {}
                /\ End(q, {}, LineageGap(ending, rows))
             \/ /\ LineageGap(ending, rows) = {}
                /\ lineage' = [lineage EXCEPT ![q] = rows]
                /\ stage' = [stage EXCEPT ![q] = "health"]
                /\ seen' = [seen EXCEPT ![q] = (shown \cap Visible(q)) \ retracted]
                /\ UNCHANGED <<tenant, result>>
  BY DEF ReadLineage
<1> DEFINE rows == {[observation |-> r, status |-> Status(r)] : r \in shown}
<1>2. UNCHANGED <<feedVars, retracted>> /\ result[q] = NoResult
  BY DEF ReadLineage, QueryKnows
<1>3. /\ Visible(q) \subseteq indexed /\ indexed \subseteq Receipts
      /\ Visible(q) # {} => tenant[q] = FeedTenant
  BY DEF Visible, FeedTypeOK
<1>4. rows \in SUBSET Rows
  BY <1>3 DEF Rows, Status
<1>5. UNCHANGED <<indexed, health>> /\ NoResult.gaps # {}
  BY <1>2 DEF feedVars, NoResult
<1>6. CASE LineageGap(ending, rows) # {} /\ End(q, {}, LineageGap(ending, rows))
  <2>1. LineageGap(ending, rows) \in SUBSET Gaps
    BY DEF LineageGap, Gaps
  <2>2. [lineage |-> {}, gaps |-> LineageGap(ending, rows)] \in Results
    BY <2>1 DEF Results
  <2>3. stage'[q] = "idle" /\ result'[q].gaps # {}
    BY <1>6 DEF QueryTypes, End
  <2>4. QueryTypes'
    BY <1>2, <1>3, <1>6, <2>2, ObservationAssumption DEF QueryTypes, End
  <2>5. OnlyMoves(q)
    BY <1>2, <1>6 DEF OnlyMoves, QueryTypes, End
  <2> QED
    BY <2>3, <2>4, <2>5 DEF QueryKnows, Backed
<1>7. CASE /\ LineageGap(ending, rows) = {}
           /\ lineage' = [lineage EXCEPT ![q] = rows]
           /\ stage' = [stage EXCEPT ![q] = "health"]
           /\ seen' = [seen EXCEPT ![q] = (shown \cap Visible(q)) \ retracted]
           /\ UNCHANGED <<tenant, result>>
  <2>1. rows # {}
    BY <1>7 DEF LineageGap
  <2>2. tenant[q] = FeedTenant
    BY <1>3, <2>1
  <2>3. \A row \in rows : /\ row.observation \in indexed
                          /\ row.status = "active" => row.observation \in (shown \cap Visible(q)) \ retracted
    BY <1>3 DEF Status
  <2>4. /\ stage'[q] = "health" /\ lineage'[q] = rows /\ result'[q] = NoResult
        /\ seen'[q] = (shown \cap Visible(q)) \ retracted /\ tenant'[q] = tenant[q]
    BY <1>2, <1>7 DEF QueryTypes
  <2>5. QueryTypes'
    BY <1>2, <1>3, <1>4, <1>7 DEF QueryTypes
  <2>6. OnlyMoves(q)
    BY <1>2, <1>7 DEF OnlyMoves, QueryTypes
  <2> HIDE DEF rows
  <2>7. QueryKnows(q)'
    BY <1>5, <2>1, <2>2, <2>3, <2>4 DEF QueryKnows
  <2>8. Backed(q)'
    BY <1>5, <2>4 DEF Backed
  <2> QED
    BY <2>5, <2>6, <2>7, <2>8
<1> QED
  BY <1>1, <1>6, <1>7

\* A query ends with the health of its sources, or without it.
LEMMA ReadHealthDoes ==
    ASSUME QueryTypes, NEW q \in Queriers, QueryKnows(q), ReadHealth(q)
    PROVE  QueryTypes' /\ OnlyMoves(q) /\ QueryKnows(q)' /\ Backed(q)'
<1>1. PICK known \in BOOLEAN :
         \/ End(q, {}, {"observation_source_health_unavailable"})
         \/ End(q, lineage[q], UNION {SourceGap(known) \cup RowGap(row) : row \in lineage[q]})
  BY DEF ReadHealth
<1>2. UNCHANGED <<feedVars, retracted>>
  BY DEF ReadHealth
<1>3. /\ lineage[q] # {} /\ lineage[q] \in SUBSET Rows
      /\ \A row \in lineage[q] : /\ row.observation \in indexed
                                 /\ row.status = "active" => row.observation \in seen[q]
  BY DEF ReadHealth, QueryKnows, QueryTypes
<1> DEFINE gaps == UNION {SourceGap(known) \cup RowGap(row) : row \in lineage[q]}
<1>4. /\ {} \in SUBSET Rows /\ gaps \in SUBSET Gaps
      /\ {"observation_source_health_unavailable"} \in SUBSET Gaps
  BY DEF SourceGap, RowGap, Gaps
<1>5. gaps = {} => /\ health.completed /\ health.observed # None
                   /\ \A row \in lineage[q] : row.status = "active"
  <2>1. ASSUME gaps = {}, NEW row \in lineage[q] PROVE SourceGap(known) = {} /\ RowGap(row) = {}
    BY <2>1
  <2>2. \A row : RowGap(row) = {} => row.status = "active"
    BY DEF RowGap
  <2>3. SourceGap(known) = {} => health.completed /\ health.observed # None
    BY DEF SourceGap
  <2> HIDE DEF gaps
  <2> QED
    BY <1>3, <2>1, <2>2, <2>3
<1> HIDE DEF gaps
<1>6. PICK found \in SUBSET Gaps :
         End(q, lineage[q], found) /\ (found = {} => gaps = {})
  <2>1. CASE End(q, {}, {"observation_source_health_unavailable"})
    <3>1. End(q, lineage[q], {"observation_source_health_unavailable"})
      BY <2>1 DEF End
    <3> QED
      BY <1>4, <3>1
  <2>2. CASE End(q, lineage[q], gaps)
    BY <1>4, <2>2
  <2> QED
    BY <1>1, <2>1, <2>2 DEF gaps
<1> DEFINE rows == IF found = {} THEN lineage[q] ELSE {}
<1>7. /\ stage' = [stage EXCEPT ![q] = "idle"] /\ lineage' = [lineage EXCEPT ![q] = {}]
      /\ result' = [result EXCEPT ![q] = [lineage |-> rows, gaps |-> found]]
      /\ seen' = [seen EXCEPT ![q] = IF found = {} THEN @ ELSE {}]
      /\ tenant' = [tenant EXCEPT ![q] = FeedTenant]
      /\ UNCHANGED <<retracted, indexed, health>>
  BY <1>2, <1>6 DEF End, feedVars
<1>8. [lineage |-> rows, gaps |-> found] \in Results
  BY <1>3, <1>4 DEF Results
<1> HIDE DEF rows
<1>9. QueryTypes'
  BY <1>7, <1>8, ObservationAssumption DEF QueryTypes
<1>10. OnlyMoves(q)
  BY <1>7 DEF OnlyMoves, QueryTypes
<1>11. /\ stage'[q] = "idle" /\ result'[q].lineage = rows /\ result'[q].gaps = found
       /\ found = {} => seen'[q] = seen[q]
  BY <1>7 DEF QueryTypes
<1>12. QueryKnows(q)'
  BY <1>11 DEF QueryKnows
<1>13. Backed(q)'
  <2>1. SUFFICES ASSUME found = {} PROVE Backed(q)'
    BY <1>11 DEF Backed
  <2>2. rows = lineage[q]
    BY <2>1 DEF rows
  <2>3. /\ health.completed /\ health.observed # None
        /\ \A row \in lineage[q] : row.status = "active"
    BY <1>5, <1>6, <2>1
  <2>4. seen'[q] = seen[q] /\ UNCHANGED <<indexed, health>>
    BY <1>7, <1>11, <2>1
  <2>5. health'.completed /\ health'.observed # None
    BY <2>3, <2>4
  <2>6. \A row \in lineage[q] : row.observation \in seen'[q] \cap indexed'
    BY <1>3, <2>3, <2>4
  <2> QED
    BY <1>3, <1>11, <2>2, <2>5, <2>6 DEF Backed
<1> QED
  BY <1>9, <1>10, <1>12, <1>13

-----------------------------------------------------------------------------
(* The theorems                                                            *)

\* What holds to begin with.
LEMMA OInvInit ==
    Init => TypeOK /\ OInv
<1> SUFFICES ASSUME Init PROVE TypeOK /\ OInv
  OBVIOUS
<1>1. FeedTypeOK
  <2>1. Cardinality(Entries) \in Nat
    BY EntriesAreFinite, FS_CardinalityType
  <2>2. 0 \in 0..Cardinality(Entries) /\ health \in Healths
    BY <2>1 DEF Init, FeedInit, Healths
  <2> QED
    BY <2>2 DEF Init, FeedInit, FeedTypeOK
<1>2. NoResult \in Results /\ NoResult.gaps # {}
  BY DEF NoResult, Results, Gaps
<1>3. TypeOK
  BY <1>1, <1>2, ObservationAssumption DEF Init, TypeOK
<1>4. HandedOutIsCurrent
  BY DEF Init, FeedInit, HandedOutIsCurrent
<1>5. (\A q \in Queriers : QueryKnows(q)) /\ CompleteIsBacked
  BY <1>2 DEF Init, QueryKnows, CompleteIsBacked
<1> QED
  BY <1>3, <1>4, <1>5 DEF OInv

\* What every step keeps.
LEMMA OInvStep ==
    TypeOK /\ OInv /\ [Next]_vars => TypeOK' /\ OInv'
<1> SUFFICES ASSUME TypeOK, OInv, [Next]_vars PROVE TypeOK' /\ OInv'
  OBVIOUS
<1>0. /\ FeedTypeOK /\ QueryTypes /\ HandedOutIsCurrent
      /\ \A q \in Queriers : QueryKnows(q) /\ Backed(q)
  BY DEF TypeOK, OInv, QueryTypes, CompleteIsBacked, Backed
<1>1. SUFFICES /\ FeedTypeOK' /\ QueryTypes' /\ HandedOutIsCurrent'
               /\ \A q \in Queriers : QueryKnows(q)' /\ Backed(q)'
  BY DEF TypeOK, OInv, QueryTypes, CompleteIsBacked, Backed
<1>2. ASSUME UNCHANGED feedVars
      PROVE  FeedTypeOK' /\ HandedOutIsCurrent' /\ ConnectorGoesOn
  <2>1. FeedTypeOK' /\ ConnectorGoesOn
    BY <1>0, <1>2 DEF feedVars, FeedTypeOK, ConnectorGoesOn
  <2>2. HandedOutIsCurrent'
    BY <1>0, <1>2, HandedStays DEF feedVars
  <2> QED
    BY <2>1, <2>2
<1>3. ASSUME NEW q \in Queriers, Ask(q) \/ ReadLineage(q) \/ ReadHealth(q)
      PROVE  /\ FeedTypeOK' /\ QueryTypes' /\ HandedOutIsCurrent'
             /\ \A p \in Queriers : QueryKnows(p)' /\ Backed(p)'
  <2>1. UNCHANGED feedVars
    BY <1>3 DEF Ask, ReadLineage, ReadHealth
  <2>2. QueryTypes' /\ OnlyMoves(q) /\ QueryKnows(q)' /\ Backed(q)'
    BY <1>0, <1>3, AskDoes, ReadLineageDoes, ReadHealthDoes
  <2>3. ASSUME NEW p \in Queriers PROVE QueryKnows(p)' /\ Backed(p)'
    <3>1. CASE p = q
      BY <2>2, <3>1
    <3>2. CASE p # q
      BY <1>0, <1>2, <2>1, <2>2, <3>2, QueryStays DEF OnlyMoves
    <3> QED
      BY <3>1, <3>2
  <2> QED
    BY <1>2, <2>1, <2>2, <2>3
<1>4. ASSUME ConnectorGoesOn, UNCHANGED <<stage, tenant, lineage, result, seen>>
      PROVE  \A q \in Queriers : QueryKnows(q)' /\ Backed(q)'
  BY <1>0, <1>4, QueryStays
<1>5. CASE FeedNext /\ UNCHANGED queryVars
  <2>1. QueryTypes' /\ UNCHANGED <<stage, tenant, lineage, result, seen>>
    BY <1>0, <1>5 DEF queryVars, QueryTypes
  <2> QED
    BY <1>0, <1>4, <1>5, <2>1, FeedStep
<1>6. CASE Retract
  <2>1. QueryTypes' /\ UNCHANGED feedVars /\ UNCHANGED <<stage, tenant, lineage, result, seen>>
    BY <1>0, <1>6 DEF Retract, QueryTypes, FeedTypeOK
  <2> QED
    BY <1>2, <1>4, <2>1
<1>7. CASE UNCHANGED vars
  <2>1. QueryTypes' /\ UNCHANGED feedVars /\ UNCHANGED <<stage, tenant, lineage, result, seen>>
    BY <1>0, <1>7 DEF vars, queryVars, QueryTypes
  <2> QED
    BY <1>2, <1>4, <2>1
<1> QED
  BY <1>3, <1>5, <1>6, <1>7 DEF Next

\* The inductive invariant of the feed and of the queries holds throughout.
THEOREM ObservationInvariant == Spec => [](TypeOK /\ OInv)
  BY OInvInit, OInvStep, PTL DEF Spec

\* Every variable of the feed and of the queries keeps its type: the place of an export is
\* one the entries have, and the emission clock of build_exports never goes below 1.
THEOREM TypeCorrect == Spec => []TypeOK
  BY ObservationInvariant, PTL

\* A sequence number of the evidence feed goes on naming the receipt it was handed out for,
\* with the same emission time, and a receipt its number, except behind a receipt that was
\* inserted late or skipped, or where the allow-list names the receipt more than once.
THEOREM HandedOutStaysStable == Spec => []HandedOutIsStable
<1>1. TypeOK /\ OInv => HandedOutIsStable
  <2> SUFFICES ASSUME TypeOK, OInv, NEW x \in handed, NEW y \in handed,
                      \/ x.sequence = y.sequence
                      \/ x.export_id = y.export_id /\ ~ Repeated(x.export_id),
                      ~ \E z \in late \cup faulty :
                            ~ Before(x.export_id, z) \/ ~ Before(y.export_id, z)
               PROVE  x = y
    BY DEF HandedOutIsStable
  <2>1. IsCurrent(x) /\ IsCurrent(y) /\ CanList
    BY DEF OInv, HandedOutIsCurrent, Unexcused
  <2>2. Timed(created, Exportable)
    BY <2>1, ExportableIsStored, StoredIsTimed DEF TypeOK
  <2>3. PICK d \in Exportable, e \in Exportable :
           /\ x.export_id = d.receipt /\ x.sequence = Place(d, Exportable)
           /\ x.emitted_at = EmittedAt(d, Exportable)
           /\ y.export_id = e.receipt /\ y.sequence = Place(e, Exportable)
           /\ y.emitted_at = EmittedAt(e, Exportable)
    BY <2>1 DEF IsCurrent
  <2>4. d = e
    <3>1. CASE x.sequence = y.sequence
      <4>1. PlaceIn(created, d, Exportable) = PlaceIn(created, e, Exportable)
        BY <2>3, <3>1, AtTheStore
      <4> QED
        BY <2>2, <4>1, PlacesDiffer
    <3>2. CASE x.export_id = y.export_id /\ ~ Repeated(x.export_id)
      BY <2>3, <3>2 DEF Repeated, Exportable
    <3> QED
      BY <3>1, <3>2
  <2>5. x \in Exports /\ y \in Exports
    BY DEF TypeOK, FeedTypeOK
  <2> QED
    BY <2>3, <2>4, <2>5 DEF Exports
<1> QED
  BY <1>1, ObservationInvariant, PTL

\* ObservationUseCase::query calls a result complete only with a lineage of observations
\* that were the tenant's to see, indexed and not retracted when it was read, and about a
\* source that had completed a run and observed an export: also when the lineage was read
\* in the middle of its first run, which may then fail.
THEOREM CompleteResultsAreBacked == Spec => []CompleteIsBacked
<1>1. TypeOK /\ OInv => CompleteIsBacked
  BY DEF OInv
<1> QED
  BY <1>1, ObservationInvariant, PTL

===========================================================================
