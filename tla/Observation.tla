---------------------------- MODULE Observation ----------------------------
(***************************************************************************)
(* Observation queries (observation.rs) through the Tuppira client         *)
(* (piteka-tuppira), over what the connector of EvidenceFeed has indexed.  *)
(* A query makes two requests, for the lineage of an observation and for   *)
(* the health of the sources.  Before and between them the connector may   *)
(* start, complete or fail a run, and either may be answered with an       *)
(* error, by something that is no answer, or not at all.  Whatever is      *)
(* missing is to become an evidence gap.                                   *)
(***************************************************************************)
EXTENDS EvidenceFeed

CONSTANTS
    Tenants,      \* tenants that query
    FeedTenant,   \* PITEKA_FEED_TENANT_ID, whose observations the feed carries
    Queriers,     \* tasks that query
    Invalid       \* an identifier that is blank, too long or has a reserved character

ASSUME ObservationAssumption == FeedTenant \in Tenants

VARIABLES
    retracted,   \* external: observations retracted or superseded at Tuppira
    stage,       \* where each query is: "idle", "lineage", "health"
    tenant,      \* the tenant of each query under way
    lineage,     \* the lineage it has read, each with its retraction status
    result,      \* its result: the lineage and the gaps
    seen         \* history: what of it the tenant could see, unretracted, when it was read

queryVars == <<retracted, stage, tenant, lineage, result, seen>>

vars == <<feedVars, queryVars>>

\* The client asks the service about an observation and passes on what it answers, so that
\* of the observation's identifier only whether it is valid is told apart.
Queries == [tenant : Tenants \cup {Invalid}, observation : {"valid", Invalid}]

Rows == [observation : Receipts, status : {"active", "retracted"}]

Gaps == {"invalid_observation_query", "observation_lineage_unavailable",
         "observation_not_found", "observation_source_health_unavailable",
         "observation_source_incomplete", "observation_source_health_missing",
         "observation_retracted"}

Results == [lineage : SUBSET Rows, gaps : SUBSET Gaps]

TypeOK ==
    /\ FeedTypeOK
    /\ retracted \subseteq Receipts
    /\ stage \in [Queriers -> {"idle", "lineage", "health"}]
    /\ tenant \in [Queriers -> Tenants]
    /\ lineage \in [Queriers -> SUBSET Rows]
    /\ result \in [Queriers -> Results]
    /\ seen \in [Queriers -> SUBSET Receipts]

NoResult == [lineage |-> {}, gaps |-> {"observation_not_found"}]

Init ==
    /\ FeedInit
    /\ retracted = {}
    /\ stage = [q \in Queriers |-> "idle"]
    /\ tenant = [q \in Queriers |-> FeedTenant]
    /\ lineage = [q \in Queriers |-> {}]
    /\ result = [q \in Queriers |-> NoResult]
    /\ seen = [q \in Queriers |-> {}]

-----------------------------------------------------------------------------
(* The Tuppira client *)

\* What TuppiraHttpClient::get and the validation of its rows make of a request that has
\* no answer, one with another status, too long, not JSON, not a success, or an invalid row.
GetError ==
    [lost |-> "Unavailable", failed |-> "Unavailable", denied |-> "Unauthenticated",
     absent |-> "NotVisible", oversized |-> "Malformed", garbled |-> "Malformed",
     unsuccessful |-> "Malformed", badRow |-> "Malformed"]

\* How a request ends: with rows the client accepts, or with an error.
Endings == {"rows"} \cup {GetError[e] : e \in DOMAIN GetError}

ValidIdentifier(id) == id # Invalid

\* What the service may show of the tenant's observations.
Visible(q) == IF tenant[q] = FeedTenant THEN indexed ELSE {}

Status(r) == IF r \in retracted THEN "retracted" ELSE "active"

-----------------------------------------------------------------------------
(* The query *)

\* The query's tenant is forgotten; of a result with gaps the lineage is left out, and what
\* was seen is forgotten too.
End(q, rows, gaps) ==
    /\ stage' = [stage EXCEPT ![q] = "idle"]
    /\ result' = [result EXCEPT ![q] = [lineage |-> IF gaps = {} THEN rows ELSE {}, gaps |-> gaps]]
    /\ tenant' = [tenant EXCEPT ![q] = FeedTenant]
    /\ lineage' = [lineage EXCEPT ![q] = {}]
    /\ seen' = [seen EXCEPT ![q] = IF gaps = {} THEN @ ELSE {}]

Ask(q) ==
    /\ stage[q] = "idle"
    /\ \E x \in Queries :
          \/ /\ ValidIdentifier(x.tenant) /\ ValidIdentifier(x.observation)
             /\ tenant' = [tenant EXCEPT ![q] = x.tenant]
             /\ stage' = [stage EXCEPT ![q] = "lineage"]
             /\ result' = [result EXCEPT ![q] = NoResult]
             /\ seen' = [seen EXCEPT ![q] = {}]
             /\ UNCHANGED lineage
          \/ /\ ~ (ValidIdentifier(x.tenant) /\ ValidIdentifier(x.observation))
             /\ End(q, {}, {"invalid_observation_query"})
    /\ UNCHANGED <<feedVars, retracted>>

LineageGap(ending, rows) ==
    IF ending # "rows" THEN {"observation_lineage_unavailable"}
    ELSE IF rows = {} THEN {"observation_not_found"} ELSE {}

\* The lineage is any set of these observations: that the one asked about is among them is
\* not checked.
ReadLineage(q) ==
    /\ stage[q] = "lineage"
    /\ \E ending \in Endings, shown \in SUBSET Visible(q) :
          LET rows == {[observation |-> r, status |-> Status(r)] : r \in shown}
              gap  == LineageGap(ending, rows)
          IN  \/ /\ gap # {}
                 /\ End(q, {}, gap)
              \/ /\ gap = {}
                 /\ lineage' = [lineage EXCEPT ![q] = rows]
                 /\ stage' = [stage EXCEPT ![q] = "health"]
                 /\ seen' = [seen EXCEPT ![q] = (shown \cap Visible(q)) \ retracted]
                 /\ UNCHANGED <<tenant, result>>
    /\ UNCHANGED <<feedVars, retracted>>

\* Mutant: that a run was started is taken for one that was completed.
SourceGap_Started(known) ==
    IF ~ known THEN {"observation_source_health_missing"}
    ELSE IF health.started THEN {} ELSE {"observation_source_incomplete"}

\* The gaps of an observation whose source has this health, or no record of it.
SourceGap(known) ==
    IF ~ known THEN {"observation_source_health_missing"}
    ELSE IF health.completed /\ health.observed # None THEN {}
    ELSE {"observation_source_incomplete"}

RowGap(row) == IF row.status # "active" THEN {"observation_retracted"} ELSE {}

\* The service may have no health record of the source.
ReadHealth(q) ==
    /\ stage[q] = "health"
    /\ \E ending \in Endings, known \in BOOLEAN :
          IF ending # "rows"
          THEN End(q, {}, {"observation_source_health_unavailable"})
          ELSE End(q, lineage[q],
                   UNION {SourceGap(known) \cup RowGap(row) : row \in lineage[q]})
    /\ UNCHANGED <<feedVars, retracted>>

\* An observation is retracted, or superseded by another.
Retract ==
    /\ \E r \in indexed \ retracted : retracted' = retracted \cup {r}
    /\ UNCHANGED <<feedVars, stage, tenant, lineage, result, seen>>

-----------------------------------------------------------------------------

Next ==
    \/ FeedNext /\ UNCHANGED queryVars
    \/ \E q \in Queriers : Ask(q) \/ ReadLineage(q) \/ ReadHealth(q)
    \/ Retract

\* The connector goes on pulling; not every pull fails, and not every run after its pull.
Fairness ==
    /\ WF_feedVars(Pull /\ UNCHANGED queryVars)
    /\ SF_feedVars(CompleteRun /\ UNCHANGED queryVars)

Spec == Init /\ [][Next]_vars /\ Fairness

-----------------------------------------------------------------------------
(* Properties *)

\* A query is complete only with a lineage of observations that the tenant could see,
\* unretracted, when it was read, and about a source of which a run has completed with an
\* export observed: neither an outage, a refusal or an empty answer, nor a first run that
\* has indexed the rows and is still on its way, or failed, makes evidence that is missing
\* look complete (ObservationUseCase::query).
CompleteIsBacked ==
    \A q \in Queriers : result[q].gaps = {} =>
        /\ result[q].lineage # {}
        /\ \A row \in result[q].lineage : row.observation \in seen[q] \cap indexed
        /\ health.completed /\ health.observed # None

-----------------------------------------------------------------------------
(* What makes CompleteIsBacked inductive *)

\* A query that has read its lineage goes on about observations of the feed's tenant, which
\* stay indexed, and which it saw unretracted if their rows say so.
QueryKnows(q) ==
    /\ stage[q] # "idle" => result[q] = NoResult
    /\ stage[q] = "health" =>
          /\ tenant[q] = FeedTenant
          /\ lineage[q] # {}
          /\ \A row \in lineage[q] :
                /\ row.observation \in indexed
                /\ row.status = "active" => row.observation \in seen[q]

\* The inductive invariant of the feed and of the queries.
OInv ==
    /\ HandedOutIsCurrent
    /\ \A q \in Queriers : QueryKnows(q)
    /\ CompleteIsBacked

=============================================================================
