----------------------------- MODULE Sessions -----------------------------
(***************************************************************************)
(* Signed demo sessions and the authorization boundary: issuing and        *)
(* authenticating sessions (session.rs of piteka-application), the policy  *)
(* on re-authentication (authz.rs), and the boundary that records denials  *)
(* and production grants (piteka-auth).  The clock is the system's: it     *)
(* advances, may be set back, and ends at u64::MAX.  The authority may be  *)
(* restarted with another organization, other members or another key,      *)
(* which forgets every authenticated session and keeps the audit log.      *)
(***************************************************************************)
EXTENDS Naturals, FiniteSets

CONSTANTS
    Users,         \* stable user identifiers
    Orgs,          \* organization identifiers
    Keys,          \* keys of the local signer
    Clients,       \* callers that hold a session
    Lifetimes,     \* lifetimes asked for, 0 included
    Window,        \* reauth_window_seconds
    MaxU64,        \* the largest clock value
    MaxIssued,     \* bound: sessions issued
    MaxRestarts,   \* bound: restarts
    MaxSetBacks,   \* bound: times the clock is set back
    Wanted,        \* capabilities the callers ask for
    None           \* no session held, no decision pending, no answer

ASSUME SessionsAssumption ==
    /\ Lifetimes \subseteq Nat
    /\ {Window, MaxU64, MaxIssued, MaxRestarts, MaxSetBacks} \subseteq Nat

VARIABLES
    now,        \* the wall clock, Unix seconds
    ticks,      \* history: seconds that really passed
    setBacks,   \* times the clock was set back
    restarts,   \* restarts of the authority
    org,        \* the configured organization
    members,    \* its identities
    key,        \* the signer's key
    issues,     \* history: the sessions signed, each with the tick of its issue
    held,       \* the AuthenticatedSession of each client
    pending,    \* the decision a client's call has reached and not yet answered
    answer,     \* the last answer of the boundary to each client
    audit,      \* the append-only audit log, as a set
    panicked    \* whether an issue ran into its expect

vars == <<now, ticks, setBacks, restarts, org, members, key, issues, held, pending,
          answer, audit, panicked>>

Capabilities ==
    [Requester |-> {"ProposeAction", "ReceiveActionStatus", "ExecuteApprovedMandate"},
     Approver  |-> {"ReviewIntent", "ApproveAction", "RejectAction", "RequireConditions",
                    "RevokeMandate"},
     Auditor   |-> {"ReadScopedRecords", "VerifyBundle", "InspectAssurance"}]

Roles == DOMAIN Capabilities

Times == 0..MaxU64

Identities == [user : Users, org : Orgs, role : Roles]

SessionClaims ==
    [subject : Users, org : Orgs, role : Roles, issued : Times, expires : Times]

Sensitivities == {"Standard", "ProductionApproval"}

Requests == [capability : Wanted, sensitivity : Sensitivities]

Decisions == [kind : {"granted", "denied"}, request : Requests, user : Users]

\* What a caller is told: a decision, or that its audit event could not be written.
Answers == [kind : {"granted", "denied", "error"}, request : Requests, user : Users]

TypeOK ==
    /\ now \in Times /\ ticks \in Nat
    /\ setBacks \in 0..MaxSetBacks /\ restarts \in 0..MaxRestarts
    /\ org \in Orgs /\ members \subseteq Identities /\ key \in Keys
    /\ \A s \in issues : s.claims \in SessionClaims /\ s.key \in Keys /\ s.tick \in Nat
    /\ \A c \in Clients :
          /\ held[c] # None => held[c].claims \in SessionClaims /\ held[c].identity \in members
          /\ pending[c] # None => pending[c] \in Decisions
          /\ answer[c] # None => answer[c] \in Answers
    /\ audit \subseteq Decisions
    /\ panicked \in BOOLEAN

-----------------------------------------------------------------------------
(* The configured organization (identity.rs) *)

WellFormed(o, ms) ==
    /\ ms # {}
    /\ \A i \in ms : i.org = o
    /\ \A i, j \in ms : i.user = j.user => i = j

IsMember(user) == \E i \in members : i.user = user

Member(user) == CHOOSE i \in members : i.user = user

Configure(o, ms, k) ==
    /\ WellFormed(o, ms)
    /\ org' = o
    /\ members' = ms
    /\ key' = k

Init ==
    /\ now \in Times
    /\ ticks = 0 /\ setBacks = 0 /\ restarts = 0
    /\ org \in Orgs
    /\ members \in {ms \in SUBSET [user : Users, org : {org}, role : Roles] : WellFormed(org, ms)}
    /\ key \in Keys
    /\ issues = {} /\ audit = {}
    /\ held = [c \in Clients |-> None]
    /\ pending = [c \in Clients |-> None]
    /\ answer = [c \in Clients |-> None]
    /\ panicked = FALSE

-----------------------------------------------------------------------------
(* The clock *)

Tick ==
    /\ now < MaxU64
    /\ now' = now + 1
    /\ ticks' = ticks + 1
    /\ UNCHANGED <<setBacks, restarts, org, members, key, issues, held, pending, answer,
                   audit, panicked>>

SetBack ==
    /\ setBacks < MaxSetBacks
    /\ \E t \in Times : t < now /\ now' = t
    /\ setBacks' = setBacks + 1
    /\ UNCHANGED <<ticks, restarts, org, members, key, issues, held, pending, answer, audit,
                   panicked>>

-----------------------------------------------------------------------------
(* The session authority *)

Least(a, b) == IF a < b THEN a ELSE b

\* Mutant: a lifetime of zero is taken as it is.
Expiry_NoClamp(issued, lifetime) == Least(issued + lifetime, MaxU64)

\* issued_at.saturating_add(lifetime_seconds.max(1))
Expiry(issued, lifetime) ==
    Least(issued + (IF lifetime = 0 THEN 1 ELSE lifetime), MaxU64)

\* SessionClaims::new refuses an empty window, and issue's expect panics then.
Issue ==
    \E user \in Users, lifetime \in Lifetimes :
        /\ Cardinality(issues) < MaxIssued
        /\ IsMember(user)
        /\ LET member == Member(user)
               claims == [subject |-> member.user, org |-> member.org, role |-> member.role,
                          issued |-> now, expires |-> Expiry(now, lifetime)]
           IN  IF claims.expires <= claims.issued
               THEN panicked' = TRUE /\ UNCHANGED issues
               ELSE /\ issues' = issues \cup {[claims |-> claims, key |-> key, tick |-> ticks]}
                    /\ UNCHANGED panicked
        /\ UNCHANGED <<now, ticks, setBacks, restarts, org, members, key, held, pending,
                       answer, audit>>

\* Mutant: the role is left out of the signed bytes.
SigningBytes_NoRole(claims) ==
    <<claims.subject, claims.org, claims.issued, claims.expires>>

SigningBytes(claims) ==
    <<claims.subject, claims.org, claims.role, claims.issued, claims.expires>>

\* The signer holds one key: a signature verifies if that key signed these bytes.
Verifies(claims, signature) ==
    /\ signature.key = key
    /\ SigningBytes(signature.claims) = SigningBytes(claims)

IsActive(claims) == claims.issued <= now /\ now < claims.expires

MatchesMember(claims) ==
    /\ IsMember(claims.subject)
    /\ Member(claims.subject).org = claims.org
    /\ Member(claims.subject).role = claims.role

\* A client presents a session it was given, or that session's signature on claims
\* with another role or a later expiry.  Every refusal leaves the state alone.
Authenticate(c) ==
    /\ held[c] = None
    /\ \E s \in issues, role \in Roles, expires \in Times :
          LET claims == [s.claims EXCEPT !.role = role, !.expires = expires]
          IN  /\ Verifies(claims, s)
              /\ IsActive(claims)
              /\ MatchesMember(claims)
              /\ held' = [held EXCEPT ![c] =
                    [claims |-> claims, identity |-> Member(claims.subject)]]
    /\ UNCHANGED <<now, ticks, setBacks, restarts, org, members, key, issues, pending, answer,
                   audit, panicked>>

\* The client ends its request and drops the authenticated session.
Drop(c) ==
    /\ held[c] # None /\ pending[c] = None
    /\ held' = [held EXCEPT ![c] = None]
    /\ answer' = [answer EXCEPT ![c] = None]
    /\ UNCHANGED <<now, ticks, setBacks, restarts, org, members, key, issues, pending, audit,
                   panicked>>

-----------------------------------------------------------------------------
(* The authorization boundary *)

\* Mutant: the window is counted from the expiry.
Grants_FromExpiry(session, request) ==
    /\ request.capability \in Capabilities[session.identity.role]
    /\ request.sensitivity = "ProductionApproval" => now <= session.claims.expires + Window

\* Mutant: the policy forgets the capability.
Grants_Anything(session, request) ==
    request.sensitivity = "ProductionApproval" => now <= session.claims.issued + Window

\* ReauthPolicy::evaluate; the age saturates at 0 when the clock was set back.
Grants(session, request) ==
    /\ request.capability \in Capabilities[session.identity.role]
    /\ request.sensitivity = "ProductionApproval" => now <= session.claims.issued + Window

Evaluate(c) ==
    /\ held[c] # None /\ pending[c] = None
    /\ \E request \in Requests :
          pending' = [pending EXCEPT ![c] =
             [kind |-> IF Grants(held[c], request) THEN "granted" ELSE "denied",
              request |-> request, user |-> held[c].identity.user]]
    /\ answer' = [answer EXCEPT ![c] = None]
    /\ UNCHANGED <<now, ticks, setBacks, restarts, org, members, key, issues, held, audit,
                   panicked>>

\* Mutant: only denials are recorded.
IsAudited_DenialsOnly(decision) == decision.kind = "denied"

IsAudited(decision) ==
    decision.kind = "denied" \/ decision.request.sensitivity = "ProductionApproval"

Settle(c, result) ==
    /\ pending' = [pending EXCEPT ![c] = None]
    /\ answer' = [answer EXCEPT ![c] = result]
    /\ UNCHANGED <<now, ticks, setBacks, restarts, org, members, key, issues, held, panicked>>

\* The audit event is appended, if the decision calls for one, and the caller answered.
Respond(c) ==
    /\ pending[c] # None
    /\ audit' = IF IsAudited(pending[c]) THEN audit \cup {pending[c]} ELSE audit
    /\ Settle(c, pending[c])

\* The append fails: the caller gets the storage error and no decision.
RespondFails(c) ==
    /\ pending[c] # None /\ IsAudited(pending[c])
    /\ UNCHANGED audit
    /\ Settle(c, [pending[c] EXCEPT !.kind = "error"])

-----------------------------------------------------------------------------

Restart ==
    /\ restarts < MaxRestarts
    /\ \E o \in Orgs, k \in Keys :
          \E ms \in SUBSET [user : Users, org : Orgs, role : Roles] : Configure(o, ms, k)
    /\ restarts' = restarts + 1
    /\ held' = [c \in Clients |-> None]
    /\ pending' = [c \in Clients |-> None]
    /\ answer' = [c \in Clients |-> None]
    /\ panicked' = FALSE
    /\ UNCHANGED <<now, ticks, setBacks, issues, audit>>

Next ==
    \/ Tick \/ SetBack \/ Issue \/ Restart
    \/ \E c \in Clients :
          Authenticate(c) \/ Drop(c) \/ Evaluate(c) \/ Respond(c) \/ RespondFails(c)

Spec == Init /\ [][Next]_vars

-----------------------------------------------------------------------------
(* Properties *)

\* A grant is given to someone whose role in the directory of the running process has
\* the capability, also when the session was signed before a restart that moved or
\* demoted its subject (the role and organization checks of authenticate).
GrantIsOfTheDirectory ==
    [][\A c \in Clients :
          answer'[c] # answer[c] /\ answer'[c] # None /\ answer'[c].kind = "granted" =>
             \E i \in members' :
                /\ i.user = answer'[c].user /\ i.org = org'
                /\ answer'[c].request.capability \in Capabilities[i.role]]_vars

\* A production approval is granted within the window of the session's issue in seconds
\* that really passed, as long as the clock was never set back (ReauthPolicy::evaluate).
ProductionGrantIsRecent ==
    [][setBacks = 0 =>
        \A c \in Clients :
          /\ pending[c] = None /\ pending'[c] # None
          /\ pending'[c].kind = "granted"
          /\ pending'[c].request.sensitivity = "ProductionApproval"
          => \E s \in issues : s.claims = held[c].claims /\ ticks - s.tick <= Window]_vars

\* Whoever a process authenticates presents claims exactly as that process's key signed
\* them, not with a role or an expiry changed on the way, and less time has really
\* passed since their issue than they allow, unless the clock was set back
\* (SessionAuthority::authenticate over SessionClaims::signing_bytes).
AuthenticatedIsGenuine ==
    [][\A c \in Clients : held[c] = None /\ held'[c] # None =>
          \E s \in issues :
             /\ s.claims = held'[c].claims /\ s.key = key
             /\ setBacks = 0 => ticks - s.tick < s.claims.expires - s.claims.issued]_vars

\* Whatever the boundary tells a caller about a production approval, and every denial, is
\* in the audit log, although the append can fail (DemoAuthorizationBoundary::authorize).
AnsweredIsAudited ==
    \A c \in Clients :
        /\ answer[c] # None
        /\ \/ answer[c].kind = "denied"
           \/ /\ answer[c].kind = "granted"
              /\ answer[c].request.sensitivity = "ProductionApproval"
        => answer[c] \in audit

\* Issuing panics only when the clock has reached u64::MAX: no lifetime a caller asks
\* for makes the window empty (the clamp in SessionAuthority::issue).
PanicsOnlyAtTheEndOfTime == [][panicked' /\ ~ panicked => now = MaxU64]_vars

-----------------------------------------------------------------------------
(* What makes these properties inductive *)

\* As long as nobody sets the clock back, it has gone on since an issue by the seconds
\* that really passed.
ClockAgrees ==
    setBacks = 0 => \A s \in issues : now - s.claims.issued = ticks - s.tick

\* The directory in force is that of one organization, with one identity per user.
DirectoryIsWellFormed == members \subseteq Identities /\ WellFormed(org, members)

\* A session is held on claims that were signed, by a member of the directory in force.
HeldIsIssued(c) ==
    held[c] # None =>
        /\ held[c].identity \in members
        /\ \E s \in issues : s.claims = held[c].claims

\* A grant on its way to the caller is one the directory in force supports.
GrantIsSupported(c) ==
    pending[c] # None /\ pending[c].kind = "granted" =>
        \E i \in members :
            i.user = pending[c].user /\ pending[c].request.capability \in Capabilities[i.role]

\* The inductive invariant of sessions and of the boundary.
SInv ==
    /\ ClockAgrees
    /\ DirectoryIsWellFormed
    /\ \A c \in Clients : HeldIsIssued(c) /\ GrantIsSupported(c)
    /\ AnsweredIsAudited

=============================================================================
