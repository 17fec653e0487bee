-------------------------- MODULE SessionsProofs --------------------------
(***************************************************************************)
(* Theorems about Sessions: for every set of users, organizations, keys,   *)
(* clients and lifetimes, every re-authentication window and clock range,  *)
(* however often the clock is set back and the authority restarted.        *)
(***************************************************************************)
EXTENDS Sessions, TLAPS

\* The types, the functions' domains included.
SessionTypes ==
    /\ now \in Times /\ ticks \in Nat
    /\ setBacks \in 0..MaxSetBacks /\ restarts \in 0..MaxRestarts
    /\ org \in Orgs /\ members \subseteq Identities /\ key \in Keys
    /\ issues \subseteq [claims : SessionClaims, key : Keys, tick : Nat]
    /\ held \in [Clients -> [claims : SessionClaims, identity : Identities] \cup {None}]
    /\ pending \in [Clients -> Decisions \cup {None}]
    /\ answer \in [Clients -> Answers \cup {None}]
    /\ audit \subseteq Decisions
    /\ panicked \in BOOLEAN

\* The member of a user in the directory.
LEMMA MemberIs ==
    ASSUME NEW user, IsMember(user) PROVE Member(user) \in members /\ Member(user).user = user
  BY DEF IsMember, Member

\* An expiry is a clock value, and after the issue unless time is at its end.
LEMMA ExpiryIs ==
    ASSUME now \in Times, NEW lifetime \in Lifetimes
    PROVE  /\ Expiry(now, lifetime) \in Times
           /\ Expiry(now, lifetime) <= now => now = MaxU64
<1>1. now \in Nat /\ lifetime \in Nat /\ MaxU64 \in Nat /\ now <= MaxU64
  BY SessionsAssumption DEF Times
<1>2. CASE lifetime = 0
  BY <1>1, <1>2 DEF Expiry, Least, Times
<1>3. CASE lifetime # 0
  BY <1>1, <1>3 DEF Expiry, Least, Times
<1> QED
  BY <1>2, <1>3

\* The claims an issue signs.
Claims(member, lifetime) ==
    [subject |-> member.user, org |-> member.org, role |-> member.role,
     issued |-> now, expires |-> Expiry(now, lifetime)]

\* What an issue does.
LEMMA IssueDoes ==
    ASSUME SessionTypes, Issue
    PROVE  /\ UNCHANGED <<now, ticks, setBacks, restarts, org, members, key, held, pending,
                          answer, audit>>
           /\ \/ panicked' = TRUE /\ issues' = issues /\ now = MaxU64
              \/ /\ panicked' = panicked
                 /\ \E claims \in SessionClaims :
                       /\ claims.issued = now
                       /\ issues' = issues \cup {[claims |-> claims, key |-> key, tick |-> ticks]}
<1>1. PICK user \in Users, lifetime \in Lifetimes :
         /\ IsMember(user)
         /\ IF Claims(Member(user), lifetime).expires <= Claims(Member(user), lifetime).issued
            THEN panicked' = TRUE /\ UNCHANGED issues
            ELSE /\ issues' = issues \cup
                       {[claims |-> Claims(Member(user), lifetime), key |-> key, tick |-> ticks]}
                 /\ UNCHANGED panicked
         /\ UNCHANGED <<now, ticks, setBacks, restarts, org, members, key, held, pending,
                        answer, audit>>
  BY DEF Issue, Claims
<1>2. Member(user) \in Identities
  BY <1>1, MemberIs DEF SessionTypes
<1>3. Claims(Member(user), lifetime) \in SessionClaims
  BY <1>2, ExpiryIs DEF Claims, SessionClaims, Identities, SessionTypes
<1>4. Claims(Member(user), lifetime).issued = now
  BY DEF Claims
<1>5. Claims(Member(user), lifetime).expires <= now => now = MaxU64
  BY ExpiryIs DEF Claims, SessionTypes
<1> QED
  BY <1>1, <1>3, <1>4, <1>5

\* Whoever is authenticated presents what the key in force has signed, while it is valid,
\* and is the member it says.
LEMMA AuthenticateDoes ==
    ASSUME SessionTypes, NEW c \in Clients, Authenticate(c)
    PROVE  /\ UNCHANGED <<now, ticks, setBacks, restarts, org, members, key, issues, pending,
                          answer, audit, panicked>>
           /\ held[c] = None
           /\ \E s \in issues, i \in members :
                 /\ s.key = key /\ IsActive(s.claims)
                 /\ held' = [held EXCEPT ![c] = [claims |-> s.claims, identity |-> i]]
<1>1. PICK s \in issues, role \in Roles, expires \in Times :
         LET claims == [s.claims EXCEPT !.role = role, !.expires = expires]
         IN  /\ Verifies(claims, s)
             /\ IsActive(claims)
             /\ MatchesMember(claims)
             /\ held' = [held EXCEPT ![c] =
                   [claims |-> claims, identity |-> Member(claims.subject)]]
  BY DEF Authenticate
<1> DEFINE claims == [s.claims EXCEPT !.role = role, !.expires = expires]
<1>2. s.claims \in SessionClaims
  BY DEF SessionTypes
<1>3. claims = s.claims
  <2>1. s.claims.role = claims.role /\ s.claims.expires = claims.expires
    BY <1>1 DEF Verifies, SigningBytes
  <2>2. claims.role = role /\ claims.expires = expires
    BY <1>2 DEF SessionClaims
  <2> QED
    BY <1>2, <2>1, <2>2 DEF SessionClaims
<1>4. Member(s.claims.subject) \in members
  BY <1>1, <1>3, MemberIs DEF MatchesMember
<1> QED
  BY <1>1, <1>3, <1>4 DEF Authenticate, Verifies

-----------------------------------------------------------------------------
(* The types                                                               *)

\* The types hold at the start.
LEMMA TypesInit == Init => SessionTypes
<1> SUFFICES ASSUME Init PROVE SessionTypes
  OBVIOUS
<1>1. org \in Orgs /\ members \subseteq [user : Users, org : {org}, role : Roles]
  BY DEF Init
<1>2. members \subseteq Identities
  BY <1>1 DEF Identities
<1>3. ticks \in Nat /\ setBacks \in 0..MaxSetBacks /\ restarts \in 0..MaxRestarts
  <2>1. MaxSetBacks \in Nat /\ MaxRestarts \in Nat
    BY SessionsAssumption
  <2>2. ticks = 0 /\ setBacks = 0 /\ restarts = 0
    BY DEF Init
  <2> QED
    BY <2>1, <2>2
<1>4. /\ now \in Times /\ key \in Keys /\ panicked \in BOOLEAN /\ audit \subseteq Decisions
      /\ issues \subseteq [claims : SessionClaims, key : Keys, tick : Nat]
  BY DEF Init
<1>5. /\ held \in [Clients -> [claims : SessionClaims, identity : Identities] \cup {None}]
      /\ pending \in [Clients -> Decisions \cup {None}]
      /\ answer \in [Clients -> Answers \cup {None}]
  BY DEF Init
<1> QED
  BY <1>1, <1>2, <1>3, <1>4, <1>5 DEF SessionTypes

\* Every step keeps them.
LEMMA TypesStep == ASSUME SessionTypes, [Next]_vars PROVE SessionTypes'
<1> USE DEF SessionTypes
<1>1. CASE Tick
  BY <1>1, SessionsAssumption DEF Tick, Times
<1>2. CASE SetBack
  BY <1>2, SessionsAssumption DEF SetBack
<1>3. CASE Issue
  <2>1. issues' \subseteq [claims : SessionClaims, key : Keys, tick : Nat]
    <3>1. CASE issues' = issues
      BY <3>1
    <3>2. CASE issues' # issues
      <4>1. PICK claims \in SessionClaims :
               issues' = issues \cup {[claims |-> claims, key |-> key, tick |-> ticks]}
        BY <1>3, <3>2, IssueDoes
      <4> QED
        BY <4>1
    <3> QED
      BY <3>1, <3>2
  <2>2. panicked' \in BOOLEAN
    BY <1>3, IssueDoes
  <2> QED
    BY <1>3, <2>1, <2>2, IssueDoes
<1>4. CASE Restart
  <2>1. /\ restarts' \in 0..MaxRestarts /\ org' \in Orgs /\ key' \in Keys
        /\ members' \subseteq Identities
    BY <1>4, SessionsAssumption DEF Restart, Configure, Identities
  <2> QED
    BY <1>4, <2>1 DEF Restart
<1>5. ASSUME NEW c \in Clients, Authenticate(c) PROVE SessionTypes'
  <2>1. held' \in [Clients -> [claims : SessionClaims, identity : Identities] \cup {None}]
    BY <1>5, AuthenticateDoes
  <2> QED
    BY <1>5, <2>1, AuthenticateDoes
<1>6. ASSUME NEW c \in Clients, Drop(c) PROVE SessionTypes'
  BY <1>6 DEF Drop
<1>7. ASSUME NEW c \in Clients, Evaluate(c) PROVE SessionTypes'
  <2>1. PICK request \in Requests :
          pending' = [pending EXCEPT ![c] =
             [kind |-> IF Grants(held[c], request) THEN "granted" ELSE "denied",
              request |-> request, user |-> held[c].identity.user]]
    BY <1>7 DEF Evaluate
  <2>2. held[c].identity.user \in Users
    BY <1>7 DEF Evaluate, Identities
  <2>3. pending' \in [Clients -> Decisions \cup {None}]
    BY <2>1, <2>2 DEF Decisions
  <2> QED
    BY <1>7, <2>3 DEF Evaluate
<1>8. ASSUME NEW c \in Clients, Respond(c) PROVE SessionTypes'
  <2>1. pending[c] \in Decisions /\ pending[c] \in Answers
    BY <1>8 DEF Respond, Decisions, Answers
  <2> QED
    BY <1>8, <2>1 DEF Respond, Settle
<1>9. ASSUME NEW c \in Clients, RespondFails(c) PROVE SessionTypes'
  <2>1. [pending[c] EXCEPT !.kind = "error"] \in Answers
    BY <1>9 DEF RespondFails, Decisions, Answers
  <2> QED
    BY <1>9, <2>1 DEF RespondFails, Settle
<1>10. CASE UNCHANGED vars
  BY <1>10 DEF vars
<1> QED
  BY <1>1, <1>2, <1>3, <1>4, <1>5, <1>6, <1>7, <1>8, <1>9, <1>10 DEF Next

-----------------------------------------------------------------------------
(* The invariant                                                           *)

\* Nothing has been issued, and the directory is checked when it is configured.
LEMMA SInvInit == Init => SInv
<1> SUFFICES ASSUME Init PROVE SInv
  OBVIOUS
<1>1. DirectoryIsWellFormed
  BY TypesInit DEF Init, DirectoryIsWellFormed, SessionTypes
<1> QED
  BY <1>1 DEF Init, SInv, ClockAgrees, HeldIsIssued, GrantIsSupported, AnsweredIsAudited

\* The clock and the seconds that really passed.
LEMMA ClockStep == ASSUME SessionTypes, ClockAgrees, [Next]_vars PROVE ClockAgrees'
<1>0. /\ now \in Nat /\ ticks \in Nat /\ setBacks \in Nat
      /\ \A s \in issues : s.claims.issued \in Nat /\ s.tick \in Nat
  BY SessionsAssumption DEF SessionTypes, SessionClaims, Times
<1>1. CASE Tick
  <2>1. /\ setBacks' = setBacks /\ issues' = issues /\ now' = now + 1 /\ ticks' = ticks + 1
    BY <1>1 DEF Tick
  <2> QED
    BY <1>0, <2>1 DEF ClockAgrees
<1>2. CASE SetBack
  <2>1. setBacks' # 0
    BY <1>0, <1>2 DEF SetBack
  <2> QED
    BY <2>1 DEF ClockAgrees
<1>3. CASE Issue
  <2>1. /\ now' = now /\ ticks' = ticks /\ setBacks' = setBacks
        /\ \A s \in issues' : s \in issues \/ (s.claims.issued = now /\ s.tick = ticks)
    <3>1. now' = now /\ ticks' = ticks /\ setBacks' = setBacks
      BY <1>3, IssueDoes
    <3>2. CASE issues' = issues
      BY <3>1, <3>2
    <3>3. CASE issues' # issues
      <4>1. PICK claims \in SessionClaims :
               /\ claims.issued = now
               /\ issues' = issues \cup {[claims |-> claims, key |-> key, tick |-> ticks]}
        BY <1>3, <3>3, IssueDoes
      <4> QED
        BY <3>1, <4>1
    <3> QED
      BY <3>2, <3>3
  <2> QED
    BY <1>0, <2>1 DEF ClockAgrees
<1>4. CASE UNCHANGED <<now, ticks, setBacks, issues>>
  BY <1>4 DEF ClockAgrees
<1> QED
  BY <1>1, <1>2, <1>3, <1>4
     DEF Next, vars, Restart, Authenticate, Drop, Evaluate, Respond, RespondFails, Settle

\* The directory is checked at every restart.
LEMMA DirectoryStep ==
    ASSUME SessionTypes, DirectoryIsWellFormed, [Next]_vars PROVE DirectoryIsWellFormed'
<1>1. CASE Restart
  <2>1. WellFormed(org', members')
    BY <1>1 DEF Restart, Configure
  <2>2. WellFormed(org', members') = WellFormed(org, members)'
    BY DEF WellFormed
  <2> QED
    BY <2>1, <2>2, TypesStep DEF DirectoryIsWellFormed, SessionTypes
<1>2. CASE UNCHANGED <<org, members>>
  BY <1>2 DEF DirectoryIsWellFormed, WellFormed
<1> QED
  BY <1>1, <1>2
     DEF Next, vars, Tick, SetBack, Issue, Authenticate, Drop, Evaluate, Respond, RespondFails,
         Settle

\* A session held stays one that was signed, of a member, until a restart forgets it.
LEMMA HeldStep ==
    ASSUME SessionTypes, NEW c \in Clients, HeldIsIssued(c), [Next]_vars PROVE HeldIsIssued(c)'
<1>1. CASE Issue
  <2>1. UNCHANGED <<held, members>> /\ issues \subseteq issues'
    BY <1>1, IssueDoes
  <2> QED
    BY <2>1 DEF HeldIsIssued
<1>2. CASE Restart
  BY <1>2 DEF Restart, HeldIsIssued
<1>3. ASSUME NEW x \in Clients, Authenticate(x) PROVE HeldIsIssued(c)'
  <2>1. PICK s \in issues, i \in members :
           held' = [held EXCEPT ![x] = [claims |-> s.claims, identity |-> i]]
    BY <1>3, AuthenticateDoes
  <2>2. UNCHANGED <<issues, members>>
    BY <1>3 DEF Authenticate
  <2> QED
    BY <2>1, <2>2 DEF HeldIsIssued, SessionTypes
<1>4. ASSUME NEW x \in Clients, Drop(x) PROVE HeldIsIssued(c)'
  BY <1>4 DEF Drop, HeldIsIssued, SessionTypes
<1>5. CASE UNCHANGED <<held, members, issues>>
  BY <1>5 DEF HeldIsIssued
<1> QED
  BY <1>1, <1>2, <1>3, <1>4, <1>5
     DEF Next, vars, Tick, SetBack, Evaluate, Respond, RespondFails, Settle

\* What evaluate decides of a session that is held, and why.
LEMMA EvaluateDoes ==
    ASSUME SessionTypes, NEW c \in Clients, Evaluate(c)
    PROVE  /\ held[c] # None /\ pending[c] = None
           /\ UNCHANGED <<now, ticks, setBacks, org, members, issues, held, audit>>
           /\ answer' = [answer EXCEPT ![c] = None]
           /\ \E d \in Decisions :
                 /\ pending' = [pending EXCEPT ![c] = d]
                 /\ d.user = held[c].identity.user
                 /\ d.kind = "granted" => Grants(held[c], d.request)
<1>1. PICK request \in Requests :
        pending' = [pending EXCEPT ![c] =
           [kind |-> IF Grants(held[c], request) THEN "granted" ELSE "denied",
            request |-> request, user |-> held[c].identity.user]]
  BY DEF Evaluate
<1>2. held[c] # None /\ held[c].identity.user \in Users
  BY DEF Evaluate, SessionTypes, Identities
<1> DEFINE d == [kind |-> IF Grants(held[c], request) THEN "granted" ELSE "denied",
                 request |-> request, user |-> held[c].identity.user]
<1>3. /\ d \in Decisions /\ d.user = held[c].identity.user /\ d.request = request
      /\ d.kind = "granted" => Grants(held[c], request)
  BY <1>2 DEF Decisions
<1> QED
  BY <1>1, <1>2, <1>3 DEF Evaluate

\* A grant on its way stays one the directory supports.
LEMMA GrantStep ==
    ASSUME SessionTypes, NEW c \in Clients, HeldIsIssued(c), GrantIsSupported(c), [Next]_vars
    PROVE  GrantIsSupported(c)'
<1>1. CASE Restart
  BY <1>1 DEF Restart, GrantIsSupported
<1>2. ASSUME NEW x \in Clients, Evaluate(x) PROVE GrantIsSupported(c)'
  <2>0. UNCHANGED members /\ held[x] # None
    BY <1>2, EvaluateDoes
  <2>1. PICK d \in Decisions :
           /\ pending' = [pending EXCEPT ![x] = d]
           /\ d.user = held[x].identity.user
           /\ d.kind = "granted" => Grants(held[x], d.request)
    BY <1>2, EvaluateDoes
  <2>2. CASE x = c
    <3>1. pending'[c] = d
      BY <2>1, <2>2 DEF SessionTypes
    <3>2. held[c].identity \in members
      BY <2>0, <2>2 DEF HeldIsIssued
    <3> QED
      BY <2>0, <2>1, <2>2, <3>1, <3>2 DEF GrantIsSupported, Grants
  <2>3. CASE x # c
    <3>1. pending'[c] = pending[c]
      BY <2>1, <2>3 DEF SessionTypes
    <3> QED
      BY <2>0, <3>1 DEF GrantIsSupported
  <2> QED
    BY <2>2, <2>3
<1>3. ASSUME NEW x \in Clients, Respond(x) \/ RespondFails(x) PROVE GrantIsSupported(c)'
  <2>1. UNCHANGED members /\ pending'[c] \in {pending[c], None}
    BY <1>3 DEF Respond, RespondFails, Settle, SessionTypes
  <2> QED
    BY <2>1 DEF GrantIsSupported
<1>4. CASE UNCHANGED <<pending, members>>
  BY <1>4 DEF GrantIsSupported
<1> QED
  BY <1>1, <1>2, <1>3, <1>4 DEF Next, vars, Tick, SetBack, Issue, Authenticate, Drop

\* What the boundary has answered stays in the audit log.
LEMMA AuditedStep ==
    ASSUME SessionTypes, AnsweredIsAudited, [Next]_vars PROVE AnsweredIsAudited'
<1> USE DEF AnsweredIsAudited
<1>1. CASE Restart
  BY <1>1 DEF Restart
<1>2. ASSUME NEW x \in Clients, Drop(x) \/ Evaluate(x) PROVE AnsweredIsAudited'
  <2>1. audit' = audit /\ \A c \in Clients : answer'[c] \in {answer[c], None}
    BY <1>2 DEF Drop, Evaluate, SessionTypes
  <2> QED
    BY <2>1
<1>3. ASSUME NEW x \in Clients, Respond(x) PROVE AnsweredIsAudited'
  <2>1. /\ audit \subseteq audit' /\ answer' = [answer EXCEPT ![x] = pending[x]]
        /\ IsAudited(pending[x]) => pending[x] \in audit'
    BY <1>3 DEF Respond, Settle
  <2> QED
    BY <2>1 DEF IsAudited, SessionTypes
<1>4. ASSUME NEW x \in Clients, RespondFails(x) PROVE AnsweredIsAudited'
  <2>1. /\ audit' = audit
        /\ answer' = [answer EXCEPT ![x] = [pending[x] EXCEPT !.kind = "error"]]
    BY <1>4 DEF RespondFails, Settle
  <2>2. [pending[x] EXCEPT !.kind = "error"].kind = "error"
    BY <1>4 DEF RespondFails, SessionTypes, Decisions
  <2> QED
    BY <2>1, <2>2 DEF SessionTypes
<1>5. CASE UNCHANGED <<answer, audit>>
  BY <1>5
<1> QED
  BY <1>1, <1>2, <1>3, <1>4, <1>5 DEF Next, vars, Tick, SetBack, Issue, Authenticate

\* Every step keeps the invariant.
LEMMA SInvStep == ASSUME SessionTypes, SInv, [Next]_vars PROVE SInv'
  BY ClockStep, DirectoryStep, HeldStep, GrantStep, AuditedStep DEF SInv

-----------------------------------------------------------------------------
(* The theorems                                                            *)

\* The invariant of sessions and of the boundary holds in every reachable state.
THEOREM SessionInvariant == Spec => [](SessionTypes /\ SInv)
<1>1. SessionTypes /\ SInv /\ [Next]_vars => SessionTypes' /\ SInv'
  BY TypesStep, SInvStep
<1> QED
  BY <1>1, TypesInit, SInvInit, PTL DEF Spec

\* The type invariant, in every reachable state.
THEOREM TypeCorrect == Spec => []TypeOK
<1>1. SessionTypes /\ SInv => TypeOK
  BY DEF SessionTypes, SInv, HeldIsIssued, TypeOK
<1> QED
  BY <1>1, SessionInvariant, PTL

\* Every denial, and everything told about a production approval, is in the audit log,
\* although the append can fail (DemoAuthorizationBoundary::authorize).
THEOREM AnswersAreAudited == Spec => []AnsweredIsAudited
<1>1. SInv => AnsweredIsAudited
  BY DEF SInv
<1> QED
  BY <1>1, SessionInvariant, PTL

\* Whoever a process authenticates presents claims exactly as that process's key signed
\* them, while they are valid in seconds that really passed, unless the clock was set back
\* (SessionAuthority::authenticate).
THEOREM NobodyForgesASession == Spec => AuthenticatedIsGenuine
<1>1. ASSUME SessionTypes, SInv, [Next]_vars, NEW c \in Clients, held[c] = None, held'[c] # None
      PROVE  \E s \in issues :
                /\ s.claims = held'[c].claims /\ s.key = key
                /\ setBacks = 0 => ticks - s.tick < s.claims.expires - s.claims.issued
  <2>1. Authenticate(c)
    <3>1. ASSUME NEW x \in Clients, Authenticate(x) PROVE x = c
      BY <1>1, <3>1 DEF Authenticate, SessionTypes
    <3> QED
      BY <1>1, <3>1 DEF Next, vars, Tick, SetBack, Issue, Restart, Drop, Evaluate, Respond,
                        RespondFails, Settle, SessionTypes
  <2>2. PICK s \in issues, i \in members :
           /\ s.key = key /\ IsActive(s.claims)
           /\ held' = [held EXCEPT ![c] = [claims |-> s.claims, identity |-> i]]
    BY <1>1, <2>1, AuthenticateDoes
  <2>3. held'[c].claims = s.claims
    BY <1>1, <2>2 DEF SessionTypes
  <2>4. setBacks = 0 => ticks - s.tick < s.claims.expires - s.claims.issued
    <3>1. /\ now \in Nat /\ ticks \in Nat /\ s.tick \in Nat
          /\ s.claims.issued \in Nat /\ s.claims.expires \in Nat
      BY <1>1, SessionsAssumption DEF SessionTypes, SessionClaims, Times
    <3>2. setBacks = 0 => now - s.claims.issued = ticks - s.tick
      BY <1>1 DEF SInv, ClockAgrees
    <3> QED
      BY <2>2, <3>1, <3>2 DEF IsActive
  <2> QED
    BY <2>2, <2>3, <2>4
<1>2. SessionTypes /\ SInv /\ [Next]_vars =>
         [\A c \in Clients : held[c] = None /\ held'[c] # None =>
             \E s \in issues :
                /\ s.claims = held'[c].claims /\ s.key = key
                /\ setBacks = 0 => ticks - s.tick < s.claims.expires - s.claims.issued]_vars
  BY <1>1
<1> QED
  BY <1>2, SessionInvariant, PTL DEF Spec, AuthenticatedIsGenuine

\* A grant is given to a member of the directory in force whose role has the capability,
\* also for a session that was signed before a restart (the checks of authenticate).
THEOREM GrantsAreOfTheDirectory == Spec => GrantIsOfTheDirectory
<1>1. ASSUME SessionTypes, SInv, [Next]_vars, NEW c \in Clients,
             answer'[c] # answer[c], answer'[c] # None, answer'[c].kind = "granted"
      PROVE  \E i \in members' :
                /\ i.user = answer'[c].user /\ i.org = org'
                /\ answer'[c].request.capability \in Capabilities[i.role]
  <2>1. Respond(c)
    <3>1. ASSUME NEW x \in Clients, Respond(x) \/ RespondFails(x) PROVE x = c
      BY <1>1, <3>1 DEF Respond, RespondFails, Settle, SessionTypes
    <3>2. ~RespondFails(c)
      <4>1. ASSUME RespondFails(c) PROVE FALSE
        <5>1. answer'[c] = [pending[c] EXCEPT !.kind = "error"] /\ pending[c] \in Decisions
          BY <1>1, <4>1 DEF RespondFails, Settle, SessionTypes
        <5> QED
          BY <1>1, <5>1 DEF Decisions
      <4> QED
        BY <4>1
    <3> QED
      BY <1>1, <3>1, <3>2 DEF Next, vars, Tick, SetBack, Issue, Restart, Authenticate, Drop,
                              Evaluate, SessionTypes
  <2>2. answer'[c] = pending[c] /\ UNCHANGED <<members, org>> /\ pending[c] # None
    BY <1>1, <2>1 DEF Respond, Settle, SessionTypes
  <2>3. GrantIsSupported(c) /\ \A i \in members : i.org = org
    BY <1>1 DEF SInv, DirectoryIsWellFormed, WellFormed
  <2> QED
    BY <1>1, <2>2, <2>3 DEF GrantIsSupported
<1>2. SessionTypes /\ SInv /\ [Next]_vars =>
         [\A c \in Clients :
             answer'[c] # answer[c] /\ answer'[c] # None /\ answer'[c].kind = "granted" =>
                \E i \in members' :
                   /\ i.user = answer'[c].user /\ i.org = org'
                   /\ answer'[c].request.capability \in Capabilities[i.role]]_vars
  BY <1>1
<1> QED
  BY <1>2, SessionInvariant, PTL DEF Spec, GrantIsOfTheDirectory

\* A production approval is granted within the window of the session's issue, in seconds
\* that really passed, as long as the clock was never set back (ReauthPolicy::evaluate).
THEOREM ProductionGrantsAreRecent == Spec => ProductionGrantIsRecent
<1>1. ASSUME SessionTypes, SInv, [Next]_vars, setBacks = 0, NEW c \in Clients,
             pending[c] = None, pending'[c] # None, pending'[c].kind = "granted",
             pending'[c].request.sensitivity = "ProductionApproval"
      PROVE  \E s \in issues : s.claims = held[c].claims /\ ticks - s.tick <= Window
  <2>1. Evaluate(c)
    <3>1. ASSUME NEW x \in Clients, Evaluate(x) PROVE x = c
      BY <1>1, <3>1, EvaluateDoes DEF SessionTypes
    <3> QED
      BY <1>1, <3>1 DEF Next, vars, Tick, SetBack, Issue, Restart, Authenticate, Drop, Respond,
                        RespondFails, Settle, SessionTypes
  <2>2. PICK d \in Decisions :
           /\ pending' = [pending EXCEPT ![c] = d]
           /\ d.kind = "granted" => Grants(held[c], d.request)
    BY <1>1, <2>1, EvaluateDoes
  <2>3. pending'[c] = d /\ held[c] # None
    BY <1>1, <2>1, <2>2, EvaluateDoes DEF SessionTypes
  <2>4. now <= held[c].claims.issued + Window
    BY <1>1, <2>2, <2>3 DEF Grants
  <2>5. PICK s \in issues : s.claims = held[c].claims
    BY <1>1, <2>3 DEF SInv, HeldIsIssued
  <2>6. /\ now \in Nat /\ ticks \in Nat /\ s.tick \in Nat /\ s.claims.issued \in Nat
        /\ Window \in Nat
    BY <1>1, SessionsAssumption DEF SessionTypes, SessionClaims, Times
  <2>7. now - s.claims.issued = ticks - s.tick
    BY <1>1 DEF SInv, ClockAgrees
  <2>8. ticks - s.tick <= Window
    BY <2>4, <2>5, <2>6, <2>7
  <2> QED
    BY <2>5, <2>8
<1>2. SessionTypes /\ SInv /\ [Next]_vars =>
         [setBacks = 0 =>
           \A c \in Clients :
             /\ pending[c] = None /\ pending'[c] # None
             /\ pending'[c].kind = "granted"
             /\ pending'[c].request.sensitivity = "ProductionApproval"
             => \E s \in issues : s.claims = held[c].claims /\ ticks - s.tick <= Window]_vars
  BY <1>1
<1> QED
  BY <1>2, SessionInvariant, PTL DEF Spec, ProductionGrantIsRecent

\* Issuing panics only when the clock has reached its largest value: no lifetime a caller
\* asks for makes the window empty (the clamp in SessionAuthority::issue).
THEOREM OnlyTheEndOfTimePanics == Spec => PanicsOnlyAtTheEndOfTime
<1>1. ASSUME SessionTypes, [Next]_vars, panicked', ~panicked PROVE now = MaxU64
  <2>1. CASE Issue
    BY <1>1, <2>1, IssueDoes
  <2>2. CASE Restart
    BY <1>1, <2>2 DEF Restart
  <2>3. CASE UNCHANGED panicked
    BY <1>1, <2>3
  <2> QED
    BY <1>1, <2>1, <2>2, <2>3 DEF Next, vars, Tick, SetBack, Authenticate, Drop, Evaluate,
                                  Respond, RespondFails, Settle
<1>2. SessionTypes /\ SInv /\ [Next]_vars => [panicked' /\ ~panicked => now = MaxU64]_vars
  BY <1>1
<1> QED
  BY <1>2, SessionInvariant, PTL DEF Spec, PanicsOnlyAtTheEndOfTime

===========================================================================
