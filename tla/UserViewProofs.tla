----------------------------- MODULE UserViewProofs -----------------------------
(***************************************************************************)
(* Proofs about what users are shown: the roles of a case and the searches *)
(* they allow (CaseRoles), the notifications and their e-mails             *)
(* (Notifications), and the pages of the listings (Listings).              *)
(***************************************************************************)
EXTENDS Notifications, Listings, FiniteSetTheorems, WellFoundedInduction, TLAPS

------------------------------------------------------------------------------
(* The roles.                                                               *)

\* A handler that has a change to record works on a pair of a user.
LEMMA ReqTypes ==
  ASSUME RolesTypeOK, NEW h \in Handlers
  PROVE  /\ pc[h] = "granted" => req[h][1] \in Users /\ req[h][2] \in Roles
                                 /\ req[h] = <<req[h][1], req[h][2]>>
         /\ pc[h] \in {"listed", "revoked"} => req[h][1] \in Users
                                                /\ req[h] = <<req[h][1], req[h][2]>>
  BY DEF RolesTypeOK

\* The initial roles are well typed, and the log agrees with them.
LEMMA RoleLogInit == RolesInit => RoleLogInv
  BY DEF RolesInit, RoleLogInv, RolesTypeOK, OneUnrecorded, LogLacksChange,
         LogMatchesRoles, Unrecorded, RolesOf

\* Every step of a handler keeps the roles, the log and the handlers well typed.
LEMMA HandlerTypes ==
  ASSUME RolesTypeOK, NEW h \in Handlers, HandlerStep(h)
  PROVE  RolesTypeOK'
  <1>1. ASSUME NEW u \in Users, ListByCaseID(h, u) PROVE RolesTypeOK'
    <2>1. PICK r \in Roles \cup {NoRole} : Goto(h, "listed", <<u, r>>)
      BY <1>1 DEF ListByCaseID, RolesOf
    <2>2. QED
      BY <1>1, <2>1 DEF ListByCaseID, Goto, RolesTypeOK
  <1>2. ASSUME NEW u \in Users, NEW r \in Roles, Assign(h, u, r) PROVE RolesTypeOK'
    BY <1>2 DEF Assign, Change, Goto, RolesTypeOK
  <1>3. CASE RecordGranted(h)
    BY <1>3, ReqTypes DEF RecordGranted, Return, Goto, RolesTypeOK
  <1>4. CASE Revoke(h)
    <2>1. req[h][1] \in Users /\ req[h] \in Users \X (Roles \cup {NoRole})
      BY <1>4, ReqTypes DEF Revoke, RolesTypeOK
    <2>2. /\ roles' \subseteq Users \X Roles /\ told' \subseteq Users \X Roles
          /\ unnamed' \subseteq Users \X Roles /\ muddled' \subseteq Users
      BY <1>4, <2>1 DEF Revoke, Change, RolesTypeOK, RolesOf
    <2>3. QED
      BY <1>4, <2>1, <2>2 DEF Revoke, Return, Goto, RolesTypeOK
  <1>5. CASE RecordRevoked(h)
    BY <1>5, ReqTypes DEF RecordRevoked, Return, Goto, RolesTypeOK
  <1>6. QED
    BY <1>1, <1>2, <1>3, <1>4, <1>5 DEF HandlerStep

\* The steps of a search leave the handlers alone.
LEMMA SearchLeavesRoles == SearchStep => UNCHANGED roleVars
  BY DEF SearchStep, GetUserCaseIDs, GetUserCaseRoles, SearchEvidence, SearchFails

\* What a change of u's roles does to the handlers: u is muddled if another
\* change of u is unrecorded, and nobody else is touched.
LEMMA ChangeMuddles ==
  ASSUME NEW u, NEW new, Change(u, new)
  PROVE  /\ roles' = new /\ told' = told
         /\ Unrecorded(u) # {} => u \in muddled'
         /\ muddled \subseteq muddled' /\ muddled' \subseteq muddled \cup {u}
  BY DEF Change

\* Among the users that are not muddled, each step of a handler leaves at most one
\* change unrecorded and the log short of it alone.
LEMMA RoleLogStep ==
  ASSUME RoleLogInv, NEW h \in Handlers, HandlerStep(h)
  PROVE  RoleLogInv'
  <1>0. RolesTypeOK /\ RolesTypeOK'
    BY HandlerTypes DEF RoleLogInv
  <1>1. ASSUME NEW u \in Users, ListByCaseID(h, u) PROVE RoleLogInv'
    <2>1. /\ UNCHANGED <<roles, told, unnamed, muddled>>
          /\ pc[h] = "idle" /\ pc'[h] = "listed"
          /\ \A g \in Handlers \ {h} : pc'[g] = pc[g] /\ req'[g] = req[g]
      BY <1>0, <1>1 DEF ListByCaseID, Goto, RolesTypeOK
    <2>2. \A v \in Users : Unrecorded(v)' = Unrecorded(v)
      BY <2>1 DEF Unrecorded
    <2>3. OneUnrecorded' /\ LogMatchesRoles'
      BY <2>1, <2>2 DEF RoleLogInv, OneUnrecorded, LogMatchesRoles
    <2>4. LogLacksChange'
      BY <2>1 DEF RoleLogInv, LogLacksChange
    <2>5. QED
      BY <1>0, <2>3, <2>4 DEF RoleLogInv
  <1>2. ASSUME NEW u \in Users, NEW r \in Roles, Assign(h, u, r) PROVE RoleLogInv'
    <2>1. /\ pc[h] = "idle" /\ pc'[h] = "granted" /\ req'[h] = <<u, r>>
          /\ \A g \in Handlers \ {h} : pc'[g] = pc[g] /\ req'[g] = req[g]
          /\ roles' = roles \cup {<<u, r>>} /\ unnamed' = unnamed \ {<<u, r>>} /\ told' = told
          /\ Unrecorded(u) # {} => u \in muddled'
          /\ muddled \subseteq muddled' /\ muddled' \subseteq muddled \cup {u}
      BY <1>0, <1>2, ChangeMuddles DEF Assign, Goto, RolesTypeOK
    <2>2. Unrecorded(u)' = Unrecorded(u) \cup {h}
      BY <2>1 DEF Unrecorded
    <2>3. \A v \in Users \ {u} : Unrecorded(v)' = Unrecorded(v)
      BY <2>1 DEF Unrecorded
    <2>4. OneUnrecorded'
      BY <2>1, <2>2, <2>3 DEF RoleLogInv, OneUnrecorded
    <2>5. LogMatchesRoles'
      BY <2>1, <2>2, <2>3 DEF RoleLogInv, LogMatchesRoles
    <2>6. LogLacksChange'
      <3> SUFFICES ASSUME NEW g \in Handlers, pc'[g] \in {"granted", "revoked"},
                          req'[g][1] \notin muddled', NEW s \in Roles
                   PROVE  <<req'[g][1], s>> \in roles' \cup unnamed' <=>
                            IF pc'[g] = "granted"
                            THEN <<req'[g][1], s>> \in told' \/ s = req'[g][2]
                            ELSE <<req'[g][1], s>> \in told' /\ s # req'[g][2]
        BY DEF LogLacksChange
      <3>1. CASE g = h
        <4>1. <<u, s>> \in roles \cup unnamed <=> <<u, s>> \in told
          BY <2>1, <3>1 DEF RoleLogInv, LogMatchesRoles
        <4>2. QED
          BY <2>1, <3>1, <4>1
      <3>2. CASE g # h
        <4>1. req[g][1] # u
          BY <2>1, <3>2 DEF Unrecorded
        <4>2. QED
          BY <2>1, <3>2, <4>1 DEF RoleLogInv, LogLacksChange
      <3>3. QED
        BY <3>1, <3>2
    <2>7. QED
      BY <1>0, <2>4, <2>5, <2>6 DEF RoleLogInv
  <1>3. CASE RecordGranted(h) \/ RecordRevoked(h)
    <2> DEFINE u == req[h][1]
    <2>1. /\ pc[h] \in {"granted", "revoked"} /\ pc'[h] = "idle" /\ u \in Users
          /\ \A g \in Handlers \ {h} : pc'[g] = pc[g] /\ req'[g] = req[g]
          /\ roles' = roles /\ unnamed' = unnamed
      BY <1>0, <1>3, ReqTypes DEF RecordGranted, RecordRevoked, Return, Goto, RolesTypeOK
    <2>2. PICK v \in Users : v = u
      BY <2>1
    <2>3. /\ muddled \subseteq muddled' /\ muddled' \subseteq muddled \cup {v}
          /\ \A w \in Users \ {v} : \A s \in Roles : <<w, s>> \in told' <=> <<w, s>> \in told
      BY <1>0, <1>3, <2>2, ReqTypes DEF RecordGranted, RecordRevoked
    <2>4. v \in muddled' \/ \A s \in Roles : <<v, s>> \in told' <=> <<v, s>> \in roles \cup unnamed
      <3>0. req[h] = <<v, req[h][2]>>
        BY <1>0, <2>1, <2>2, ReqTypes
      <3>1. CASE v \in muddled
        BY <2>3, <3>1
      <3>2. CASE v \notin muddled /\ RecordGranted(h)
        <4>1. \A s \in Roles : <<v, s>> \in roles \cup unnamed <=> <<v, s>> \in told \/ s = req[h][2]
          BY <2>2, <3>2 DEF RoleLogInv, LogLacksChange, RecordGranted
        <4>2. QED
          BY <2>2, <3>0, <3>2, <4>1 DEF RecordGranted
      <3>3. CASE v \notin muddled /\ RecordRevoked(h)
        <4>1. \A s \in Roles : <<v, s>> \in roles \cup unnamed <=> <<v, s>> \in told /\ s # req[h][2]
          BY <2>2, <3>3 DEF RoleLogInv, LogLacksChange, RecordRevoked
        <4>2. QED
          BY <2>2, <3>0, <3>3, <4>1 DEF RecordRevoked
      <3>4. QED
        BY <1>3, <3>1, <3>2, <3>3
    <2>5. /\ Unrecorded(v)' = Unrecorded(v) \ {h} /\ h \in Unrecorded(v)
          /\ \A w \in Users \ {v} : Unrecorded(w)' = Unrecorded(w)
      BY <2>1, <2>2 DEF Unrecorded
    <2>6. OneUnrecorded'
      BY <2>3, <2>5 DEF RoleLogInv, OneUnrecorded
    <2>7. LogMatchesRoles'
      BY <2>1, <2>3, <2>4, <2>5 DEF RoleLogInv, LogMatchesRoles
    <2>8. LogLacksChange'
      <3> SUFFICES ASSUME NEW g \in Handlers, pc'[g] \in {"granted", "revoked"},
                          req'[g][1] \notin muddled', NEW s \in Roles
                   PROVE  <<req'[g][1], s>> \in roles' \cup unnamed' <=>
                            IF pc'[g] = "granted"
                            THEN <<req'[g][1], s>> \in told' \/ s = req'[g][2]
                            ELSE <<req'[g][1], s>> \in told' /\ s # req'[g][2]
        BY DEF LogLacksChange
      <3>1. g # h /\ pc'[g] = pc[g] /\ req'[g] = req[g] /\ req[g][1] \in Users
        BY <1>0, <2>1, ReqTypes
      <3>2. req[g][1] # v
        BY <2>3, <2>5, <3>1 DEF RoleLogInv, OneUnrecorded, Unrecorded
      <3>3. QED
        BY <2>1, <2>3, <3>1, <3>2 DEF RoleLogInv, LogLacksChange
    <2>9. QED
      BY <1>0, <2>6, <2>7, <2>8 DEF RoleLogInv
  <1>4. CASE Revoke(h)
    <2>1. PICK u \in Users : u = req[h][1]
      BY <1>0, <1>4, ReqTypes DEF Revoke
    <2>2. CASE RolesOf(u) # {}
      <3>1. /\ pc[h] = "listed" /\ pc'[h] = "revoked" /\ req'[h] = req[h]
            /\ \A g \in Handlers \ {h} : pc'[g] = pc[g] /\ req'[g] = req[g]
            /\ roles' = roles \ ({u} \X Roles) /\ told' = told
            /\ unnamed' = (unnamed \cup ({u} \X RolesOf(u))) \ {req[h]}
            /\ Unrecorded(u) # {} => u \in muddled'
            /\ muddled \subseteq muddled' /\ muddled' \subseteq muddled \cup {u}
        BY <1>0, <1>4, <2>1, <2>2, ChangeMuddles DEF Revoke, Goto, RolesTypeOK
      <3>2. /\ Unrecorded(u)' = Unrecorded(u) \cup {h}
            /\ \A v \in Users \ {u} : Unrecorded(v)' = Unrecorded(v)
        BY <2>1, <3>1 DEF Unrecorded
      <3>3. PICK named \in Roles \cup {NoRole} : req[h] = <<u, named>>
        BY <1>0, <2>1, <3>1 DEF RolesTypeOK
      <3>8. \A s \in Roles : <<u, s>> \in roles' \cup unnamed'
                               <=> <<u, s>> \in roles \cup unnamed /\ s # named
        BY <3>1, <3>3 DEF RolesOf
      <3>9. \A v \in Users \ {u} : \A s \in Roles : <<v, s>> \in roles' \cup unnamed'
                                                       <=> <<v, s>> \in roles \cup unnamed
        BY <3>1, <3>3
      <3>4. OneUnrecorded'
        BY <3>1, <3>2 DEF RoleLogInv, OneUnrecorded
      <3>5. LogMatchesRoles'
        BY <3>1, <3>2, <3>9 DEF RoleLogInv, LogMatchesRoles
      <3>6. LogLacksChange'
        <4> SUFFICES ASSUME NEW g \in Handlers, pc'[g] \in {"granted", "revoked"},
                            req'[g][1] \notin muddled', NEW s \in Roles
                     PROVE  <<req'[g][1], s>> \in roles' \cup unnamed' <=>
                              IF pc'[g] = "granted"
                              THEN <<req'[g][1], s>> \in told' \/ s = req'[g][2]
                              ELSE <<req'[g][1], s>> \in told' /\ s # req'[g][2]
          BY DEF LogLacksChange
        <4>1. CASE g = h
          <5>1. Unrecorded(u) = {} /\ u \notin muddled /\ req'[h] = <<u, named>>
            BY <3>1, <3>3, <4>1
          <5>2. <<u, s>> \in roles \cup unnamed <=> <<u, s>> \in told
            BY <5>1 DEF RoleLogInv, LogMatchesRoles
          <5>3. QED
            BY <3>1, <3>8, <4>1, <5>1, <5>2
        <4>2. CASE g # h
          <5>1. req[g][1] # u /\ req[g][1] \in Users
            BY <1>0, <3>1, <4>2, ReqTypes DEF Unrecorded
          <5>2. QED
            BY <3>1, <3>9, <4>2, <5>1 DEF RoleLogInv, LogLacksChange
        <4>3. QED
          BY <4>1, <4>2
      <3>7. QED
        BY <1>0, <3>4, <3>5, <3>6 DEF RoleLogInv
    <2>3. CASE RolesOf(u) = {}
      <3>1. /\ UNCHANGED <<roles, told, unnamed, muddled>>
            /\ pc[h] = "listed" /\ pc'[h] = "idle"
            /\ \A g \in Handlers \ {h} : pc'[g] = pc[g] /\ req'[g] = req[g]
        BY <1>0, <1>4, <2>1, <2>3 DEF Revoke, Return, Goto, RolesTypeOK
      <3>2. \A v \in Users : Unrecorded(v)' = Unrecorded(v)
        BY <3>1 DEF Unrecorded
      <3>3. OneUnrecorded' /\ LogMatchesRoles'
        BY <3>1, <3>2 DEF RoleLogInv, OneUnrecorded, LogMatchesRoles
      <3>4. LogLacksChange'
        BY <3>1 DEF RoleLogInv, LogLacksChange
      <3>5. QED
        BY <1>0, <3>3, <3>4 DEF RoleLogInv
    <2>4. QED
      BY <2>2, <2>3
  <1>5. QED
    BY <1>1, <1>2, <1>3, <1>4 DEF HandlerStep

\* The notifications, their mails and the searches leave the roles alone.
LEMMA RoleLogKept == RoleLogInv /\ UNCHANGED roleVars => RoleLogInv'
  BY DEF RoleLogInv, RolesTypeOK, OneUnrecorded, LogLacksChange, LogMatchesRoles,
         Unrecorded, RolesOf, roleVars

\* The custody log never denies a role that a user has, and claims besides only
\* what a revocation has ended without naming it, but for users whose events are
\* still to come, were lost or overtook each other.
THEOREM LogTellsRoles == Spec => []LogMatchesRoles
  <1>1. Init => RoleLogInv
    BY RoleLogInit DEF Init
  <1>2. RoleLogInv /\ [Next]_vars => RoleLogInv'
    BY RoleLogStep, RoleLogKept, SearchLeavesRoles
    DEF Next, RolesNext, vars, caseRoleVars
  <1>3. RoleLogInv => LogMatchesRoles
    BY DEF RoleLogInv
  <1>4. QED
    BY <1>1, <1>2, <1>3, PTL DEF Spec

------------------------------------------------------------------------------
(* The searches.                                                            *)

\* A change of u's roles adds the new set of roles to what a search of u has seen,
\* as long as that search reads.
LEMMA ChangeSeen ==
  ASSUME SearchInv, NEW u \in Users, NEW new, Change(u, new),
         \A v \in Users \ {u} : {r \in Roles : <<v, r>> \in new} = RolesOf(v)
  PROVE  SearchInv'
  <1>1. sought' = sought /\ seen \subseteq seen' /\ roles' = new
    BY DEF Change
  <1>2. sought.stage = "roles" => RolesOf(sought.user)' \in seen'
    <2> SUFFICES ASSUME sought.stage = "roles" PROVE RolesOf(sought.user)' \in seen'
      OBVIOUS
    <2>1. CASE sought.user = u
      BY <1>1, <2>1 DEF Change, RolesOf
    <2>2. CASE sought.user \in Users \ {u}
      BY <1>1, <2>2 DEF SearchInv, RolesOf
    <2>3. CASE sought.user \notin Users
      BY <1>1, <2>3 DEF SearchInv
    <2>4. QED
      BY <2>1, <2>2, <2>3
  <1>3. QED
    BY <1>1, <1>2 DEF SearchInv, AnswerFitsRoles

\* No handler disturbs what a search has read.
LEMMA SearchMeetsHandler ==
  ASSUME RolesTypeOK, SearchInv, NEW h \in Handlers, HandlerStep(h)
  PROVE  SearchInv'
  <1>1. CASE UNCHANGED <<roles, searchVars>>
    BY <1>1 DEF SearchInv, AnswerFitsRoles, RolesOf, searchVars
  <1>2. ASSUME NEW u \in Users, NEW r \in Roles, Assign(h, u, r) PROVE SearchInv'
    <2>1. \A v \in Users \ {u} : {s \in Roles : <<v, s>> \in roles \cup {<<u, r>>}} = RolesOf(v)
      BY DEF RolesOf
    <2>2. QED
      BY <1>2, <2>1, ChangeSeen DEF Assign
  <1>3. ASSUME Revoke(h), ~ UNCHANGED <<roles, searchVars>> PROVE SearchInv'
    <2>1. PICK u \in Users : u = req[h][1]
      BY <1>3, ReqTypes DEF Revoke
    <2>2. Change(u, roles \ ({u} \X Roles))
      BY <1>3, <2>1 DEF Revoke, searchVars
    <2>3. \A v \in Users \ {u} : {s \in Roles : <<v, s>> \in roles \ ({u} \X Roles)} = RolesOf(v)
      BY DEF RolesOf
    <2>4. QED
      BY <2>2, <2>3, ChangeSeen
  <1>4. QED
    BY <1>1, <1>2, <1>3
    DEF HandlerStep, ListByCaseID, RecordGranted, RecordRevoked, searchVars

\* A search goes on with what it has read, and answers by it.
LEMMA SearchGoesOn == SearchInv /\ SearchStep => SearchInv'
  <1> SUFFICES ASSUME SearchInv, SearchStep PROVE SearchInv'
    OBVIOUS
  <1>0. /\ sought \in [stage : {"idle", "roles", "query", "answered"}, user : Users \cup {NoUser},
                       disclosedOnly : BOOLEAN, answer : {"none", "nothing", "disclosed", "all"}]
        /\ UNCHANGED roles
    BY SearchLeavesRoles DEF SearchInv, roleVars
  <1>1. ASSUME NEW u \in Users, GetUserCaseIDs(u) PROVE SearchInv'
    <2>1. seen' = {RolesOf(u)} /\ RolesOf(u)' = RolesOf(u)
      BY <1>0, <1>1 DEF GetUserCaseIDs, RolesOf
    <2>2. CASE RolesOf(u) = {}
      <3>1. sought' = [stage |-> "answered", user |-> u, disclosedOnly |-> FALSE, answer |-> "nothing"]
        BY <1>1, <2>2 DEF GetUserCaseIDs, NoSearch
      <3>2. QED
        BY <3>1 DEF SearchInv, AnswerFitsRoles
    <2>3. CASE RolesOf(u) # {}
      <3>1. sought' = [stage |-> "roles", user |-> u, disclosedOnly |-> FALSE, answer |-> "none"]
        BY <1>1, <2>3 DEF GetUserCaseIDs, NoSearch
      <3>2. QED
        BY <2>1, <2>3, <3>1 DEF SearchInv, AnswerFitsRoles
    <2>4. QED
      BY <2>2, <2>3
  <1>2. CASE GetUserCaseRoles
    <2>1. seen' = seen /\ sought.stage = "roles"
      BY <1>2 DEF GetUserCaseRoles
    <2>2. ASSUME NEW r \in RolesOf(sought.user),
                 sought' = [sought EXCEPT !.stage = "query", !.disclosedOnly = (r = Defence)]
          PROVE  SearchInv'
      <3>1. IF sought'.disclosedOnly THEN Defence \in RolesOf(sought.user)
                                     ELSE RolesOf(sought.user) \ {Defence} # {}
        BY <1>0, <2>2
      <3>2. RolesOf(sought.user) \in seen
        BY <2>1 DEF SearchInv
      <3>3. sought' \in [stage : {"idle", "roles", "query", "answered"}, user : Users \cup {NoUser},
                         disclosedOnly : BOOLEAN, answer : {"none", "nothing", "disclosed", "all"}]
        BY <1>0, <2>2
      <3>4. /\ sought'.stage = "query" /\ sought'.user = sought.user
            /\ sought'.answer = sought.answer
        BY <1>0, <2>2
      <3>5. QED
        BY <2>1, <3>1, <3>2, <3>3, <3>4 DEF SearchInv, AnswerFitsRoles
    <2>3. ASSUME RolesOf(sought.user) = {}, sought' = [sought EXCEPT !.stage = "query"]
          PROVE  SearchInv'
      <3>1. {} \in seen
        BY <2>1, <2>3 DEF SearchInv
      <3>2. ~ sought'.disclosedOnly /\ sought'.stage = "query" /\ sought'.answer = sought.answer
        BY <1>0, <2>1, <2>3 DEF SearchInv
      <3>3. QED
        BY <1>0, <2>1, <2>3, <3>1, <3>2 DEF SearchInv, AnswerFitsRoles
    <2>4. QED
      BY <1>2, <2>2, <2>3 DEF GetUserCaseRoles
  <1>3. CASE SearchEvidence
    <2>1. seen' = seen /\ sought.stage = "query"
      BY <1>3 DEF SearchEvidence
    <2>2. /\ sought'.stage = "answered"
          /\ sought'.answer = IF sought.disclosedOnly THEN "disclosed" ELSE "all"
          /\ sought' \in [stage : {"idle", "roles", "query", "answered"}, user : Users \cup {NoUser},
                          disclosedOnly : BOOLEAN, answer : {"none", "nothing", "disclosed", "all"}]
      BY <1>0, <1>3 DEF SearchEvidence
    <2>3. QED
      BY <2>1, <2>2 DEF SearchInv, AnswerFitsRoles
  <1>4. CASE SearchFails
    <2>1. /\ sought'.stage = "answered" /\ sought'.answer = "nothing"
          /\ sought' \in [stage : {"idle", "roles", "query", "answered"}, user : Users \cup {NoUser},
                          disclosedOnly : BOOLEAN, answer : {"none", "nothing", "disclosed", "all"}]
      BY <1>0, <1>4 DEF SearchFails
    <2>2. QED
      BY <2>1 DEF SearchInv, AnswerFitsRoles
  <1>5. QED
    BY <1>1, <1>2, <1>3, <1>4 DEF SearchStep

\* A search never gives documents to a user who had no role, nor all of them to a
\* user who had the defence's alone, from its first read of the roles to its second.
THEOREM AnswersFitRoles == Spec => []AnswerFitsRoles
  <1> DEFINE Inv == RoleLogInv /\ SearchInv
  <1>1. Init => Inv
    BY RoleLogInit DEF Init, RolesInit, SearchInv, NoSearch, AnswerFitsRoles
  <1>2. Inv /\ [Next]_vars => Inv'
    <2> SUFFICES ASSUME RoleLogInv, SearchInv, [Next]_vars PROVE RoleLogInv' /\ SearchInv'
      OBVIOUS
    <2>1. ASSUME NEW h \in Handlers, HandlerStep(h) PROVE RoleLogInv' /\ SearchInv'
      BY <2>1, RoleLogStep, SearchMeetsHandler DEF RoleLogInv
    <2>2. CASE SearchStep
      BY <2>2, SearchLeavesRoles, RoleLogKept, SearchGoesOn
    <2>3. CASE UNCHANGED caseRoleVars
      BY <2>3, RoleLogKept
      DEF caseRoleVars, roleVars, searchVars, SearchInv, AnswerFitsRoles, RolesOf
    <2>4. QED
      BY <2>1, <2>2, <2>3 DEF Next, RolesNext, vars
  <1>3. Inv => AnswerFitsRoles
    BY DEF SearchInv
  <1>4. QED
    BY <1>1, <1>2, <1>3, PTL DEF Spec

------------------------------------------------------------------------------
(* The notifications.                                                       *)

\* Users, whoever is concerned and however many lists name them, are in the list
\* of recipients exactly once, and nobody else is.
LEMMA RecipientsOnce ==
  ASSUME NEW type \in Types, NEW target \in Users
  PROVE  ResolveRecipients(type, target)
           = [u \in Users |-> IF u \in Concerned(type, target) THEN 1 ELSE 0]
  <1>1. CASE type \in {"evidence_uploaded", "legal_hold_changed"}
    BY <1>1 DEF ResolveRecipients, Concerned, Once
  <1>2. CASE type = "user_added_to_case"
    BY <1>2 DEF ResolveRecipients, Concerned, Once
  <1>3. CASE type = "integrity_warning"
    <2> DEFINE b == Both(Once(Admins), Once(GetCaseUserIDs))
    <2>1. \A u \in Users : b[u] > 0 <=> u \in Admins \cup GetCaseUserIDs
      BY DEF Both, Once
    <2>2. DeduplicateStrings(b)
            = [u \in Users |-> IF u \in Admins \cup GetCaseUserIDs THEN 1 ELSE 0]
      <3> HIDE DEF b
      <3> QED BY <2>1 DEF DeduplicateStrings, Once
    <2>3. QED
      BY <1>3, <2>2 DEF ResolveRecipients, Concerned
  <1>4. CASE type \in {"retention_expiring", "backup_failed"}
    BY <1>4 DEF ResolveRecipients, Concerned, Once
  <1>5. QED
    BY <1>1, <1>2, <1>3, <1>4 DEF Types

\* The initial state of the notifications.
LEMMA NotifyInit == Init => MailInv
  <1> SUFFICES ASSUME NotificationsInit PROVE MailInv
    BY DEF Init
  <1>1. NotifyInv
    BY DEF NotificationsInit, NotifyInv, NotifyTypeOK, OwedOnce, NobodyForgotten
  <1>2. MailOnce
    <2>1. /\ queue \in Seq(Events \X Users) /\ NoneTwice(queue) /\ \A m : ~ IsIn(m, queue)
          /\ handed \in [Events -> [Users -> {0, 1}]] /\ accepted \subseteq Events \X Users
      BY DEF NotificationsInit, IsIn, NoneTwice
    <2>2. \A e \in Events, u \in Users : handed[e][u] = 0 /\ mailing[e] = NoUser
      BY DEF NotificationsInit
    <2>3. QED
      BY <2>1, <2>2 DEF MailOnce
  <1>3. AcceptedKept
    BY DEF NotificationsInit, AcceptedKept
  <1>4. QED
    BY <1>1, <1>2, <1>3 DEF MailInv

\* Every step of Notify keeps everyone concerned in the list, or with a row, or
\* among the failed inserts, and nobody twice.
LEMMA NotifyStepKeeps ==
  ASSUME NotifyInv, NEW e \in Events, NotifyStep(e)
  PROVE  NotifyInv'
  <1>0. NotifyTypeOK /\ OwedOnce /\ NobodyForgotten
    BY DEF NotifyInv
  <1>1. ASSUME NEW type \in Types, NEW target \in Users, Notify(e, type, target)
        PROVE  NotifyInv'
    <2>1. /\ stage[e] # "loop" /\ stage' \in [Events -> {"idle", "loop", "done"}]
          /\ mailing' = mailing /\ missed' = missed \ ({e} \X Users)
          /\ rows' = [rows EXCEPT ![e] = [u \in Users |-> 0]]
          /\ \A d \in Events \ {e} : stage'[d] = stage[d]
      BY <1>0, <1>1 DEF Notify, NotifyTypeOK, Once
    <2>2. /\ mailing[e] = NoUser
          /\ rows' \in [Events -> [Users -> Nat]] /\ missed' \subseteq Events \X Users
          /\ \A u \in Users : todo[e][u] = 0 /\ rows'[e][u] = 0 /\ <<e, u>> \notin missed'
          /\ \A d \in Events \ {e} : rows'[d] = rows[d]
          /\ \A d \in Events \ {e}, u \in Users : <<d, u>> \in missed' <=> <<d, u>> \in missed
      BY <1>0, <2>1 DEF OwedOnce, NotifyTypeOK
    <2>3. CASE stage' = [stage EXCEPT ![e] = "loop"]
      <3>1. stage'[e] = "loop"
        BY <1>0, <2>3 DEF NotifyTypeOK
      <3>2. /\ todo' = [todo EXCEPT ![e] = ResolveRecipients(type, target)]
            /\ due' = [due EXCEPT ![e] = Concerned(type, target)]
        BY <1>0, <1>1, <3>1 DEF Notify, NotifyTypeOK
      <3>3. Concerned(type, target) \in SUBSET Users
        BY NotificationsAssumption DEF Concerned, GetCaseUserIDs
      <3> DEFINE list == [u \in Users |-> IF u \in Concerned(type, target) THEN 1 ELSE 0]
      <3>4. list \in [Users -> Nat]
        OBVIOUS
      <3>5. todo' = [todo EXCEPT ![e] = list]
        BY <3>2, RecipientsOnce
      <3> HIDE DEF list
      <3>6. NotifyTypeOK'
        BY <1>0, <2>1, <2>2, <3>2, <3>3, <3>4, <3>5 DEF NotifyTypeOK
      <3>7. /\ todo'[e] = list /\ due'[e] = Concerned(type, target)
            /\ \A d \in Events \ {e} : todo'[d] = todo[d] /\ due'[d] = due[d]
        BY <1>0, <3>2, <3>5 DEF NotifyTypeOK
      <3>8. \A u \in Users : list[u] = IF u \in Concerned(type, target) THEN 1 ELSE 0
        BY DEF list
      <3>9. OwedOnce'
        <4> SUFFICES ASSUME NEW d \in Events, NEW v \in Users
                     PROVE  (/\ stage[d] # "loop" => todo[d][v] = 0 /\ mailing[d] = NoUser
                             /\ stage[d] = "loop" =>
                                  todo[d][v] + rows[d][v]
                                    = IF v \in due[d] /\ <<d, v>> \notin missed THEN 1 ELSE 0)'
          BY DEF OwedOnce
        <4>1. CASE d = e
          <5>1. /\ todo'[d][v] = IF v \in due'[d] THEN 1 ELSE 0
                /\ rows'[d][v] = 0 /\ <<d, v>> \notin missed'
            BY <2>1, <2>2, <3>7, <3>8, <4>1
          <5>2. QED
            BY <3>1, <4>1, <5>1
        <4>2. CASE d # e
          BY <1>0, <2>1, <2>2, <3>7, <4>2 DEF OwedOnce
        <4>3. QED
          BY <4>1, <4>2
      <3>10. NobodyForgotten'
        BY <1>0, <2>1, <2>2, <3>1, <3>7 DEF NobodyForgotten
      <3>11. QED
        BY <3>6, <3>9, <3>10 DEF NotifyInv
    <2>4. CASE stage' = [stage EXCEPT ![e] = "done"]
      <3>1. /\ stage'[e] = "done" /\ todo' = todo /\ due' = [due EXCEPT ![e] = {}]
        <4>1. stage'[e] = "done"
          BY <1>0, <2>4 DEF NotifyTypeOK
        <4>2. stage' # [stage EXCEPT ![e] = "loop"]
          BY <1>0, <4>1 DEF NotifyTypeOK
        <4>3. QED
          BY <1>1, <4>1, <4>2 DEF Notify
      <3>2. /\ NotifyTypeOK' /\ due'[e] = {}
            /\ \A d \in Events \ {e} : due'[d] = due[d]
        BY <1>0, <2>1, <2>2, <3>1 DEF NotifyTypeOK
      <3>3. OwedOnce'
        <4> SUFFICES ASSUME NEW d \in Events, NEW v \in Users
                     PROVE  (/\ stage[d] # "loop" => todo[d][v] = 0 /\ mailing[d] = NoUser
                             /\ stage[d] = "loop" =>
                                  todo[d][v] + rows[d][v]
                                    = IF v \in due[d] /\ <<d, v>> \notin missed THEN 1 ELSE 0)'
          BY DEF OwedOnce
        <4>1. CASE d = e
          BY <2>1, <2>2, <3>1, <4>1
        <4>2. CASE d # e
          BY <1>0, <2>1, <2>2, <3>1, <3>2, <4>2 DEF OwedOnce
        <4>3. QED
          BY <4>1, <4>2
      <3>4. NobodyForgotten'
        BY <1>0, <2>1, <2>2, <3>1, <3>2 DEF NobodyForgotten
      <3>5. QED
        BY <3>2, <3>3, <3>4 DEF NotifyInv
    <2>5. QED
      BY <1>1, <2>3, <2>4 DEF Notify
  <1>2. ASSUME NEW u \in Users, Create(e, u) PROVE NotifyInv'
    <2>1. /\ stage[e] = "loop" /\ todo[e][u] > 0
          /\ UNCHANGED <<stage, due>>
          /\ todo' = [todo EXCEPT ![e][u] = @ - 1]
      BY <1>2 DEF Create
    <2>2. todo[e][u] = 1 /\ rows[e][u] = 0 /\ u \in due[e] /\ <<e, u>> \notin missed
      <3>1. todo[e] \in [Users -> Nat] /\ rows[e] \in [Users -> Nat]
        BY <1>0 DEF NotifyTypeOK
      <3>2. todo[e][u] \in Nat /\ rows[e][u] \in Nat
        BY <3>1
      <3>3. todo[e][u] + rows[e][u] = IF u \in due[e] /\ <<e, u>> \notin missed THEN 1 ELSE 0
        BY <1>0, <2>1 DEF OwedOnce
      <3>4. CASE u \in due[e] /\ <<e, u>> \notin missed
        BY <2>1, <3>2, <3>3, <3>4
      <3>5. CASE ~ (u \in due[e] /\ <<e, u>> \notin missed)
        BY <2>1, <3>2, <3>3, <3>5
      <3>6. QED
        BY <3>4, <3>5
    <2>3. /\ todo' \in [Events -> [Users -> Nat]] /\ todo'[e][u] = 0
          /\ \A d \in Events, v \in Users : d # e \/ v # u => todo'[d][v] = todo[d][v]
      <3>1. todo[e] \in [Users -> Nat] /\ todo[e][u] - 1 = 0
        BY <1>0, <2>2 DEF NotifyTypeOK
      <3>2. todo' = [todo EXCEPT ![e] = [todo[e] EXCEPT ![u] = 0]]
        BY <2>1, <2>2, <3>1
      <3>3. QED
        BY <1>0, <3>1, <3>2 DEF NotifyTypeOK
    <2>4. /\ rows' \in [Events -> [Users -> Nat]]
          /\ \A d \in Events, v \in Users : d # e \/ v # u => rows'[d][v] = rows[d][v]
          /\ \/ rows'[e][u] = 1 /\ missed' = missed
             \/ rows'[e][u] = 0 /\ missed' = missed \cup {<<e, u>>}
      <3>1. CASE rows' = [rows EXCEPT ![e][u] = @ + 1] /\ missed' = missed
        <4>1. rows[e] \in [Users -> Nat] /\ rows[e][u] + 1 = 1
          BY <1>0, <2>2 DEF NotifyTypeOK
        <4>2. rows' = [rows EXCEPT ![e] = [rows[e] EXCEPT ![u] = 1]]
          BY <3>1, <4>1
        <4>3. QED
          BY <1>0, <3>1, <4>1, <4>2 DEF NotifyTypeOK
      <3>2. CASE rows' = rows /\ missed' = missed \cup {<<e, u>>}
        BY <1>0, <2>2, <3>2 DEF NotifyTypeOK
      <3>3. QED
        BY <1>2, <3>1, <3>2 DEF Create
    <2>5. /\ mailing' \in [Events -> Users \cup {NoUser}]
          /\ \A d \in Events \ {e} : mailing'[d] = mailing[d]
      BY <1>0, <1>2 DEF Create, NotifyTypeOK
    <2>6. NotifyTypeOK'
      BY <1>0, <2>1, <2>3, <2>4, <2>5 DEF NotifyTypeOK
    <2>7. OwedOnce'
      <3> SUFFICES ASSUME NEW d \in Events, NEW v \in Users
                   PROVE  (/\ stage[d] # "loop" => todo[d][v] = 0 /\ mailing[d] = NoUser
                           /\ stage[d] = "loop" =>
                                todo[d][v] + rows[d][v]
                                  = IF v \in due[d] /\ <<d, v>> \notin missed THEN 1 ELSE 0)'
        BY DEF OwedOnce
      <3>1. CASE d = e /\ v = u
        BY <2>1, <2>2, <2>3, <2>4, <3>1
      <3>2. CASE d # e \/ v # u
        BY <1>0, <2>1, <2>3, <2>4, <2>5, <3>2 DEF OwedOnce
      <3>3. QED
        BY <3>1, <3>2
    <2>8. NobodyForgotten'
      BY <1>0, <2>1, <2>4 DEF NobodyForgotten
    <2>9. QED
      BY <2>6, <2>7, <2>8 DEF NotifyInv
  <1>3. CASE NotifyReturns(e)
    <2>1. /\ stage[e] = "loop" /\ stage' = [stage EXCEPT ![e] = "done"] /\ mailing[e] = NoUser
          /\ \A u \in Users : todo[e][u] = 0
          /\ UNCHANGED <<todo, mailing, rows, due, missed>>
      BY <1>3 DEF NotifyReturns
    <2>2. /\ stage' \in [Events -> {"idle", "loop", "done"}] /\ stage'[e] = "done"
          /\ \A d \in Events \ {e} : stage'[d] = stage[d]
      BY <1>0, <2>1 DEF NotifyTypeOK
    <2>3. NotifyTypeOK'
      BY <1>0, <2>1, <2>2 DEF NotifyTypeOK
    <2>4. OwedOnce'
      BY <1>0, <2>1, <2>2 DEF OwedOnce
    <2>5. \A u \in Users : rows[e][u] = IF u \in due[e] /\ <<e, u>> \notin missed THEN 1 ELSE 0
      BY <1>0, <2>1 DEF OwedOnce, NotifyTypeOK
    <2>6. NobodyForgotten'
      BY <1>0, <2>1, <2>2, <2>5 DEF NobodyForgotten
    <2>7. QED
      BY <2>3, <2>4, <2>6 DEF NotifyInv
  <1>4. CASE Send(e) \/ SkipMail(e)
    <2>1. UNCHANGED <<stage, todo, rows, due, missed>> /\ mailing' = [mailing EXCEPT ![e] = NoUser]
      BY <1>4 DEF Send, SkipMail
    <2>2. QED
      BY <1>0, <2>1 DEF NotifyInv, NotifyTypeOK, OwedOnce, NobodyForgotten
  <1>5. QED
    BY <1>1, <1>2, <1>3, <1>4 DEF NotifyStep

\* The sender and the roles leave the calls of Notify alone.
LEMMA NotifyKept == NotifyInv /\ UNCHANGED notifyVars => NotifyInv'
  BY DEF NotifyInv, NotifyTypeOK, OwedOnce, NobodyForgotten, notifyVars

\* A step that is no step of Notify leaves its calls alone.
LEMMA OtherSteps ==
  ASSUME [Next]_vars, \A e \in Events : ~ NotifyStep(e)
  PROVE  UNCHANGED notifyVars
  BY DEF Next, NotificationsNext, WorkerStep, Deliver, SeeStop, Exit, Stop, StopReturns,
         vars, notifyVars

\* A call of Notify that has returned has left one row for everyone concerned, one
\* list or two, except where the insert failed, and no row for anybody else.
THEOREM EveryoneNotified == Spec => []NobodyForgotten
  <1>1. Init => NotifyInv
    BY NotifyInit DEF MailInv
  <1>2. NotifyInv /\ [Next]_vars => NotifyInv'
    BY NotifyStepKeeps, NotifyKept, OtherSteps
  <1>3. NotifyInv => NobodyForgotten
    BY DEF NotifyInv
  <1>4. QED
    BY <1>1, <1>2, <1>3, PTL DEF Spec

------------------------------------------------------------------------------
(* The e-mails.                                                             *)

\* Queueing an e-mail adds it, and nothing twice if it was not there.
LEMMA Queueing ==
  ASSUME NEW S, NEW s \in Seq(S), NEW x \in S
  PROVE  /\ Append(s, x) \in Seq(S)
         /\ \A m : IsIn(m, Append(s, x)) <=> IsIn(m, s) \/ m = x
         /\ NoneTwice(s) /\ ~ IsIn(x, s) => NoneTwice(Append(s, x))
  <1>1. /\ Append(s, x) \in Seq(S) /\ Len(Append(s, x)) = Len(s) + 1 /\ Len(s) \in Nat
        /\ DOMAIN s = 1..Len(s) /\ DOMAIN Append(s, x) = 1..(Len(s) + 1)
        /\ \A n \in 1..Len(s) : Append(s, x)[n] = s[n]
        /\ Append(s, x)[Len(s) + 1] = x
    OBVIOUS
  <1>2. \A m : IsIn(m, Append(s, x)) <=> IsIn(m, s) \/ m = x
    <2> SUFFICES ASSUME NEW m PROVE IsIn(m, Append(s, x)) <=> IsIn(m, s) \/ m = x
      OBVIOUS
    <2>1. \A n \in 1..(Len(s) + 1) : n \in 1..Len(s) \/ n = Len(s) + 1
      BY <1>1
    <2>2. IsIn(m, s) => IsIn(m, Append(s, x))
      BY <1>1 DEF IsIn
    <2>3. IsIn(x, Append(s, x))
      BY <1>1 DEF IsIn
    <2>4. IsIn(m, Append(s, x)) => IsIn(m, s) \/ m = x
      BY <1>1, <2>1 DEF IsIn
    <2>5. QED
      BY <2>2, <2>3, <2>4
  <1>3. ASSUME NoneTwice(s), ~ IsIn(x, s),
               NEW k \in 1..(Len(s) + 1), NEW n \in 1..(Len(s) + 1),
               Append(s, x)[k] = Append(s, x)[n]
        PROVE  k = n
    <2>1. CASE k \in 1..Len(s) /\ n \in 1..Len(s)
      BY <1>1, <1>3, <2>1 DEF NoneTwice
    <2>2. CASE k = Len(s) + 1 /\ n \in 1..Len(s)
      BY <1>1, <1>3, <2>2 DEF IsIn
    <2>3. CASE n = Len(s) + 1 /\ k \in 1..Len(s)
      BY <1>1, <1>3, <2>3 DEF IsIn
    <2>4. QED
      BY <1>1, <2>1, <2>2, <2>3
  <1>4. QED
    BY <1>1, <1>2, <1>3 DEF NoneTwice

\* Taking the first e-mail out of the queue removes it and no other.
LEMMA Taking ==
  ASSUME NEW S, NEW s \in Seq(S), s # <<>>
  PROVE  /\ Tail(s) \in Seq(S) /\ Head(s) \in S /\ IsIn(Head(s), s)
         /\ \A m : IsIn(m, s) <=> IsIn(m, Tail(s)) \/ m = Head(s)
         /\ NoneTwice(s) => NoneTwice(Tail(s)) /\ ~ IsIn(Head(s), Tail(s))
  <1>1. /\ Tail(s) \in Seq(S) /\ Head(s) \in S /\ Head(s) = s[1]
        /\ Len(s) \in Nat \ {0} /\ Len(Tail(s)) = Len(s) - 1
        /\ DOMAIN s = 1..Len(s) /\ DOMAIN Tail(s) = 1..(Len(s) - 1)
        /\ \A n \in 1..(Len(s) - 1) : Tail(s)[n] = s[n + 1]
    OBVIOUS
  <1>2. IsIn(Head(s), s)
    BY <1>1 DEF IsIn
  <1>3. \A m : IsIn(m, s) => IsIn(m, Tail(s)) \/ m = Head(s)
    <2> SUFFICES ASSUME NEW m, NEW n \in 1..Len(s), s[n] = m, n # 1
                 PROVE  IsIn(m, Tail(s))
      BY <1>1 DEF IsIn
    <2>1. n - 1 \in 1..(Len(s) - 1) /\ (n - 1) + 1 = n
      BY <1>1
    <2>2. QED
      BY <1>1, <2>1 DEF IsIn
  <1>4. \A m : IsIn(m, Tail(s)) => IsIn(m, s)
    <2> SUFFICES ASSUME NEW m, NEW n \in 1..(Len(s) - 1), Tail(s)[n] = m
                 PROVE  IsIn(m, s)
      BY <1>1 DEF IsIn
    <2>1. n + 1 \in 1..Len(s)
      BY <1>1
    <2>2. QED
      BY <1>1, <2>1 DEF IsIn
  <1>5. ASSUME NoneTwice(s) PROVE NoneTwice(Tail(s)) /\ ~ IsIn(Head(s), Tail(s))
    <2>1. \A n \in 1..(Len(s) - 1) : n + 1 \in 1..Len(s) /\ n + 1 # 1
      BY <1>1
    <2>2. ~ IsIn(Head(s), Tail(s))
      BY <1>1, <1>5, <2>1 DEF IsIn, NoneTwice
    <2>3. ASSUME NEW k \in 1..(Len(s) - 1), NEW n \in 1..(Len(s) - 1), Tail(s)[k] = Tail(s)[n]
          PROVE  k = n
      <3>1. k + 1 = n + 1
        BY <1>1, <1>5, <2>1, <2>3 DEF NoneTwice
      <3>2. QED
        BY <3>1
    <2>4. QED
      BY <1>1, <2>2, <2>3 DEF NoneTwice
  <1>6. QED
    BY <1>1, <1>2, <1>3, <1>4, <1>5

\* An empty queue holds nothing.
LEMMA EmptyQueue == \A m : ~ IsIn(m, <<>>)
  BY DEF IsIn

\* A call of Notify puts each e-mail on its way once, after its row.
LEMMA NotifyMails ==
  ASSUME MailInv, NEW e \in Events, NotifyStep(e)
  PROVE  MailInv'
  <1>0. /\ NotifyInv /\ NotifyInv' /\ MailOnce /\ AcceptedKept
        /\ NotifyTypeOK /\ NotifyTypeOK'
    BY NotifyStepKeeps DEF MailInv, NotifyInv
  <1>1. ASSUME UNCHANGED <<rows, mailVars>>,
               mailing' = mailing \/ mailing' = [mailing EXCEPT ![e] = NoUser]
        PROVE  MailInv'
    <2>1. \A d \in Events, u \in Users : mailing'[d] = u /\ u # NoUser => mailing[d] = u
      BY <1>0, <1>1 DEF NotifyTypeOK
    <2>2. QED
      BY <1>0, <1>1, <2>1 DEF MailInv, MailOnce, AcceptedKept, mailVars
  <1>2. ASSUME NEW u \in Users, Create(e, u) PROVE MailInv'
    <2>1. UNCHANGED mailVars /\ mailing[e] = NoUser /\ rows[e][u] = 0
      <3>1. todo[e] \in [Users -> Nat] /\ rows[e] \in [Users -> Nat]
        BY <1>0 DEF NotifyTypeOK
      <3>2. todo[e][u] \in Nat /\ rows[e][u] \in Nat
        BY <3>1
      <3>3. stage[e] = "loop" /\ todo[e][u] > 0
        BY <1>2 DEF Create
      <3>4. todo[e][u] + rows[e][u] = 0 \/ todo[e][u] + rows[e][u] = 1
        BY <1>0, <3>3 DEF NotifyInv, OwedOnce
      <3>5. rows[e][u] = 0
        BY <3>2, <3>3, <3>4
      <3>6. QED
        BY <1>2, <3>5 DEF Create
    <2>2. CASE UNCHANGED <<rows, mailing>>
      BY <1>1, <2>1, <2>2
    <2>3. CASE rows' = [rows EXCEPT ![e][u] = @ + 1] /\ mailing' = [mailing EXCEPT ![e] = u]
      <3>1. rows'[e][u] = 1 /\ \A d \in Events, v \in Users : d # e \/ v # u => rows'[d][v] = rows[d][v]
        <4>1. rows[e] \in [Users -> Nat] /\ rows[e][u] + 1 = 1
          BY <1>0, <2>1 DEF NotifyTypeOK
        <4>2. rows' = [rows EXCEPT ![e] = [rows[e] EXCEPT ![u] = 1]]
          BY <2>3, <4>1
        <4>3. QED
          BY <1>0, <4>1, <4>2 DEF NotifyTypeOK
      <3>2. mailing'[e] = u /\ \A d \in Events \ {e} : mailing'[d] = mailing[d]
        BY <1>0, <2>3 DEF NotifyTypeOK
      <3>3. ~ IsIn(<<e, u>>, queue) /\ handed[e][u] = 0
        <4>1. ~ (rows[e][u] > 0)
          BY <2>1
        <4>2. ~ IsIn(<<e, u>>, queue) /\ handed[e][u] # 1
          BY <1>0, <4>1 DEF MailOnce
        <4>3. handed[e][u] \in {0, 1}
          BY <1>0 DEF MailOnce
        <4>4. QED
          BY <4>2, <4>3
      <3>4. \A d \in Events, v \in Users : rows[d][v] > 0 => rows'[d][v] > 0
        BY <2>1, <3>1
      <3>5. rows'[e][u] > 0
        BY <3>1
      <3>6. ASSUME NEW d \in Events, NEW v \in Users, mailing'[d] = v, v # NoUser
            PROVE  rows'[d][v] > 0 /\ handed[d][v] = 0 /\ ~ IsIn(<<d, v>>, queue)
        <4>1. CASE d = e
          BY <3>2, <3>3, <3>5, <3>6, <4>1
        <4>2. CASE d # e
          BY <1>0, <3>2, <3>4, <3>6, <4>2 DEF MailOnce
        <4>3. QED
          BY <4>1, <4>2
      <3>7. MailOnce'
        BY <1>0, <2>1, <3>4, <3>6 DEF MailOnce, mailVars
      <3>8. AcceptedKept'
        BY <1>0, <2>1 DEF AcceptedKept, mailVars
      <3>9. QED
        BY <1>0, <3>7, <3>8 DEF MailInv
    <2>4. QED
      BY <1>2, <2>2, <2>3 DEF Create
  <1>3. CASE Send(e)
    <2>1. /\ mailing[e] # NoUser /\ mailing' = [mailing EXCEPT ![e] = NoUser]
          /\ UNCHANGED <<rows, handed, worker, stop>>
      BY <1>3 DEF Send
    <2>2. PICK u \in Users : u = mailing[e]
      BY <1>0, <2>1 DEF NotifyTypeOK
    <2>3. CASE UNCHANGED <<queue, accepted>>
      BY <1>1, <2>1, <2>3 DEF mailVars
    <2>4. ASSUME queue' = Append(queue, <<e, u>>),
                 accepted' = IF stop = "no" THEN accepted \cup {<<e, u>>} ELSE accepted
          PROVE  MailInv'
      <3>1. /\ queue \in Seq(Events \X Users) /\ <<e, u>> \in Events \X Users
            /\ ~ IsIn(<<e, u>>, queue) /\ handed[e][u] = 0 /\ rows[e][u] > 0
        BY <1>0, <2>1, <2>2 DEF MailOnce
      <3>2. /\ queue' \in Seq(Events \X Users) /\ NoneTwice(queue')
            /\ \A m : IsIn(m, queue') <=> IsIn(m, queue) \/ m = <<e, u>>
        <4>1. PICK x \in Events \X Users : x = <<e, u>>
          BY <3>1
        <4>2. queue' = Append(queue, x) /\ NoneTwice(queue) /\ ~ IsIn(x, queue)
          BY <1>0, <2>4, <3>1, <4>1 DEF MailOnce
        <4>3. /\ queue' \in Seq(Events \X Users) /\ NoneTwice(queue')
              /\ \A m : IsIn(m, queue') <=> IsIn(m, queue) \/ m = x
          BY <3>1, <4>2, Queueing
        <4>4. QED
          BY <4>1, <4>3
      <3>3. \A d \in Events, v \in Users : mailing'[d] = v /\ v # NoUser => mailing[d] = v /\ d # e
        BY <1>0, <2>1 DEF NotifyTypeOK
      <3>4. ASSUME NEW d \in Events, NEW v \in Users
            PROVE  /\ IsIn(<<d, v>>, queue') => rows[d][v] > 0 /\ handed[d][v] = 0
                   /\ handed[d][v] = 1 => rows[d][v] > 0
                   /\ mailing'[d] = v /\ v # NoUser =>
                        rows[d][v] > 0 /\ handed[d][v] = 0 /\ ~ IsIn(<<d, v>>, queue')
        <4>1. <<d, v>> = <<e, u>> <=> d = e /\ v = u
          OBVIOUS
        <4>2. CASE d = e /\ v = u
          BY <3>1, <3>3, <4>2
        <4>3. CASE ~ (d = e /\ v = u)
          BY <1>0, <3>2, <3>3, <4>1, <4>3 DEF MailOnce
        <4>4. QED
          BY <4>2, <4>3
      <3>8. /\ accepted' \subseteq Events \X Users
            /\ \A m : m \in accepted' => m \in accepted \/ (m = <<e, u>> /\ stop = "no")
        BY <1>0, <2>4, <3>1 DEF MailOnce
      <3>5. MailOnce'
        BY <1>0, <2>1, <3>2, <3>4, <3>8 DEF MailOnce
      <3>6. AcceptedKept'
        BY <1>0, <2>1, <3>2, <3>8 DEF AcceptedKept
      <3>7. QED
        BY <1>0, <3>5, <3>6 DEF MailInv
    <2>5. QED
      BY <1>3, <2>2, <2>3, <2>4 DEF Send
  <1>4. ASSUME NEW type \in Types, NEW target \in Users, Notify(e, type, target)
        PROVE  MailInv'
    <2>1. /\ stage[e] # "loop" /\ UNCHANGED <<mailing, queue, worker, stop>>
          /\ \A n \in DOMAIN queue : queue[n][1] # e
          /\ rows' = [rows EXCEPT ![e] = [u \in Users |-> 0]]
          /\ handed' = [handed EXCEPT ![e] = [u \in Users |-> 0]]
          /\ accepted' = accepted \ ({e} \X Users)
      BY <1>4 DEF Notify, Once
    <2>2. /\ mailing[e] = NoUser /\ \A u \in Users : ~ IsIn(<<e, u>>, queue)
      <3>1. mailing[e] = NoUser
        BY <1>0, <2>1 DEF NotifyInv, OwedOnce
      <3>2. ASSUME NEW u \in Users, NEW n \in DOMAIN queue, queue[n] = <<e, u>> PROVE FALSE
        <4>1. queue[n][1] = e
          BY <3>2
        <4>2. QED
          BY <2>1, <4>1
      <3>3. QED
        BY <3>1, <3>2 DEF IsIn
    <2>3. /\ handed' \in [Events -> [Users -> {0, 1}]]
          /\ \A u \in Users : handed'[e][u] = 0
          /\ \A d \in Events \ {e} : handed'[d] = handed[d] /\ rows'[d] = rows[d]
      BY <1>0, <2>1 DEF MailOnce, NotifyTypeOK
    <2>4. /\ accepted' \subseteq accepted
          /\ \A u \in Users : <<e, u>> \notin accepted'
      BY <2>1
    <2>5. MailOnce'
      <3> SUFFICES ASSUME NEW d \in Events, NEW v \in Users
                   PROVE  /\ IsIn(<<d, v>>, queue) => rows'[d][v] > 0 /\ handed'[d][v] = 0
                          /\ handed'[d][v] = 1 => rows'[d][v] > 0
                          /\ mailing[d] = v /\ v # NoUser =>
                               rows'[d][v] > 0 /\ handed'[d][v] = 0 /\ ~ IsIn(<<d, v>>, queue)
        BY <1>0, <2>1, <2>3, <2>4 DEF MailOnce
      <3>1. CASE d = e
        BY <2>2, <2>3, <3>1
      <3>2. CASE d # e
        BY <1>0, <2>3, <3>2 DEF MailOnce
      <3>3. QED
        BY <3>1, <3>2
    <2>6. AcceptedKept'
      BY <1>0, <2>1, <2>3, <2>4 DEF AcceptedKept
    <2>7. QED
      BY <1>0, <2>5, <2>6 DEF MailInv
  <1>5. QED
    BY <1>1, <1>2, <1>3, <1>4 DEF NotifyStep, NotifyReturns, SkipMail, mailVars

\* The goroutine of the sender hands over what it takes out of the queue, and ends
\* when the queue is empty.
LEMMA SenderMails ==
  ASSUME MailInv, WorkerStep \/ Stop \/ StopReturns
  PROVE  MailInv'
  <1>0. /\ NotifyInv /\ MailOnce /\ AcceptedKept
        /\ UNCHANGED notifyVars
    BY DEF MailInv, WorkerStep, Deliver, SeeStop, Exit, Stop, StopReturns
  <1>1. NotifyInv' /\ rows' = rows /\ mailing' = mailing
    BY <1>0, NotifyKept DEF notifyVars
  <1>2. CASE Deliver
    <2>1. /\ worker \in {"running", "draining"} /\ queue # <<>>
          /\ queue' = Tail(queue)
          /\ UNCHANGED <<accepted, worker, stop>>
      BY <1>2 DEF Deliver
    <2>2. queue \in Seq(Events \X Users) /\ NoneTwice(queue)
      BY <1>0 DEF MailOnce
    <2>3. PICK x \in Events \X Users : x = Head(queue)
      BY <2>1, <2>2, Taking
    <2>4. /\ queue' \in Seq(Events \X Users) /\ NoneTwice(queue')
          /\ IsIn(x, queue) /\ ~ IsIn(x, queue')
          /\ \A m : IsIn(m, queue) <=> IsIn(m, queue') \/ m = x
      BY <2>1, <2>2, <2>3, Taking
    <2>5. PICK e \in Events, u \in Users : x = <<e, u>>
      BY <2>3
    <2>6. /\ handed' \in [Events -> [Users -> {0, 1}]] /\ handed'[e][u] = 1
          /\ \A d \in Events, v \in Users : d # e \/ v # u => handed'[d][v] = handed[d][v]
      <3>1. handed[e][u] = 0 /\ handed \in [Events -> [Users -> {0, 1}]]
        BY <1>0, <2>4, <2>5 DEF MailOnce
      <3>2. handed' = [handed EXCEPT ![e][u] = @ + 1]
        <4>1. handed' = [handed EXCEPT ![x[1]][x[2]] = @ + 1]
          BY <1>2, <2>3 DEF Deliver
        <4>2. x[1] = e /\ x[2] = u
          BY <2>5
        <4>3. QED
          BY <4>1, <4>2
      <3>3. handed' = [handed EXCEPT ![e] = [handed[e] EXCEPT ![u] = 1]]
        BY <3>1, <3>2
      <3>4. handed[e] \in [Users -> {0, 1}]
        BY <3>1
      <3>5. QED
        BY <3>1, <3>3, <3>4
    <2>7. MailOnce'
      <3> SUFFICES ASSUME NEW d \in Events, NEW v \in Users
                   PROVE  /\ IsIn(<<d, v>>, queue') => rows[d][v] > 0 /\ handed'[d][v] = 0
                          /\ handed'[d][v] = 1 => rows[d][v] > 0
                          /\ mailing[d] = v /\ v # NoUser =>
                               rows[d][v] > 0 /\ handed'[d][v] = 0 /\ ~ IsIn(<<d, v>>, queue')
        BY <1>0, <1>1, <2>1, <2>4, <2>6 DEF MailOnce
      <3>1. /\ IsIn(<<d, v>>, queue) => rows[d][v] > 0 /\ handed[d][v] = 0
            /\ handed[d][v] = 1 => rows[d][v] > 0
            /\ mailing[d] = v /\ v # NoUser =>
                 rows[d][v] > 0 /\ handed[d][v] = 0 /\ ~ IsIn(<<d, v>>, queue)
        BY <1>0 DEF MailOnce
      <3>2. CASE d = e /\ v = u
        BY <2>4, <2>5, <3>1, <3>2
      <3>3. CASE d # e \/ v # u
        BY <2>4, <2>5, <2>6, <3>1, <3>3
      <3>4. QED
        BY <3>2, <3>3
    <2>8. AcceptedKept'
      BY <1>0, <2>1, <2>4, <2>5, <2>6 DEF AcceptedKept
    <2>9. QED
      BY <1>1, <2>7, <2>8 DEF MailInv
  <1>3. ASSUME UNCHANGED <<queue, handed, accepted>>, SeeStop \/ Exit \/ Stop \/ StopReturns
        PROVE  MailInv'
    <2>1. MailOnce'
      BY <1>0, <1>1, <1>3 DEF MailOnce
    <2>2. AcceptedKept'
      BY <1>0, <1>3, EmptyQueue DEF AcceptedKept, SeeStop, Exit, Stop, StopReturns
    <2>3. QED
      BY <1>1, <2>1, <2>2 DEF MailInv
  <1>4. QED
    BY <1>2, <1>3 DEF WorkerStep, SeeStop, Exit, Stop, StopReturns

\* When Stop returns, every e-mail queued before it was called has been handed
\* over, and none was handed over twice.
THEOREM StopLosesNothing == Spec => []StopFlushes
  <1>1. MailInv /\ [Next]_vars => MailInv'
    <2> SUFFICES ASSUME MailInv, [Next]_vars PROVE MailInv'
      OBVIOUS
    <2>1. CASE UNCHANGED <<notifyVars, mailVars>>
      <3>1. NotifyInv'
        BY <2>1, NotifyKept DEF MailInv
      <3>2. QED
        BY <2>1, <3>1 DEF MailInv, MailOnce, AcceptedKept, notifyVars, mailVars
    <2>2. QED
      BY <2>1, NotifyMails, SenderMails DEF Next, NotificationsNext, vars
  <1>2. MailInv => StopFlushes
    <2> SUFFICES ASSUME MailInv PROVE StopFlushes
      OBVIOUS
    <2>1. \A e \in Events, u \in Users : handed[e][u] <= 1
      BY DEF MailInv, MailOnce
    <2>2. ASSUME stop = "returned", NEW m \in accepted PROVE handed[m[1]][m[2]] = 1
      <3>1. PICK e \in Events, u \in Users : m = <<e, u>>
        BY <2>2 DEF MailInv, MailOnce
      <3>2. QED
        BY <2>2, <3>1 DEF MailInv, AcceptedKept
    <2>3. QED
      BY <2>1, <2>2 DEF StopFlushes
  <1>3. QED
    BY NotifyInit, <1>1, <1>2, PTL DEF Spec

------------------------------------------------------------------------------
(* The listings.                                                            *)

\* Every nonempty set of natural numbers has a least one.
LEMMA LeastNumber ==
  ASSUME NEW T \in SUBSET Nat, T # {}
  PROVE  \E x \in T : \A y \in T : x <= y
  <1>1. PICK x \in T : \A y \in T : ~ (<<y, x>> \in OpToRel(<, Nat))
    BY WFMin, NatLessThanWellFounded
  <1>2. \A y \in T : ~ (y < x)
    BY <1>1 DEF OpToRel
  <1>3. QED
    BY <1>2

\* The order of a listing is strict and total on its rows.
LEMMA PrecedesOrders ==
  ASSUME time \in [Rows -> Nat], NEW order, NEW i \in Rows, NEW j \in Rows, NEW k \in Rows
  PROVE  /\ ~ Precedes(order, i, i)
         /\ ~ (Precedes(order, i, j) /\ Precedes(order, j, i))
         /\ Precedes(order, i, j) /\ Precedes(order, j, k) => Precedes(order, i, k)
         /\ i # j => Precedes(order, i, j) \/ Precedes(order, j, i)
  <1>1. time[i] \in Nat /\ time[j] \in Nat /\ time[k] \in Nat
    OBVIOUS
  <1>2. i \in Int /\ j \in Int /\ k \in Int
    BY ListingsAssumption DEF Rows
  <1>3. QED
    BY <1>1, <1>2 DEF Precedes, Newer, Higher

\* A page that is not empty has a last row.
LEMMA LastExists ==
  ASSUME time \in [Rows -> Nat], NEW order, NEW S \in SUBSET Rows, S # {}
  PROVE  \E i \in S : \A j \in S \ {i} : Precedes(order, j, i)
  <1>0. S \subseteq Nat
    BY ListingsAssumption DEF Rows
  <1>1. CASE order = "id"
    <2>1. PICK i \in S : \A j \in S : i <= j
      BY <1>0, LeastNumber
    <2>2. \A j \in S \ {i} : j > i
      BY <1>0, <2>1
    <2>3. QED
      BY <1>1, <2>2 DEF Precedes, Higher
  <1>2. CASE order # "id"
    <2> DEFINE T == {time[i] : i \in S}
    <2>1. T \in SUBSET Nat /\ T # {}
      OBVIOUS
    <2>2. PICK t \in T : \A u \in T : t <= u
      BY <2>1, LeastNumber
    <2> DEFINE R == {i \in S : time[i] = t}
    <2>3. R \in SUBSET Nat /\ R # {}
      BY <1>0
    <2>4. PICK i \in R : \A j \in R : i <= j
      BY <2>3, LeastNumber
    <2>5. ASSUME NEW j \in S \ {i} PROVE Newer(j, i)
      <3>1. time[j] \in Nat /\ t \in Nat /\ time[i] = t /\ t <= time[j] /\ i \in Nat /\ j \in Nat
        BY <1>0, <2>1, <2>2, <2>4
      <3>2. CASE time[j] = t
        <4>1. j \in R
          BY <3>2
        <4>2. i <= j /\ i # j
          BY <2>4, <4>1
        <4>3. QED
          BY <3>1, <3>2, <4>2 DEF Newer
      <3>3. CASE time[j] # t
        BY <3>1, <3>3 DEF Newer
      <3>4. QED
        BY <3>2, <3>3
    <2>6. QED
      BY <1>2, <2>4, <2>5 DEF Precedes
  <1>3. QED
    BY <1>1, <1>2

\* LastOf is such a row.
LEMMA LastIsLast ==
  ASSUME time \in [Rows -> Nat], NEW found, NEW page \in SUBSET Rows, page # {}
  PROVE  /\ LastOf(found, page) \in page
         /\ \A j \in page \ {LastOf(found, page)} : Precedes(found.order, j, LastOf(found, page))
  <1>1. \E i \in page : \A j \in page \ {i} : Precedes(found.order, j, i)
    BY LastExists
  <1>2. QED
    BY <1>1 DEF LastOf

\* Sets of rows are finite, and a part as large as the whole is the whole.
LEMMA RowsFinite ==
  ASSUME NEW S \in SUBSET Rows, NEW T \in SUBSET S
  PROVE  /\ IsFiniteSet(S) /\ Cardinality(S) \in Nat /\ Cardinality(T) \in Nat
         /\ Cardinality(T) <= Cardinality(S)
         /\ Cardinality(S) <= Cardinality(T) => S = T
  <1>1. IsFiniteSet(Rows)
    BY FS_Interval, ListingsAssumption DEF Rows
  <1>2. IsFiniteSet(S)
    BY <1>1, FS_Subset
  <1>3. /\ IsFiniteSet(T) /\ Cardinality(T) <= Cardinality(S)
        /\ Cardinality(S) = Cardinality(T) => S = T
    BY <1>2, FS_Subset
  <1>4. Cardinality(S) \in Nat /\ Cardinality(T) \in Nat
    BY <1>2, <1>3, FS_CardinalityType
  <1>5. QED
    BY <1>2, <1>3, <1>4

\* Fewer rows are no less in order.
LEMMA FewerKeyed ==
  ASSUME NEW R, NEW S \in SUBSET R, WellKeyed(R)
  PROVE  WellKeyed(S)
  BY DEF WellKeyed, InOrder

\* A page moves the cursor behind itself: its rows were past the old cursor, none
\* is past the new one, and what is past the old cursor and not on the page stays
\* past the new one.
LEMMA CursorMoves ==
  ASSUME ListTypeOK, NEW found, NEW page, NEW size, NEW more,
         found = [rows |-> {i \in present : IsPast(i)},
                  order |-> IF kind = "cases" THEN "id" ELSE "time"],
         IsPage(page, found, size), Receive(found, page, more), page # {}
  PROVE  /\ cursor' \in page
         /\ WellKeyed(page) => \A i \in page : ~ IsPast(i)'
         /\ \A i \in Rows : ~ IsPast(i) => ~ IsPast(i)'
         /\ \A i \in present \ page :
              WellKeyed(page \cup {i}) /\ IsPast(i) => IsPast(i)'
  <1> DEFINE last == LastOf(found, page)
  <1>1. /\ page \subseteq {i \in present : IsPast(i)} /\ page \subseteq Rows /\ present \subseteq Rows
        /\ time \in [Rows -> Nat] /\ kind' = kind /\ time' = time
      BY DEF IsPage, ListTypeOK, Receive, listing
  <1>2. cursor' = last
    BY DEF Receive
  <1>3. last \in page /\ \A j \in page \ {last} : Precedes(found.order, j, last)
    BY <1>1, LastIsLast
  <1> HIDE DEF last
  <1>4. last \in Rows /\ IsPast(last) /\ last # NoRow
    BY <1>1, <1>3, ListingsAssumption DEF Rows, NoRow
  <1>5. Rows \subseteq Nat \ {0} /\ NoRow = 0 /\ \A i \in Rows : time[i] \in Nat
    BY <1>1, ListingsAssumption DEF Rows, NoRow
  <1>6. \A i \in Rows : IsPast(i)' <=> IF kind = "inbox" THEN Newer(last, i) ELSE i < last
    BY <1>1, <1>2, <1>4 DEF IsPast, Newer
  <1>7. found.order = (IF kind = "cases" THEN "id" ELSE "time") /\ kind \in Kinds
    BY DEF ListTypeOK
  <1>8. ASSUME WellKeyed(page), NEW i \in page PROVE ~ IsPast(i)'
    <2>1. i \in Rows /\ i \in Nat /\ last \in Nat /\ time[i] \in Nat /\ time[last] \in Nat
      BY <1>1, <1>4, <1>5
    <2>2. CASE i = last
      BY <1>6, <2>1, <2>2 DEF Newer
    <2>3. CASE i # last
      <3>1. Precedes(found.order, i, last)
        BY <1>3, <2>3
      <3>2. CASE kind = "cases"
        BY <1>6, <1>7, <2>1, <3>1, <3>2 DEF Precedes, Higher
      <3>3. CASE kind = "inbox"
        BY <1>6, <1>7, <2>1, <3>1, <3>3 DEF Precedes, Newer
      <3>4. CASE kind \notin {"cases", "inbox"}
        <4>1. i < last => time[i] <= time[last]
          BY <1>3, <1>8, <3>4 DEF WellKeyed, InOrder
        <4>2. QED
          BY <1>6, <1>7, <2>1, <3>1, <3>4, <4>1 DEF Precedes, Newer
      <3>5. QED
        BY <3>2, <3>3, <3>4
    <2>4. QED
      BY <2>2, <2>3
  <1>9. ASSUME NEW i \in Rows, ~ IsPast(i) PROVE ~ IsPast(i)'
    <2>1. /\ i \in Nat /\ last \in Nat /\ time[i] \in Nat /\ time[last] \in Nat
          /\ cursor # NoRow /\ cursor \in Rows /\ cursor \in Nat /\ time[cursor] \in Nat
      BY <1>4, <1>5, <1>9 DEF IsPast, ListTypeOK
    <2>2. CASE kind = "inbox"
      <3>1. Newer(cursor, last) /\ ~ Newer(cursor, i)
        BY <1>4, <1>9, <2>1, <2>2 DEF IsPast
      <3>2. ~ Newer(last, i)
        BY <2>1, <3>1 DEF Newer
      <3>3. QED
        BY <1>6, <2>2, <3>2
    <2>3. CASE kind # "inbox"
      <3>1. last < cursor /\ ~ (i < cursor)
        BY <1>4, <1>9, <2>1, <2>3 DEF IsPast
      <3>2. QED
        BY <1>6, <2>1, <2>3, <3>1
    <2>4. QED
      BY <2>2, <2>3
  <1>10. ASSUME NEW i \in present \ page, WellKeyed(page \cup {i}), IsPast(i) PROVE IsPast(i)'
    <2>1. i \in Rows /\ i \in Nat /\ last \in Nat /\ time[i] \in Nat /\ time[last] \in Nat
      BY <1>1, <1>4, <1>5
    <2>2. i # last /\ ~ Precedes(found.order, i, last)
      BY <1>3, <1>10 DEF IsPage
    <2>3. Precedes(found.order, last, i)
      BY <1>1, <1>4, <2>1, <2>2, PrecedesOrders
    <2>4. CASE kind = "cases"
      BY <1>6, <1>7, <2>1, <2>3, <2>4 DEF Precedes, Higher
    <2>5. CASE kind = "inbox"
      BY <1>6, <1>7, <2>1, <2>3, <2>5 DEF Precedes
    <2>6. CASE kind \notin {"cases", "inbox"}
      <3>1. last < i => time[last] <= time[i]
        BY <1>3, <1>10, <2>6 DEF WellKeyed, InOrder
      <3>2. QED
        BY <1>6, <1>7, <2>1, <2>2, <2>3, <2>6, <3>1 DEF Precedes, Newer
    <2>7. QED
      BY <2>4, <2>5, <2>6
  <1>11. QED
    BY <1>2, <1>3, <1>8, <1>9, <1>10

\* The client has all there is when it is told that there is no more: the page is
\* not full, or it is full and COUNT has found no more than a page.
NoMore(page, size) ==
  \/ Cardinality(page) # size
  \/ kind \in {"cases", "evidence"} /\ total <= Cardinality(page)

\* A page received keeps the invariant.
LEMMA PageKeeps ==
  ASSUME PagesInv, NEW found, NEW page, NEW size, NEW more \in BOOLEAN,
         found = [rows |-> {i \in present : IsPast(i)},
                  order |-> IF kind = "cases" THEN "id" ELSE "time"],
         IsPage(page, found, size), Receive(found, page, more),
         ~ more /\ (kind = "inbox" => asked <= MaxSize) => NoMore(page, size)
  PROVE  PagesInv'
  <1>0. ListTypeOK /\ GotIsBehind /\ RestIsAhead /\ CountCovers
    BY DEF PagesInv
  <1> DEFINE F == {i \in present : IsPast(i)}
  <1>1. /\ page \subseteq F /\ F \subseteq present /\ present \subseteq Rows /\ got \subseteq Rows
        /\ Cardinality(page) = Lesser(size, Cardinality(F))
        /\ throughout \subseteq present
    BY <1>0 DEF IsPage, ListTypeOK
  <1>2. /\ at = "select" /\ got' = got \cup page /\ twice' = twice \cup (got \cap page)
        /\ at' = (IF more THEN "count" ELSE "done") /\ total' = 0
        /\ page = {} => cursor' = cursor
        /\ UNCHANGED <<kind, time, asked, present, throughout, slipped>>
    BY DEF Receive, listing
  <1>3. page # {} =>
          /\ cursor' \in page
          /\ WellKeyed(page) => \A i \in page : ~ IsPast(i)'
          /\ \A i \in Rows : ~ IsPast(i) => ~ IsPast(i)'
          /\ \A i \in present \ page : WellKeyed(page \cup {i}) /\ IsPast(i) => IsPast(i)'
    BY <1>0, CursorMoves
  <1>4. page = {} => \A i \in Rows : IsPast(i)' = IsPast(i)
    BY <1>2 DEF IsPast, Newer
  <1>5. \A S : WellKeyed(S)' <=> WellKeyed(S)
    BY <1>2 DEF WellKeyed, InOrder
  <1>6. ListTypeOK'
    BY <1>0, <1>1, <1>2, <1>3 DEF ListTypeOK
  <1>7. GotIsBehind'
    <2> SUFFICES ASSUME WellKeyed(got \cup page)
                 PROVE  twice' = {} /\ \A i \in got \cup page : ~ IsPast(i)'
      BY <1>2 DEF GotIsBehind, WellKeyed, InOrder
    <2>1. WellKeyed(got) /\ WellKeyed(page)
      BY FewerKeyed
    <2>2. twice = {} /\ \A i \in got : ~ IsPast(i)
      BY <1>0, <2>1 DEF GotIsBehind
    <2>3. twice' = {}
      BY <1>1, <1>2, <2>2
    <2>4. QED
      BY <1>1, <1>3, <1>4, <2>1, <2>2, <2>3
  <1>8. ASSUME NEW i \in throughout \ got, WellKeyed(got \cup {i}) PROVE i \in F
    BY <1>0, <1>1, <1>2, <1>8 DEF RestIsAhead
  <1>9. RestIsAhead'
    <2> SUFFICES ASSUME NEW i \in throughout \ (got \cup page), WellKeyed((got \cup page) \cup {i})
                 PROVE  IsPast(i)'
      BY <1>2 DEF RestIsAhead, WellKeyed, InOrder
    <2>1. WellKeyed(got \cup {i}) /\ WellKeyed(page \cup {i})
      BY FewerKeyed
    <2>2. i \in F
      BY <1>8, <2>1
    <2>3. QED
      BY <1>1, <1>3, <1>4, <2>1, <2>2
  <1>10. CountCovers'
    BY <1>2 DEF CountCovers
  <1>11. PagesCover'
    <2> SUFFICES ASSUME ~ more, kind = "inbox" => asked <= MaxSize,
                        kind \in {"cases", "evidence"} => ~ slipped,
                        WellKeyed((got \cup page) \cup throughout),
                        NEW i \in throughout, i \notin got
                 PROVE  i \in page
      BY <1>2 DEF PagesCover, WellKeyed, InOrder
    <2>1. i \in F
      <3>1. WellKeyed(got \cup {i})
        BY FewerKeyed
      <3>2. QED
        BY <1>8, <3>1
    <2>2. CASE Cardinality(page) # size
      <3>1. Cardinality(page) = Cardinality(F)
        BY <1>1, <2>2 DEF Lesser
      <3>2. F \in SUBSET Rows /\ page \in SUBSET F
        BY <1>1
      <3>3. F = page
        BY <3>1, <3>2, RowsFinite
      <3>4. QED
        BY <2>1, <3>3
    <2>3. CASE kind \in {"cases", "evidence"} /\ total <= Cardinality(page)
      <3>1. page \in SUBSET present /\ present \in SUBSET Rows
        BY <1>1
      <3>2. Cardinality(present) <= total /\ total \in Nat
        BY <1>0, <1>2, <2>3 DEF CountCovers, ListTypeOK
      <3>3. Cardinality(present) <= Cardinality(page)
        BY <2>3, <3>1, <3>2, RowsFinite
      <3>4. page = present
        BY <3>1, <3>3, RowsFinite
      <3>5. QED
        BY <1>1, <3>4
    <2>4. QED
      BY <2>2, <2>3 DEF NoMore
  <1>12. QED
    BY <1>6, <1>7, <1>9, <1>10, <1>11 DEF PagesInv

\* What each SELECT finds is what is past the cursor, in the order of its listing,
\* and none says that there is no more while it may know better.
LEMMA SelectsKeep ==
  ASSUME PagesInv, SelectCases \/ SelectEvidence \/ SelectCustody \/ SelectInbox
  PROVE  PagesInv'
  <1> DEFINE F == {i \in present : IsPast(i)}
             limit == ClampPagination(asked)
  <1>0. asked \in Nat /\ MaxSize \in Nat /\ DefaultSize \in 1..MaxSize /\ total \in Nat
        /\ \A S \in SUBSET present : Cardinality(S) \in Nat
    BY ListingsAssumption, RowsFinite DEF PagesInv, ListTypeOK
  <1>1. CASE SelectCases
    <2>1. FindAll = [rows |-> F, order |-> "id"] /\ kind = "cases"
      BY <1>1 DEF SelectCases, FindAll, PastCursor, IsPast
    <2>2. PICK page \in SUBSET FindAll.rows :
            /\ IsPage(page, FindAll, limit)
            /\ Receive(FindAll, page, Cardinality(page) = limit /\ total > limit)
      BY <1>1 DEF SelectCases
    <2> DEFINE more == Cardinality(page) = limit /\ total > limit
    <2>3. limit \in Nat
      BY <1>0 DEF ClampPagination, Lesser
    <2>4. ~ more => NoMore(page, limit)
      BY <1>0, <2>1, <2>3 DEF NoMore
    <2>5. QED
      BY <2>1, <2>2, <2>4, PageKeeps
  <1>2. CASE SelectEvidence
    <2>1. FindByCase = [rows |-> F, order |-> "time"] /\ kind = "evidence"
      BY <1>2 DEF SelectEvidence, FindByCase, PastCursor, IsPast
    <2>2. PICK page \in SUBSET FindByCase.rows :
            /\ IsPage(page, FindByCase, limit)
            /\ Receive(FindByCase, page, Cardinality(page) = limit /\ total > limit)
      BY <1>2 DEF SelectEvidence
    <2> DEFINE more == Cardinality(page) = limit /\ total > limit
    <2>3. limit \in Nat
      BY <1>0 DEF ClampPagination, Lesser
    <2>4. ~ more => NoMore(page, limit)
      BY <1>0, <2>1, <2>3 DEF NoMore
    <2>5. QED
      BY <2>1, <2>2, <2>4, PageKeeps
  <1>3. CASE SelectCustody
    <2>1. ListByEvidence = [rows |-> F, order |-> "time"] /\ kind = "custody"
      BY <1>3 DEF SelectCustody, ListByEvidence, PastCursor, IsPast
    <2>2. PICK page \in SUBSET ListByEvidence.rows :
            /\ IsPage(page, ListByEvidence, CustodyLimit)
            /\ Receive(ListByEvidence, page, Cardinality(page) = CustodyLimit)
      BY <1>3 DEF SelectCustody
    <2>3. QED
      BY <2>1, <2>2, PageKeeps DEF NoMore
  <1>4. CASE SelectInbox
    <2>1. ListByUser = [rows |-> F, order |-> "time"] /\ kind = "inbox"
      BY <1>4 DEF SelectInbox, ListByUser, IsPast
    <2>2. PICK page \in SUBSET ListByUser.rows :
            /\ IsPage(page, ListByUser, ClampPagination(InboxLimit))
            /\ Receive(ListByUser, page, Cardinality(page) = InboxLimit)
      BY <1>4 DEF SelectInbox
    <2>3. asked <= MaxSize => ClampPagination(InboxLimit) = InboxLimit
      BY <1>0 DEF ClampPagination, InboxLimit, Lesser
    <2>4. QED
      BY <2>1, <2>2, <2>3, PageKeeps DEF NoMore
  <1>5. QED
    BY <1>1, <1>2, <1>3, <1>4

\* COUNT, a failed query and the rows that come and go keep it too.
LEMMA OthersKeep ==
  ASSUME PagesInv, Count \/ QueryFails \/ \E i \in Rows : Enter(i) \/ Leave(i)
  PROVE  PagesInv'
  <1>0. ListTypeOK /\ GotIsBehind /\ RestIsAhead /\ CountCovers
    BY DEF PagesInv
  <1>1. CASE Count
    <2>1. present \subseteq Rows
      BY <1>0 DEF ListTypeOK
    <2>2. Cardinality(present) \in Nat
      BY <2>1, RowsFinite
    <2>3. ListTypeOK' /\ GotIsBehind' /\ RestIsAhead'
      BY <1>0, <1>1, <2>2
      DEF Count, listing, ListTypeOK, GotIsBehind, RestIsAhead, WellKeyed, InOrder, IsPast, Newer
    <2>4. CountCovers' /\ PagesCover'
      BY <1>1, <2>2 DEF Count, CountCovers, PagesCover
    <2>5. QED
      BY <2>3, <2>4 DEF PagesInv
  <1>2. CASE QueryFails
    BY <1>0, <1>2
    DEF QueryFails, Underway, listing, PagesInv, ListTypeOK, GotIsBehind, RestIsAhead,
        WellKeyed, InOrder, IsPast, Newer, CountCovers, PagesCover
  <1>3. ASSUME NEW i \in Rows, Enter(i) PROVE PagesInv'
    <2>1. /\ present' = present \cup {i} /\ slipped' = (slipped \/ at = "select")
          /\ at \in {"count", "select"}
          /\ UNCHANGED <<kind, time, asked, at, cursor, total, got, twice, throughout>>
      BY <1>3 DEF Enter, Underway, listing, reader
    <2>2. ListTypeOK' /\ CountCovers' /\ PagesCover'
      BY <1>0, <2>1 DEF ListTypeOK, CountCovers, PagesCover
    <2>3. GotIsBehind' /\ RestIsAhead'
      BY <1>0, <2>1 DEF GotIsBehind, RestIsAhead, WellKeyed, InOrder, IsPast, Newer
    <2>4. QED
      BY <2>2, <2>3 DEF PagesInv
  <1>4. ASSUME NEW i \in Rows, Leave(i) PROVE PagesInv'
    <2>1. /\ present' = present \ {i} /\ throughout' = throughout \ {i}
          /\ at \in {"count", "select"}
          /\ UNCHANGED <<kind, time, asked, at, cursor, total, got, twice, slipped>>
      BY <1>4 DEF Leave, Underway, listing, reader
    <2>2. ListTypeOK' /\ PagesCover'
      BY <1>0, <2>1 DEF ListTypeOK, PagesCover
    <2>3. CountCovers'
      <3>1. present' \in SUBSET present /\ present \in SUBSET Rows /\ total \in Nat
        BY <1>0, <2>1 DEF ListTypeOK
      <3>2. /\ Cardinality(present') <= Cardinality(present)
            /\ Cardinality(present') \in Nat /\ Cardinality(present) \in Nat
        BY <3>1, RowsFinite
      <3>3. QED
        BY <1>0, <2>1, <3>1, <3>2 DEF CountCovers
    <2>4. GotIsBehind' /\ RestIsAhead'
      BY <1>0, <2>1 DEF GotIsBehind, RestIsAhead, WellKeyed, InOrder, IsPast, Newer
    <2>5. QED
      BY <2>2, <2>3, <2>4 DEF PagesInv
  <1>5. QED
    BY <1>1, <1>2, <1>3, <1>4

\* The cursor separates what the client has from what it has still to see.
THEOREM CursorSeparates == ListSpec => []PagesInv
  <1>1. ListInit => PagesInv
    <2> SUFFICES ASSUME ListInit PROVE PagesInv
      OBVIOUS
    <2>1. time \in [Rows -> Nat]
      BY DEF ListInit
    <2>2. ListTypeOK
      BY <2>1 DEF ListInit, ListTypeOK
    <2>3. GotIsBehind /\ RestIsAhead /\ CountCovers /\ PagesCover
      BY DEF ListInit, GotIsBehind, RestIsAhead, CountCovers, PagesCover, IsPast
    <2>4. QED
      BY <2>2, <2>3 DEF PagesInv
  <1>2. PagesInv /\ [ListNext]_listVars => PagesInv'
    <2> SUFFICES ASSUME PagesInv, [ListNext]_listVars PROVE PagesInv'
      OBVIOUS
    <2>1. CASE ListNext
      BY <2>1, SelectsKeep, OthersKeep DEF ListNext, Reading
    <2>2. CASE UNCHANGED listVars
      BY <2>2
      DEF listVars, listing, reader, PagesInv, ListTypeOK, GotIsBehind, RestIsAhead,
          WellKeyed, InOrder, IsPast, Newer, CountCovers, PagesCover
    <2>3. QED
      BY <2>1, <2>2
  <1>3. QED
    BY <1>1, <1>2, PTL DEF ListSpec

\* No row is on two pages where the cursor agrees with the order, or the ids read
\* happen to, whatever comes and goes meanwhile.
THEOREM NoRowTwice == ListSpec => []PagesNeverRepeat
  <1>1. PagesInv => PagesNeverRepeat
    BY DEF PagesInv, GotIsBehind, PagesNeverRepeat
  <1>2. QED
    BY <1>1, CursorSeparates, PTL

\* There, a client that has read to the end has seen every row that was there all
\* the time.
THEOREM NoRowMissed == ListSpec => []PagesCover
  <1>1. PagesInv => PagesCover
    BY DEF PagesInv
  <1>2. QED
    BY <1>1, CursorSeparates, PTL
==============================================================================
