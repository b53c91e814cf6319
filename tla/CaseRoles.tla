------------------------------- MODULE CaseRoles -------------------------------
(***************************************************************************)
(* The roles of a case (internal/cases/roles.go) and who reads them while  *)
(* they change: handlers grant and revoke roles and record it in the       *)
(* custody log in a second step; a search (internal/search) reads them in  *)
(* two queries before it asks the index.                                   *)
(***************************************************************************)
EXTENDS Integers, FiniteSets

CONSTANTS
  Users,
  Roles,      \* the values of the column role ...
  Defence,    \* ... one of which sees disclosed evidence only
  Handlers,   \* goroutines of the handlers Assign and Revoke
  MaxCalls    \* bound on their calls

ASSUME RolesAssumption == Defence \in Roles /\ MaxCalls \in Nat

NoUser == "nobody"
NoRole == ""        \* revokedRole, if the list has no row of the user

VARIABLES
  roles,     \* case_roles: pairs of a user and a role, unique
  told,      \* the pairs that hold by the events in the custody log
  unnamed,   \* pairs that a revocation ended and whose role it did not name (history)
  muddled,   \* users with an event lost or written out of order (history)
  calls,     \* calls of the handlers so far
  pc,        \* where each handler is
  req,       \* the user and the role its event will name
  sought,    \* the search: its stage, user and filter
  seen       \* the sets of roles its user has had while it read them (history)

roleVars   == <<roles, told, unnamed, muddled, calls, pc, req>>
searchVars == <<sought, seen>>
caseRoleVars == <<roleVars, searchVars>>

RolesOf(u) == {r \in Roles : <<u, r>> \in roles}

NoSearch == [stage |-> "idle", user |-> NoUser, disclosedOnly |-> FALSE, answer |-> "none"]

RolesInit ==
  /\ roles \in SUBSET (Users \X Roles)
  /\ told = roles
  /\ unnamed = {}
  /\ muddled = {}
  /\ calls = 0
  /\ pc = [h \in Handlers |-> "idle"]
  /\ req = [h \in Handlers |-> <<>>]
  /\ sought = NoSearch
  /\ seen = {}

------------------------------------------------------------------------------
(* The handlers.                                                            *)

\* Handlers whose change of the user's roles is not yet in the custody log.
Unrecorded(u) == {h \in Handlers : pc[h] \in {"granted", "revoked"} /\ req[h][1] = u}

Goto(h, stage, pair) ==
  /\ pc' = [pc EXCEPT ![h] = stage]
  /\ req' = [req EXCEPT ![h] = pair]

Return(h) == Goto(h, "idle", <<>>)

\* The table changes under a search, and perhaps under an event still to come.
Change(u, new) ==
  /\ roles' = new
  /\ muddled' = IF Unrecorded(u) = {} THEN muddled ELSE muddled \cup {u}
  /\ seen' = IF sought.user = u /\ sought.stage = "roles"
             THEN seen \cup {{r \in Roles : <<u, r>> \in new}} ELSE seen
  /\ UNCHANGED <<told, sought>>

(* Assign inserts the row; the UNIQUE constraint refuses one that is there. *)
Assign(h, u, r) ==
  /\ pc[h] = "idle" /\ calls < MaxCalls
  /\ <<u, r>> \notin roles
  /\ calls' = calls + 1
  /\ Change(u, roles \cup {<<u, r>>})
  /\ unnamed' = unnamed \ {<<u, r>>}
  /\ Goto(h, "granted", <<u, r>>)

(* The event role_granted; its error is discarded.                          *)
RecordGranted(h) ==
  /\ pc[h] = "granted"
  /\ \/ told' = told \cup {req[h]} /\ UNCHANGED muddled
     \/ muddled' = muddled \cup {req[h][1]} /\ UNCHANGED told
  /\ Return(h)
  /\ UNCHANGED <<roles, unnamed, calls, searchVars>>

(* Revoke reads the roles of the case, and remembers the first of the user  *)
(* for the event.                                                           *)
ListByCaseID(h, u) ==
  /\ pc[h] = "idle" /\ calls < MaxCalls
  /\ calls' = calls + 1
  /\ \E r \in IF RolesOf(u) = {} THEN {NoRole} ELSE RolesOf(u) : Goto(h, "listed", <<u, r>>)
  /\ UNCHANGED <<roles, told, unnamed, muddled, searchVars>>

(* Seeded bug: only one of the user's rows is deleted.                      *)
RevokeOne(h) ==
  LET u == req[h][1] IN
  /\ pc[h] = "listed"
  /\ UNCHANGED calls
  /\ \E r \in RolesOf(u) : /\ Change(u, roles \ {<<u, r>>})
                          /\ unnamed' = (unnamed \cup {<<u, r>>}) \ {req[h]}
  /\ Goto(h, "revoked", req[h])

(* DELETE of every row of the user, which answers "not found" if there is   *)
(* none, also when the read has seen one.                                   *)
Revoke(h) ==
  LET u == req[h][1] IN
  /\ pc[h] = "listed"
  /\ UNCHANGED calls
  /\ \/ /\ RolesOf(u) # {}
        /\ Change(u, roles \ ({u} \X Roles))
        /\ unnamed' = (unnamed \cup ({u} \X RolesOf(u))) \ {req[h]}
        /\ Goto(h, "revoked", req[h])
     \/ /\ RolesOf(u) = {}
        /\ Return(h)
        /\ UNCHANGED <<roles, told, unnamed, muddled, searchVars>>

(* The event role_revoked, which names the one role that was listed before  *)
(* the DELETE; its error is discarded.                                      *)
RecordRevoked(h) ==
  /\ pc[h] = "revoked"
  /\ \/ told' = told \ {req[h]} /\ UNCHANGED muddled
     \/ muddled' = muddled \cup {req[h][1]} /\ UNCHANGED told
  /\ Return(h)
  /\ UNCHANGED <<roles, unnamed, calls, searchVars>>

HandlerStep(h) ==
  \/ \E u \in Users : ListByCaseID(h, u) \/ \E r \in Roles : Assign(h, u, r)
  \/ RecordGranted(h) \/ Revoke(h) \/ RecordRevoked(h)

------------------------------------------------------------------------------
(* A search by a user who is not a system administrator (whose search is    *)
(* not filtered).                                                           *)

(* Seeded bug: a user without a case is not answered at once.               *)
GetUserCaseIDsOnly(u) ==
  /\ sought.stage = "idle"
  /\ seen' = {RolesOf(u)}
  /\ sought' = [NoSearch EXCEPT !.stage = "roles", !.user = u]
  /\ UNCHANGED roleVars

(* GetUserCaseIDs: without a role the answer is empty, and the index is not *)
(* asked; otherwise the filter is the list that was read.                   *)
GetUserCaseIDs(u) ==
  /\ sought.stage = "idle"
  /\ seen' = {RolesOf(u)}
  /\ sought' = IF RolesOf(u) = {}
               THEN [NoSearch EXCEPT !.stage = "answered", !.user = u, !.answer = "nothing"]
               ELSE [NoSearch EXCEPT !.stage = "roles", !.user = u]
  /\ UNCHANGED roleVars

(* GetUserCaseRoles keeps one role of the case, the last row read; by now   *)
(* there may be none.                                                       *)
GetUserCaseRoles ==
  /\ sought.stage = "roles"
  /\ \/ \E r \in RolesOf(sought.user) :
          sought' = [sought EXCEPT !.stage = "query", !.disclosedOnly = (r = Defence)]
     \/ RolesOf(sought.user) = {} /\ sought' = [sought EXCEPT !.stage = "query"]
  /\ UNCHANGED <<roleVars, seen>>

(* SearchEvidence, with case_id IN the list and is_disclosed = true if need *)
(* be (buildEvidenceFilter).                                                *)
SearchEvidence ==
  /\ sought.stage = "query"
  /\ sought' = [sought EXCEPT !.stage = "answered",
                              !.answer = IF sought.disclosedOnly THEN "disclosed" ELSE "all"]
  /\ UNCHANGED <<roleVars, seen>>

(* A query fails; the client is told so.                                    *)
SearchFails ==
  /\ sought.stage \in {"roles", "query"}
  /\ sought' = [sought EXCEPT !.stage = "answered", !.answer = "nothing"]
  /\ UNCHANGED <<roleVars, seen>>

SearchStep ==
  \/ \E u \in Users : GetUserCaseIDs(u)
  \/ GetUserCaseRoles \/ SearchEvidence \/ SearchFails

RolesNext == SearchStep \/ \E h \in Handlers : HandlerStep(h)

------------------------------------------------------------------------------
(* Properties.                                                              *)

(* The custody log never denies a role that a user has, and of those it     *)
(* does not have it claims only those that a revocation has ended without   *)
(* naming them: the DELETE ends every role of the user and the event names  *)
(* one, which was read before (Revoke).  Excepted are users with a change   *)
(* still to be recorded, with an event that failed, or whose roles were     *)
(* changed again before the last change was recorded.                       *)
LogMatchesRoles ==
  \A u \in Users \ muddled : Unrecorded(u) = {} =>
    \A r \in Roles : <<u, r>> \in told <=> <<u, r>> \in roles \cup unnamed

(* The answer to a search, whose two reads of case_roles may be overtaken   *)
(* by grants and revocations: documents only to a user who had a role at    *)
(* some moment from the first read to the second, only the disclosed ones   *)
(* only if the defence was among them, and all of them never to a user who  *)
(* had no role but the defence from the first read to the second: there     *)
(* was another role, or there was none at all.  (The last case is what the  *)
(* code does against the comment "Defence users may only see disclosed      *)
(* evidence": a filter without a role is no filter.)                        *)
AnswerFitsRoles ==
  /\ sought.answer \in {"disclosed", "all"} => \E S \in seen : S # {}
  /\ sought.answer = "disclosed" => \E S \in seen : Defence \in S
  /\ sought.answer = "all" => {} \in seen \/ \E S \in seen : S \ {Defence} # {}

(* What makes the two inductive.  A handler that has a change still to      *)
(* record works on a pair of its user and of a role, or of none.            *)
RolesTypeOK ==
  /\ roles \subseteq Users \X Roles
  /\ told \subseteq Users \X Roles
  /\ unnamed \subseteq Users \X Roles
  /\ muddled \subseteq Users
  /\ pc \in [Handlers -> {"idle", "granted", "listed", "revoked"}]
  /\ req \in [Handlers -> {<<>>} \cup (Users \X (Roles \cup {NoRole}))]
  /\ \A h \in Handlers :
       /\ pc[h] = "granted" => req[h] \in Users \X Roles
       /\ pc[h] \in {"listed", "revoked"} => req[h] \in Users \X (Roles \cup {NoRole})

\* Of a user who is not muddled one change at most is unrecorded, and the log
\* lacks that change and nothing else.
OneUnrecorded == \A u \in Users \ muddled : \A g, h \in Unrecorded(u) : g = h

LogLacksChange ==
  \A h \in Handlers : pc[h] \in {"granted", "revoked"} /\ req[h][1] \notin muddled =>
    \A r \in Roles :
      LET pair == <<req[h][1], r>> IN
      pair \in roles \cup unnamed <=>
        IF pc[h] = "granted" THEN pair \in told \/ r = req[h][2]
                             ELSE pair \in told /\ r # req[h][2]

RoleLogInv == RolesTypeOK /\ OneUnrecorded /\ LogLacksChange /\ LogMatchesRoles

\* What a search has read is among what its user has had since it began.
SearchInv ==
  /\ sought \in [stage : {"idle", "roles", "query", "answered"}, user : Users \cup {NoUser},
                 disclosedOnly : BOOLEAN, answer : {"none", "nothing", "disclosed", "all"}]
  /\ sought.stage # "answered" => sought.answer = "none"
  /\ sought.stage = "roles" => RolesOf(sought.user) \in seen /\ ~ sought.disclosedOnly
  /\ sought.stage \in {"roles", "query"} => sought.user \in Users /\ \E S \in seen : S # {}
  /\ sought.stage = "query" =>
       IF sought.disclosedOnly THEN \E S \in seen : Defence \in S
                               ELSE {} \in seen \/ \E S \in seen : S \ {Defence} # {}
  /\ AnswerFitsRoles

==============================================================================
