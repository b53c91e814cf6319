---------------------------- MODULE CaseLifecycle ----------------------------
(***************************************************************************)
(* The life of one case (internal/cases/service.go): UpdateCase,           *)
(* ArchiveCase and SetLegalHold, called by concurrent request handlers.    *)
(* Each reads the case row, decides, and later writes one or two columns   *)
(* with an UPDATE that repeats none of the checks; the custody event       *)
(* follows in a transaction of its own and its failure is ignored.         *)
(* Cases do not share state, so one case is enough.                        *)
(***************************************************************************)
EXTENDS Integers, FiniteSets

CONSTANTS
  Handlers,   \* request goroutines
  MaxCalls    \* bound on the calls that get past their first check

ASSUME CaseAssumption == MaxCalls \in Nat

VARIABLES
  status,     \* cases.status
  hold,       \* cases.legal_hold
  stage,      \* how far each handler is
  call,       \* what each handler is doing
  overtaken,  \* handlers whose column another call has changed since their check
              \* (history)
  changed,    \* UPDATEs that changed the status or the hold, by custody action
  repeated,   \* UPDATEs of overtaken calls that changed nothing (history)
  recorded,   \* number of custody events, by custody action
  calls       \* calls counted against MaxCalls

history  == <<overtaken, changed, repeated>>
caseVars == <<status, hold, stage, call, history, recorded, calls>>

Statuses == {"active", "closed", "archived"}
Keep     == "keep"      \* an UpdateCaseInput without a status
Nothing  == "nothing"   \* an UpdateCaseInput without any field
Inputs   == Statuses \cup {Keep, Nothing}

CustodyActions ==
  {"case_updated", "case_archived", "legal_hold_set", "legal_hold_released"}

\* Seeded bug: a case may be reopened.
TransitionsWithReopen(from, to) ==
  <<from, to>> \in {<<"active", "closed">>, <<"closed", "archived">>, <<"closed", "active">>}

\* validStatusTransitions
IsValidStatusTransition(from, to) ==
  <<from, to>> \in {<<"active", "closed">>, <<"closed", "archived">>}

NoCall == [action |-> "none", to |-> Keep]
Call   == [action : CustodyActions \cup {"none"}, to : Inputs]

CaseInit ==
  /\ status = "active"          \* CreateCase
  /\ hold = FALSE
  /\ stage = [h \in Handlers |-> "idle"]
  /\ call = [h \in Handlers |-> NoCall]
  /\ overtaken = {}
  /\ changed = [a \in CustodyActions |-> 0]
  /\ repeated = [a \in CustodyActions |-> 0]
  /\ recorded = [a \in CustodyActions |-> 0]
  /\ calls = 0

\* A call that passed its first check; one that did not returns at once.
Start(h, next, action, to) ==
  /\ stage[h] = "idle"
  /\ calls < MaxCalls
  /\ calls' = calls + 1
  /\ stage' = [stage EXCEPT ![h] = next]
  /\ call' = [call EXCEPT ![h] = [action |-> action, to |-> to]]
  /\ overtaken' = overtaken \ {h}
  /\ UNCHANGED <<status, hold, changed, repeated, recorded>>

Finish(h) ==
  /\ stage' = [stage EXCEPT ![h] = "idle"]
  /\ call' = [call EXCEPT ![h] = NoCall]

------------------------------------------------------------------------------
(* UpdateCase: FindByID, refuse an archived case ...                        *)
UpdateCase(h, to) ==
  /\ status # "archived"
  /\ Start(h, "validate", "case_updated", to)

(* ... validateUpdateInput, which reads the case again if a status is asked *)
(* for.  Nothing here, or below, looks at the legal hold.                   *)
ValidateUpdate(h) ==
  /\ stage[h] = "validate"
  /\ \/ /\ call[h].to \in Statuses => IsValidStatusTransition(status, call[h].to)
        /\ stage' = [stage EXCEPT ![h] = "write"]
        /\ UNCHANGED call
     \/ /\ call[h].to \in Statuses /\ ~IsValidStatusTransition(status, call[h].to)
        /\ Finish(h)
  /\ UNCHANGED <<status, hold, history, recorded, calls>>

(* Seeded bug: no check of the transition.                                  *)
ArchiveFromAnyStatus(h) ==
  /\ ~hold
  /\ status # "archived"
  /\ Start(h, "write", "case_archived", "archived")

(* ArchiveCase: FindByID; refuse under legal hold; an archived case is done *)
(* already; refuse any other transition.                                    *)
ArchiveCase(h) ==
  /\ ~hold
  /\ IsValidStatusTransition(status, "archived")
  /\ Start(h, "write", "case_archived", "archived")

(* Seeded bugs: no check of the value; no check of the status.              *)
SetLegalHoldAgain(h, value) ==
  /\ status # "archived"
  /\ Start(h, "write", IF value THEN "legal_hold_set" ELSE "legal_hold_released", Keep)

SetLegalHoldAnyStatus(h, value) ==
  /\ hold # value
  /\ Start(h, "write", IF value THEN "legal_hold_set" ELSE "legal_hold_released", Keep)

(* SetLegalHold: FindByID; refuse an archived case; the same value is done. *)
SetLegalHold(h, value) ==
  /\ status # "archived"
  /\ hold # value
  /\ Start(h, "write", IF value THEN "legal_hold_set" ELSE "legal_hold_released", Keep)

CountIf(yes, counts, a) == IF yes THEN [counts EXCEPT ![a] = @ + 1] ELSE counts
RowChanges == status' # status \/ hold' # hold

\* Calls under way whose check looked at the column that changes.
Overtakes(h) ==
  {g \in Handlers \ {h} : stage[g] = "write" /\
     \/ status' # status /\ call[g].action = "case_archived"
     \/ hold' # hold /\ call[g].action \in {"legal_hold_set", "legal_hold_released"}}

(* PGRepository.Update, Archive and SetLegalHold: UPDATE ... WHERE id = $n; *)
(* an Update without a field is a read, and is recorded all the same.       *)
Write(h) ==
  /\ stage[h] = "write"
  /\ status' = IF call[h].to \in Statuses THEN call[h].to ELSE status
  /\ hold' = CASE call[h].action = "legal_hold_set"      -> TRUE
               [] call[h].action = "legal_hold_released" -> FALSE
               [] OTHER                                  -> hold
  /\ changed' = CountIf(RowChanges, changed, call[h].action)
  /\ repeated' = CountIf(~ RowChanges /\ h \in overtaken, repeated, call[h].action)
  /\ overtaken' = (overtaken \ {h}) \cup Overtakes(h)
  /\ stage' = [stage EXCEPT ![h] = "record"]
  /\ UNCHANGED <<call, recorded, calls>>

(* _ = s.custody.RecordCaseEvent(...)                                       *)
Record(h) ==
  /\ stage[h] = "record"
  /\ recorded' = [recorded EXCEPT ![call[h].action] = @ + 1]
  /\ Finish(h)
  /\ UNCHANGED <<status, hold, history, calls>>

(* An error of the read, the write or the custody insert, or the end of the *)
(* process: the call returns where it is.                                   *)
Fail(h) ==
  /\ stage[h] # "idle"
  /\ Finish(h)
  /\ UNCHANGED <<status, hold, history, recorded, calls>>

CaseNext ==
  \/ \E h \in Handlers, to \in Inputs : UpdateCase(h, to)
  \/ \E h \in Handlers : ValidateUpdate(h)
  \/ \E h \in Handlers : ArchiveCase(h)
  \/ \E h \in Handlers, value \in BOOLEAN : SetLegalHold(h, value)
  \/ \E h \in Handlers : Write(h)
  \/ \E h \in Handlers : Record(h)
  \/ \E h \in Handlers : Fail(h)

CaseSpec == CaseInit /\ [][CaseNext]_caseVars

------------------------------------------------------------------------------
(* Properties.                                                              *)

\* Every variable stays in the set it is meant to range over.
CaseTypeOK ==
  /\ status \in Statuses
  /\ hold \in BOOLEAN
  /\ stage \in [Handlers -> {"idle", "validate", "write", "record"}]
  /\ call \in [Handlers -> Call]
  /\ \A h \in Handlers : stage[h] # "idle" => call[h].action # "none"
  /\ overtaken \subseteq Handlers
  /\ changed \in [CustodyActions -> Nat]
  /\ repeated \in [CustodyActions -> Nat]
  /\ recorded \in [CustodyActions -> Nat]
  /\ calls \in Nat

\* However handlers interleave, a case that left "active" never returns to it.
NeverReopened == [][status' = "active" => status = "active"]_caseVars

\* A case is archived only from "closed", although the write that archives it
\* does not look at the status and the check that did may be long past.
ClosedBeforeArchived ==
  [][status' = "archived" => status # "active"]_caseVars

\* Why: whoever is about to archive has seen "closed", and no writer restores
\* "active".
PendingWrites ==
  \A h \in Handlers : stage[h] = "write" =>
    /\ call[h].to # "active"
    /\ call[h].to = "archived" => status # "active"

CaseInv == CaseTypeOK /\ PendingWrites

Recording(a) == {h \in Handlers : stage[h] = "record" /\ call[h].action = a}

\* Every event of an archiving or of the hold, written or still owed, is of an UPDATE
\* that changed its column, or of a call that was overtaken: between its check and its
\* UPDATE another call changed the same column, and left it nothing to change.  No
\* call that ran alone is recorded for nothing, and none is recorded twice
\* (ArchiveCase, SetLegalHold).
NoPhantomEvents ==
  \A a \in CustodyActions \ {"case_updated"} :
    recorded[a] + Cardinality(Recording(a)) <= changed[a] + repeated[a]

\* Why: only finitely many calls are under way, and one that is about to write and
\* was not overtaken still finds the value it is to change.
Busy        == {h \in Handlers : stage[h] # "idle"}
FindsChange ==
  \A h \in Handlers \ overtaken : stage[h] = "write" =>
    /\ call[h].action = "case_archived" => status # "archived"
    /\ call[h].action = "legal_hold_set" => ~ hold
    /\ call[h].action = "legal_hold_released" => hold

\* Only an UpdateCase validates, and a call that is recorded as an archiving is one.
CallsNamed ==
  \A h \in Handlers :
    /\ stage[h] = "validate" => call[h].action = "case_updated"
    /\ call[h].action = "case_archived" => call[h].to = "archived"

EventInv == IsFiniteSet(Busy) /\ CallsNamed /\ FindsChange /\ NoPhantomEvents

\* Nobody is between a check and a write.
NoneBetween == \A h \in Handlers : stage[h] \notin {"validate", "write"}

\* Archiving settles a case: once the calls that were between their checks and
\* their writes when it was archived have ended, its status and its hold never
\* change again.  (Until then they may: an UpdateCase that validated "closed" before
\* writes it over "archived".)
ArchiveSettles ==
  [][status = "archived" /\ NoneBetween
       => status' = "archived" /\ hold' = hold /\ NoneBetween']_caseVars

==============================================================================
