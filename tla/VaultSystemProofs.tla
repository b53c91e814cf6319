------------------------- MODULE VaultSystemProofs --------------------------
(***************************************************************************)
(* Proofs about CaseLifecycle for any number of handlers, and about its    *)
(* composition with EvidenceVault.  The argument about the case rests on   *)
(* PendingWrites: what a handler is about to write was justified by a      *)
(* status it read, and that justification cannot be undone, because        *)
(* "active" is never written again.  The composition then takes no other   *)
(* step than each service takes alone, so what is proved of either holds   *)
(* of the system.                                                          *)
(***************************************************************************)
EXTENDS VaultSystem, FiniteSetTheorems, TLAPS

\* The initial state has its type and no write pending.
LEMMA CaseInvInit == CaseInit => CaseInv
<1> SUFFICES ASSUME CaseInit PROVE CaseInv
  OBVIOUS
<1> USE DEF CaseInit
<1>1. NoCall \in Call
  BY DEF NoCall, Call, Inputs
<1>2. status \in Statuses /\ hold \in BOOLEAN /\ calls \in Nat
  BY DEF Statuses
<1>3. /\ stage \in [Handlers -> {"idle", "validate", "write", "record"}]
      /\ call \in [Handlers -> Call]
      /\ overtaken \subseteq Handlers
      /\ changed \in [CustodyActions -> Nat] /\ repeated \in [CustodyActions -> Nat]
      /\ recorded \in [CustodyActions -> Nat]
  BY <1>1
<1>4. \A h \in Handlers : stage[h] = "idle"
  OBVIOUS
<1>5. QED
  BY <1>2, <1>3, <1>4 DEF CaseInv, CaseTypeOK, PendingWrites

\* Every step keeps every variable in its set.
LEMMA CaseTypeStep == CaseTypeOK /\ [CaseNext]_caseVars => CaseTypeOK'
<1> SUFFICES ASSUME CaseTypeOK, [CaseNext]_caseVars PROVE CaseTypeOK'
  OBVIOUS
<1> USE DEF CaseTypeOK, Call, CustodyActions, Statuses, Inputs, Keep, Nothing, history
<1>1. ASSUME NEW h \in Handlers, NEW to \in Inputs, UpdateCase(h, to)
      PROVE  CaseTypeOK'
  BY <1>1 DEF UpdateCase, Start
<1>2. ASSUME NEW h \in Handlers, ValidateUpdate(h)
      PROVE  CaseTypeOK'
  <2>1. CASE stage' = [stage EXCEPT ![h] = "write"] /\ UNCHANGED call
    BY <1>2, <2>1 DEF ValidateUpdate
  <2>2. CASE Finish(h)
    BY <1>2, <2>2 DEF ValidateUpdate, Finish, NoCall
  <2>3. QED
    BY <1>2, <2>1, <2>2 DEF ValidateUpdate
<1>3. ASSUME NEW h \in Handlers, ArchiveCase(h)
      PROVE  CaseTypeOK'
  BY <1>3 DEF ArchiveCase, Start
<1>4. ASSUME NEW h \in Handlers, NEW value \in BOOLEAN, SetLegalHold(h, value)
      PROVE  CaseTypeOK'
  BY <1>4 DEF SetLegalHold, Start
<1>5. ASSUME NEW h \in Handlers, Write(h)
      PROVE  CaseTypeOK'
  <2>1. call[h].action \in CustodyActions
    BY <1>5 DEF Write
  <2>2. /\ changed' \in [CustodyActions -> Nat] /\ repeated' \in [CustodyActions -> Nat]
        /\ overtaken' \subseteq Handlers
    <3>1. ASSUME NEW yes, NEW counts \in [CustodyActions -> Nat]
          PROVE  CountIf(yes, counts, call[h].action) \in [CustodyActions -> Nat]
      <4> DEFINE a == call[h].action
      <4>1. a \in CustodyActions
        BY <2>1
      <4> HIDE DEF a
      <4>2. [counts EXCEPT ![a] = @ + 1] \in [CustodyActions -> Nat]
        BY <4>1
      <4>3. QED
        BY <4>2 DEF CountIf, a
    <3>2. overtaken' \subseteq Handlers
      BY <1>5 DEF Write, Overtakes
    <3>3. QED
      BY <1>5, <3>1, <3>2 DEF Write
  <2>3. status' \in Statuses
    BY <1>5 DEF Write
  <2>4. hold' \in BOOLEAN
    BY <1>5 DEF Write
  <2>5. /\ stage' \in [Handlers -> {"idle", "validate", "write", "record"}]
        /\ \A g \in Handlers : stage'[g] # "idle" => call[g].action # "none"
    BY <1>5 DEF Write
  <2>6. UNCHANGED <<call, recorded, calls>>
    BY <1>5 DEF Write
  <2>7. QED
    BY <2>2, <2>3, <2>4, <2>5, <2>6
<1>6. ASSUME NEW h \in Handlers, Record(h)
      PROVE  CaseTypeOK'
  BY <1>6 DEF Record, Finish, NoCall
<1>7. ASSUME NEW h \in Handlers, Fail(h)
      PROVE  CaseTypeOK'
  BY <1>7 DEF Fail, Finish, NoCall
<1>8. CASE UNCHANGED caseVars
  BY <1>8 DEF caseVars
<1>9. QED
  BY <1>1, <1>2, <1>3, <1>4, <1>5, <1>6, <1>7, <1>8 DEF CaseNext

\* The only step that touches the status is Write, which keeps it away from
\* "active" and reaches "archived" only after "closed".
LEMMA StatusStep ==
  ASSUME CaseInv, [CaseNext]_caseVars
  PROVE  /\ status' = "active" => status = "active"
         /\ status' = "archived" => status # "active"
<1>1. ASSUME NEW h \in Handlers, Write(h)
      PROVE  /\ status' = "active" => status = "active"
             /\ status' = "archived" => status # "active"
  BY <1>1 DEF Write, CaseInv, PendingWrites
<1>2. UNCHANGED status \/ \E h \in Handlers : Write(h)
  BY DEF CaseNext, caseVars, UpdateCase, ValidateUpdate, ArchiveCase,
         SetLegalHold, Start, Record, Fail
<1>3. QED
  BY <1>1, <1>2, CaseInv DEF CaseInv, CaseTypeOK, Statuses, PendingWrites, Write

\* A write that is already pending stays justified, whoever takes the step.
LEMMA PendingStep ==
  ASSUME CaseInv, [CaseNext]_caseVars
  PROVE  PendingWrites'
<1>1. status' = "active" => status = "active"
  BY StatusStep
<1> SUFFICES ASSUME NEW g \in Handlers, stage'[g] = "write"
             PROVE  /\ call'[g].to # "active"
                    /\ call'[g].to = "archived" => status' # "active"
  BY DEF PendingWrites
<1>2. CASE stage[g] = "write" /\ call'[g] = call[g]
  BY <1>1, <1>2 DEF CaseInv, PendingWrites
<1> USE DEF CaseInv, CaseTypeOK, Statuses, Inputs, Keep, Nothing, PendingWrites
<1>3. ASSUME NEW h \in Handlers, NEW to \in Inputs, UpdateCase(h, to)
      PROVE  stage[g] = "write" /\ call'[g] = call[g]
  BY <1>3 DEF UpdateCase, Start
<1>4. ASSUME NEW h \in Handlers, ValidateUpdate(h)
      PROVE  \/ stage[g] = "write" /\ call'[g] = call[g]
             \/ /\ UNCHANGED <<call, status>>
                /\ call[g].to \in Statuses => IsValidStatusTransition(status, call[g].to)
  BY <1>4 DEF ValidateUpdate, Finish
<1>5. ASSUME NEW h \in Handlers, ArchiveCase(h)
      PROVE  \/ stage[g] = "write" /\ call'[g] = call[g]
             \/ /\ call'[g].to = "archived"
                /\ status' = status
                /\ IsValidStatusTransition(status, "archived")
  BY <1>5 DEF ArchiveCase, Start, Call
<1>6. ASSUME NEW h \in Handlers, NEW value \in BOOLEAN, SetLegalHold(h, value)
      PROVE  \/ stage[g] = "write" /\ call'[g] = call[g]
             \/ call'[g].to = Keep
  BY <1>6 DEF SetLegalHold, Start, Call
<1>7. ASSUME NEW h \in Handlers, Write(h) \/ Record(h) \/ Fail(h)
      PROVE  stage[g] = "write" /\ call'[g] = call[g]
  BY <1>7 DEF Write, Record, Fail, Finish
<1>8. CASE UNCHANGED caseVars
  BY <1>2, <1>8 DEF caseVars
<1>9. QED
  BY <1>2, <1>3, <1>4, <1>5, <1>6, <1>7, <1>8 DEF CaseNext, IsValidStatusTransition

\* Every variable of the case model stays in its set, for any set of handlers.
THEOREM CaseTypeCorrect == CaseSpec => []CaseTypeOK
<1>1. CaseInit => CaseTypeOK
  BY CaseInvInit DEF CaseInv
<1>2. QED
  BY <1>1, CaseTypeStep, PTL DEF CaseSpec

\* The inductive invariant: every pending write was justified, and still is.
THEOREM CaseInvariant == CaseSpec => []CaseInv
<1>1. CaseInv /\ [CaseNext]_caseVars => CaseInv'
  BY CaseTypeStep, PendingStep DEF CaseInv
<1>2. QED
  BY <1>1, CaseInvInit, PTL DEF CaseSpec

\* No interleaving of handlers returns a case to "active".
THEOREM CaseNeverReopens == CaseSpec => NeverReopened
<1>1. CaseInv /\ [CaseNext]_caseVars => [status' = "active" => status = "active"]_caseVars
  BY StatusStep
<1>2. QED
  BY <1>1, CaseInvariant, PTL DEF CaseSpec, NeverReopened

\* No interleaving of handlers archives a case that was never closed.
THEOREM CaseClosesFirst == CaseSpec => ClosedBeforeArchived
<1>1. CaseInv /\ [CaseNext]_caseVars
      => [status' = "archived" => status # "active"]_caseVars
  BY StatusStep
<1>2. QED
  BY <1>1, CaseInvariant, PTL DEF CaseSpec, ClosedBeforeArchived

\* Once a case is archived and no handler is between a check and a write, no step
\* gets one there: the first check of every call refuses an archived case.
LEMMA SettledStep ==
  ASSUME CaseTypeOK, [CaseNext]_caseVars, status = "archived", NoneBetween
  PROVE  status' = "archived" /\ hold' = hold /\ NoneBetween'
<1> USE DEF CaseTypeOK, NoneBetween
<1>1. ASSUME NEW h \in Handlers, ArchiveCase(h)
      PROVE  FALSE
  BY <1>1 DEF ArchiveCase, IsValidStatusTransition
<1>2. ASSUME NEW h \in Handlers, ValidateUpdate(h) \/ Write(h)
      PROVE  FALSE
  BY <1>2 DEF ValidateUpdate, Write
<1>3. ASSUME NEW h \in Handlers, NEW to \in Inputs, UpdateCase(h, to)
      PROVE  FALSE
  BY <1>3 DEF UpdateCase
<1>4. ASSUME NEW h \in Handlers, NEW value \in BOOLEAN, SetLegalHold(h, value)
      PROVE  FALSE
  BY <1>4 DEF SetLegalHold
<1>5. ASSUME NEW h \in Handlers, Record(h) \/ Fail(h)
      PROVE  status' = "archived" /\ hold' = hold /\ NoneBetween'
  BY <1>5 DEF Record, Fail, Finish
<1>6. CASE UNCHANGED caseVars
  BY <1>6 DEF caseVars
<1>7. QED
  BY <1>1, <1>2, <1>3, <1>4, <1>5, <1>6 DEF CaseNext

\* After the calls that overlapped its archiving, an archived case is frozen.
THEOREM CaseSettles == CaseSpec => ArchiveSettles
<1>1. CaseTypeOK /\ [CaseNext]_caseVars
      => [status = "archived" /\ NoneBetween
            => status' = "archived" /\ hold' = hold /\ NoneBetween']_caseVars
  BY SettledStep
<1>2. QED
  BY <1>1, CaseTypeCorrect, PTL DEF CaseSpec, ArchiveSettles

------------------------------------------------------------------------------
(* The events.                                                              *)

\* At the start nothing is under way, changed or recorded.
LEMMA EventInvInit == CaseInit => EventInv
<1> SUFFICES ASSUME CaseInit PROVE EventInv
  OBVIOUS
<1>1. Busy = {}
  BY DEF CaseInit, Busy
<1>2. \A a \in CustodyActions : Recording(a) = {}
  BY DEF CaseInit, Recording
<1>3. \A a \in CustodyActions : recorded[a] = 0 /\ changed[a] = 0 /\ repeated[a] = 0
  BY DEF CaseInit
<1>4. NoPhantomEvents
  BY <1>2, <1>3, FS_EmptySet DEF NoPhantomEvents
<1>5. QED
  BY <1>1, <1>4, FS_EmptySet DEF EventInv, CallsNamed, FindsChange, CaseInit, NoCall

\* Calls that are recording are under way, so they can be counted.
LEMMA RecordingCounts ==
  ASSUME IsFiniteSet(Busy), NEW a
  PROVE  IsFiniteSet(Recording(a)) /\ Cardinality(Recording(a)) \in Nat
<1>1. Recording(a) \in SUBSET Busy
  BY DEF Recording, Busy
<1>2. QED
  BY <1>1, FS_Subset, FS_CardinalityType

\* A step that leaves who is recording, and both counts, alone.
LEMMA QuietEvents ==
  ASSUME NoPhantomEvents, UNCHANGED <<changed, repeated, recorded>>,
         \A a \in CustodyActions : Recording(a)' = Recording(a)
  PROVE  NoPhantomEvents'
BY DEF NoPhantomEvents

\* A call that starts is one more under way, and is not recording.
LEMMA StartEvents ==
  ASSUME CaseTypeOK, EventInv, NEW h \in Handlers, NEW next \in {"validate", "write"},
         NEW action \in CustodyActions, NEW to \in Inputs, Start(h, next, action, to),
         next = "validate" => action = "case_updated",
         action = "case_archived" => to = "archived" /\ status # "archived",
         action = "legal_hold_set" => ~ hold,
         action = "legal_hold_released" => hold
  PROVE  EventInv'
<1> USE DEF CaseTypeOK, Start
<1>1. Busy' = Busy \cup {h}
  BY DEF Busy
<1>2. IsFiniteSet(Busy')
  BY <1>1, FS_AddElement DEF EventInv
<1>3. CallsNamed'
  BY DEF CallsNamed, EventInv, Call
<1>4. \A a \in CustodyActions : Recording(a)' = Recording(a)
  BY DEF Recording
<1>5. NoPhantomEvents'
  BY <1>4, QuietEvents DEF EventInv
<1>6. FindsChange'
  BY DEF FindsChange, EventInv, Call
<1>7. QED
  BY <1>2, <1>3, <1>5, <1>6 DEF EventInv

\* A call that ends is one less under way; if it was recording, it no longer is.
LEMMA FinishEvents ==
  ASSUME CaseTypeOK, EventInv, NEW h \in Handlers, stage[h] # "idle", Finish(h),
         UNCHANGED <<status, hold, overtaken>>
  PROVE  /\ IsFiniteSet(Busy') /\ CallsNamed' /\ FindsChange'
         /\ \A a \in CustodyActions : Recording(a)' = Recording(a) \ {h}
<1> USE DEF CaseTypeOK, Finish
<1>1. Busy' = Busy \ {h}
  BY DEF Busy
<1>2. IsFiniteSet(Busy')
  BY <1>1, FS_RemoveElement DEF EventInv
<1>3. CallsNamed'
  BY DEF CallsNamed, EventInv, NoCall
<1>4. \A a \in CustodyActions : Recording(a)' = Recording(a) \ {h}
  BY DEF Recording
<1>5. FindsChange'
  BY DEF FindsChange, EventInv
<1>6. QED
  BY <1>2, <1>3, <1>4, <1>5

\* Every step keeps the events behind the changes.
LEMMA EventStep ==
  ASSUME CaseTypeOK, EventInv, [CaseNext]_caseVars
  PROVE  EventInv'
<1> USE DEF history
<1>1. ASSUME NEW h \in Handlers, NEW to \in Inputs, UpdateCase(h, to)
      PROVE  EventInv'
  BY <1>1, StartEvents DEF UpdateCase, CustodyActions
<1>2. ASSUME NEW h \in Handlers, ValidateUpdate(h)
      PROVE  EventInv'
  <2>1. CASE stage' = [stage EXCEPT ![h] = "write"] /\ UNCHANGED call
    <3>1. Busy' = Busy /\ \A a \in CustodyActions : Recording(a)' = Recording(a)
      BY <1>2, <2>1 DEF ValidateUpdate, Busy, Recording, CaseTypeOK
    <3>2. NoPhantomEvents'
      BY <1>2, <3>1, QuietEvents DEF EventInv, ValidateUpdate
    <3>3. CallsNamed' /\ FindsChange'
      BY <1>2, <2>1 DEF ValidateUpdate, EventInv, CallsNamed, FindsChange, CaseTypeOK
    <3>4. QED
      BY <3>1, <3>2, <3>3 DEF EventInv
  <2>2. CASE Finish(h)
    <3>1. stage[h] = "validate"
      BY <1>2 DEF ValidateUpdate
    <3>2. \A a \in CustodyActions : Recording(a)' = Recording(a)
      BY <1>2, <2>2, <3>1, FinishEvents DEF Recording, ValidateUpdate
    <3>3. NoPhantomEvents'
      BY <1>2, <3>2, QuietEvents DEF EventInv, ValidateUpdate
    <3>4. QED
      BY <1>2, <2>2, <3>1, <3>3, FinishEvents DEF EventInv, ValidateUpdate
  <2>3. QED
    BY <1>2, <2>1, <2>2 DEF ValidateUpdate
<1>3. ASSUME NEW h \in Handlers, ArchiveCase(h)
      PROVE  EventInv'
  BY <1>3, StartEvents
     DEF ArchiveCase, IsValidStatusTransition, CustodyActions, Inputs, Statuses, CaseTypeOK
<1>4. ASSUME NEW h \in Handlers, NEW value \in BOOLEAN, SetLegalHold(h, value)
      PROVE  EventInv'
  <2> DEFINE action == IF value THEN "legal_hold_set" ELSE "legal_hold_released"
  <2>1. /\ action \in CustodyActions /\ Keep \in Inputs
        /\ Start(h, "write", action, Keep)
        /\ action # "case_archived"
        /\ action = "legal_hold_set" => ~ hold
        /\ action = "legal_hold_released" => hold
    BY <1>4 DEF SetLegalHold, CustodyActions, Inputs, CaseTypeOK
  <2>2. QED
    BY <2>1, StartEvents
<1>5. ASSUME NEW h \in Handlers, Write(h)
      PROVE  EventInv'
  <2> PICK b \in CustodyActions : b = call[h].action
    BY <1>5 DEF Write, CaseTypeOK, Call
  <2>1. stage[h] = "write"
    BY <1>5 DEF Write
  <2>2. Busy' = Busy /\ UNCHANGED <<call, recorded>>
    BY <1>5 DEF Write, Busy, CaseTypeOK
  <2>3. CallsNamed' /\ IsFiniteSet(Busy') /\ FindsChange'
    <3>1. CallsNamed' /\ IsFiniteSet(Busy')
      BY <1>5, <2>2 DEF Write, CallsNamed, EventInv, CaseTypeOK
    <3>2. ASSUME NEW g \in Handlers \ {h}, g \notin overtaken', stage'[g] = "write"
          PROVE  /\ stage[g] = "write" /\ g \notin overtaken
                 /\ call[g].action = "case_archived" => status' = status
                 /\ call[g].action \in {"legal_hold_set", "legal_hold_released"} => hold' = hold
      BY <1>5, <3>2 DEF Write, Overtakes, CaseTypeOK
    <3>3. stage'[h] = "record"
      BY <1>5 DEF Write, CaseTypeOK
    <3>4. FindsChange'
      BY <2>2, <3>2, <3>3 DEF FindsChange, EventInv
    <3>5. QED
      BY <3>1, <3>4
  <2>4. Recording(b)' = Recording(b) \cup {h} /\ h \notin Recording(b)
    BY <1>5, <2>1, <2>2 DEF Write, Recording, CaseTypeOK
  <2>5. \A a \in CustodyActions \ {b} : Recording(a)' = Recording(a)
    BY <1>5, <2>1, <2>2 DEF Write, Recording, CaseTypeOK
  <2>6. \A a \in CustodyActions \ {b} : changed'[a] = changed[a] /\ repeated'[a] = repeated[a]
    BY <1>5, <2>1 DEF Write, CountIf, CaseTypeOK
  <2>7. b # "case_updated" => changed'[b] + repeated'[b] = changed[b] + repeated[b] + 1
    <3>1. CASE h \in overtaken
      BY <1>5, <3>1 DEF Write, CountIf, CaseTypeOK
    <3>2. CASE h \notin overtaken /\ b # "case_updated"
      <4>1. \/ b = "case_archived" /\ call[h].to = "archived" /\ status # "archived"
            \/ b = "legal_hold_set" /\ ~ hold
            \/ b = "legal_hold_released" /\ hold
        BY <2>1, <3>2 DEF EventInv, CallsNamed, FindsChange, CustodyActions
      <4>2. RowChanges
        BY <1>5, <4>1 DEF Write, RowChanges, Statuses
      <4>3. QED
        BY <1>5, <4>2 DEF Write, CountIf, CaseTypeOK
    <3>3. QED
      BY <3>1, <3>2
  <2>8. Cardinality(Recording(b)') = Cardinality(Recording(b)) + 1
    BY <2>4, RecordingCounts, FS_AddElement DEF EventInv
  <2>9. ASSUME NEW a \in CustodyActions \ {"case_updated"}
        PROVE  recorded'[a] + Cardinality(Recording(a)') <= changed'[a] + repeated'[a]
    <3>1. /\ recorded[a] + Cardinality(Recording(a)) <= changed[a] + repeated[a]
          /\ recorded[a] \in Nat /\ changed[a] \in Nat /\ repeated[a] \in Nat
          /\ Cardinality(Recording(a)) \in Nat
      BY RecordingCounts DEF EventInv, NoPhantomEvents, CaseTypeOK
    <3>2. CASE a = b
      BY <2>2, <2>7, <2>8, <3>1, <3>2
    <3>3. CASE a # b
      BY <2>2, <2>5, <2>6, <3>1, <3>3
    <3>4. QED
      BY <3>2, <3>3
  <2>10. QED
    BY <2>3, <2>9 DEF EventInv, NoPhantomEvents
<1>6. ASSUME NEW h \in Handlers, Record(h)
      PROVE  EventInv'
  <2> PICK b \in CustodyActions : b = call[h].action
    BY <1>6 DEF Record, CaseTypeOK, Call
  <2>1. stage[h] = "record" /\ Finish(h) /\ UNCHANGED <<status, hold, overtaken>>
    BY <1>6 DEF Record
  <2>2. /\ UNCHANGED <<changed, repeated>> /\ recorded'[b] = recorded[b] + 1
        /\ \A a \in CustodyActions \ {b} : recorded'[a] = recorded[a]
    BY <1>6, <2>1 DEF Record, CaseTypeOK
  <2>3. Cardinality(Recording(b)') = Cardinality(Recording(b)) - 1
    <3>1. h \in Recording(b)
      BY <2>1 DEF Recording
    <3>2. Recording(b)' = Recording(b) \ {h}
      BY <2>1, FinishEvents
    <3>3. IsFiniteSet(Recording(b))
      BY RecordingCounts DEF EventInv
    <3>4. QED
      BY <3>1, <3>2, <3>3, FS_RemoveElement
  <2>4. \A a \in CustodyActions \ {b} : Recording(a)' = Recording(a)
    <3>1. \A a \in CustodyActions \ {b} : h \notin Recording(a)
      BY DEF Recording
    <3>2. \A a \in CustodyActions : Recording(a)' = Recording(a) \ {h}
      BY <2>1, FinishEvents
    <3>3. QED
      BY <3>1, <3>2
  <2>5. ASSUME NEW a \in CustodyActions \ {"case_updated"}
        PROVE  recorded'[a] + Cardinality(Recording(a)') <= changed'[a] + repeated'[a]
    <3>1. /\ recorded[a] + Cardinality(Recording(a)) <= changed[a] + repeated[a]
          /\ recorded[a] \in Nat /\ changed[a] \in Nat /\ repeated[a] \in Nat
          /\ Cardinality(Recording(a)) \in Nat
      BY RecordingCounts DEF EventInv, NoPhantomEvents, CaseTypeOK
    <3>2. CASE a = b
      BY <2>2, <2>3, <3>1, <3>2
    <3>3. CASE a # b
      BY <2>2, <2>4, <3>1, <3>3
    <3>4. QED
      BY <3>2, <3>3
  <2>6. QED
    BY <2>1, <2>5, FinishEvents DEF EventInv, NoPhantomEvents
<1>7. ASSUME NEW h \in Handlers, Fail(h)
      PROVE  EventInv'
  <2>1. stage[h] # "idle" /\ Finish(h)
        /\ UNCHANGED <<status, hold, overtaken, changed, repeated, recorded>>
    BY <1>7 DEF Fail
  <2>2. ASSUME NEW a \in CustodyActions \ {"case_updated"}
        PROVE  recorded'[a] + Cardinality(Recording(a)') <= changed'[a] + repeated'[a]
    <3>1. /\ recorded[a] + Cardinality(Recording(a)) <= changed[a] + repeated[a]
          /\ recorded[a] \in Nat /\ changed[a] \in Nat /\ repeated[a] \in Nat
          /\ Cardinality(Recording(a)) \in Nat
      BY RecordingCounts DEF EventInv, NoPhantomEvents, CaseTypeOK
    <3>2. Recording(a)' = Recording(a) \ {h}
      BY <2>1, FinishEvents
    <3>3. /\ Cardinality(Recording(a)') \in Nat
          /\ Cardinality(Recording(a)') <= Cardinality(Recording(a))
      <4>1. IsFiniteSet(Recording(a)) /\ Recording(a) \ {h} \in SUBSET Recording(a)
        BY RecordingCounts DEF EventInv
      <4>2. QED
        BY <3>2, <4>1, FS_Subset, FS_CardinalityType
    <3>4. QED
      BY <2>1, <3>1, <3>3
  <2>3. QED
    BY <2>1, <2>2, FinishEvents DEF EventInv, NoPhantomEvents
<1>8. CASE UNCHANGED caseVars
  BY <1>8 DEF caseVars, EventInv, CallsNamed, FindsChange, NoPhantomEvents, Busy, Recording
<1>9. QED
  BY <1>1, <1>2, <1>3, <1>4, <1>5, <1>6, <1>7, <1>8 DEF CaseNext

\* The custody log claims no archiving and no change of a hold that was not made,
\* but for calls that another one overtook to the same end, whatever fails.
THEOREM EventsFollowChanges == CaseSpec => []NoPhantomEvents
<1>1. CaseTypeOK /\ EventInv /\ [CaseNext]_caseVars => EventInv'
  BY EventStep
<1>2. EventInv => NoPhantomEvents
  BY DEF EventInv
<1>3. QED
  BY <1>1, <1>2, EventInvInit, CaseTypeCorrect, PTL DEF CaseSpec

------------------------------------------------------------------------------
(* The composition.                                                         *)

\* A step of the system is a step or a stutter of the case service.
LEMMA SystemCaseStep == [SystemNext]_systemVars => [CaseNext]_caseVars
<1> SUFFICES ASSUME [SystemNext]_systemVars PROVE [CaseNext]_caseVars
  OBVIOUS
<1>1. CASE CaseServiceStep
  BY <1>1 DEF CaseServiceStep
<1>2. CASE EvidenceServiceStep
  <2>1. Vault!VaultNext => UNCHANGED <<status, hold>>
    BY DEF Vault!VaultNext, Vault!RequestStep, Vault!ThumbStep, Vault!Upload,
       Vault!NextNumber, Vault!PutFile, Vault!PutFails, Vault!CreateRow,
       Vault!CreateFails, Vault!Cleanup, Vault!RecordUpload, Vault!StoreThumb,
       Vault!LinkThumb, Vault!SkipThumb, Vault!LinkFails, Vault!Destroy,
       Vault!CheckStatus, Vault!CheckHold, Vault!MarkDestroyed, Vault!DeleteFile,
       Vault!DeleteThumb, Vault!RecordDestroyed, Vault!Download, Vault!Fetch,
       Vault!Served, Vault!Refuse, Vault!Crash, Vault!caseState
  <2>2. QED
    BY <1>2, <2>1 DEF EvidenceServiceStep, caseVars
<1>3. CASE UNCHANGED systemVars
  BY <1>3 DEF systemVars, caseVars, history
<1>4. QED
  BY <1>1, <1>2, <1>3 DEF SystemNext

\* A step of the system is a step or a stutter of the evidence service, the case
\* moving as that service relies on.
LEMMA SystemVaultStep ==
  CaseInv /\ CaseInv' /\ [SystemNext]_systemVars => [Vault!Next]_(Vault!vars)
<1> SUFFICES ASSUME CaseInv, CaseInv', [SystemNext]_systemVars
             PROVE  [Vault!Next]_(Vault!vars)
  OBVIOUS
<1>1. CASE CaseServiceStep
  <2>1. /\ status' = "active" => status = "active"
        /\ status' = "archived" => status # "active"
    BY <1>1, StatusStep DEF CaseServiceStep
  <2>2. status' \in Statuses /\ hold' \in BOOLEAN
    BY DEF CaseInv, CaseTypeOK
  <2>3. Vault!CaseChanges
    BY <1>1, <2>1, <2>2 DEF CaseServiceStep, Vault!CaseChanges, Vault!Statuses,
       Statuses, Vault!rowState, Vault!objects
  <2>4. QED
    BY <2>3 DEF Vault!Next
<1>2. CASE EvidenceServiceStep
  BY <1>2 DEF EvidenceServiceStep, Vault!Next
<1>3. CASE UNCHANGED systemVars
  BY <1>3 DEF systemVars, Vault!vars, Vault!caseState, Vault!rowState, Vault!objects,
     Vault!control
<1>4. QED
  BY <1>1, <1>2, <1>3 DEF SystemNext

\* Beside the evidence service, which reads the same rows, the case service
\* behaves as CaseLifecycle says.
THEOREM SystemKeepsCases == SystemSpec => CaseSpec
BY SystemCaseStep, PTL DEF SystemSpec, SystemInit, CaseSpec

\* The case service honours what the evidence service relies on, for any number
\* of handlers and requests: the system implements EvidenceVault.
THEOREM SystemKeepsVault == SystemSpec => VaultPromises
<1>1. SystemSpec => []CaseInv
  BY SystemKeepsCases, CaseInvariant
<1>2. QED
  BY <1>1, SystemVaultStep, PTL DEF SystemSpec, SystemInit, VaultPromises, Vault!Spec
==============================================================================
