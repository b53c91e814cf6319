----------------------------- MODULE Notifications -----------------------------
(***************************************************************************)
(* Notifications (internal/notifications): Notify takes the recipients     *)
(* from the list of administrators and from the roles of the case, inserts *)
(* a row for each and hands an e-mail to the EmailSender, whose goroutine  *)
(* empties a bounded queue until Stop.  Backups, verifications and         *)
(* handlers may notify at once, and the server stops the sender without    *)
(* waiting for them.                                                       *)
(***************************************************************************)
EXTENDS CaseRoles, Sequences

CONSTANTS
  Admins,      \* adminUserIDs
  Events,      \* slots for calls of Notify; a slot serves one call after another
  QueueSize    \* capacity of the queue

ASSUME NotificationsAssumption ==
  /\ Admins \subseteq Users /\ IsFiniteSet(Users)
  /\ QueueSize \in Nat \ {0}

VARIABLES
  stage,      \* where each call of Notify is
  todo,       \* how often a recipient is still in its list
  mailing,    \* the recipient whose row it has just inserted
  rows,       \* notifications: rows of a call and a user
  due,        \* the recipients of the call by the type of its event (history)
  missed,     \* pairs whose insert failed (history)
  queue,      \* the e-mails in the queue
  handed,     \* how often the e-mail of a row was handed to the mail server
  accepted,   \* e-mails queued before Stop was called (history)
  worker,     \* the goroutine of the sender
  stop        \* the call of Stop

notifyVars == <<stage, todo, mailing, rows, due, missed>>
mailVars   == <<queue, handed, accepted, worker, stop>>
vars == <<caseRoleVars, notifyVars, mailVars>>

Types == {"evidence_uploaded", "legal_hold_changed", "user_added_to_case",
          "integrity_warning", "retention_expiring", "backup_failed"}

NotificationsInit ==
  /\ stage = [e \in Events |-> "idle"]
  /\ todo = [e \in Events |-> [u \in Users |-> 0]]
  /\ mailing = [e \in Events |-> NoUser]
  /\ rows = [e \in Events |-> [u \in Users |-> 0]]
  /\ due = [e \in Events |-> {}]
  /\ missed = {}
  /\ handed = [e \in Events |-> [u \in Users |-> 0]]
  /\ queue = <<>> /\ accepted = {}
  /\ worker = "running" /\ stop = "no"

------------------------------------------------------------------------------
(* Notify.                                                                  *)

Once(U)     == [u \in Users |-> IF u \in U THEN 1 ELSE 0]
Both(b, c)  == [u \in Users |-> b[u] + c[u]]
GetCaseUserIDs == {u \in Users : RolesOf(u) # {}}

DeduplicateStrings(b) == Once({u \in Users : b[u] > 0})

\* resolveRecipients: how often each user is in the list.
ResolveRecipients(type, target) ==
  IF type \in {"evidence_uploaded", "legal_hold_changed"} THEN Once(GetCaseUserIDs)
  ELSE IF type = "user_added_to_case" THEN Once({target})
  ELSE IF type = "integrity_warning"
       THEN DeduplicateStrings(Both(Once(Admins), Once(GetCaseUserIDs)))
  ELSE Once(Admins)

\* Whom an event of the type concerns.
Concerned(type, target) ==
  (IF type \in {"integrity_warning", "retention_expiring", "backup_failed"} THEN Admins ELSE {})
  \cup (IF type \in {"evidence_uploaded", "legal_hold_changed", "integrity_warning"}
        THEN GetCaseUserIDs ELSE {})
  \cup (IF type = "user_added_to_case" THEN {target} ELSE {})

(* Notify resolves the recipients, or gives up.  Calls come without end: a  *)
(* slot is free for another one when its call has returned and no e-mail of *)
(* it is in the queue.                                                      *)
Notify(e, type, target) ==
  /\ stage[e] # "loop"
  /\ \A n \in DOMAIN queue : queue[n][1] # e
  /\ \/ /\ stage' = [stage EXCEPT ![e] = "loop"]
        /\ todo' = [todo EXCEPT ![e] = ResolveRecipients(type, target)]
        /\ due' = [due EXCEPT ![e] = Concerned(type, target)]
     \/ /\ stage' = [stage EXCEPT ![e] = "done"]
        /\ due' = [due EXCEPT ![e] = {}]
        /\ UNCHANGED todo
  /\ rows' = [rows EXCEPT ![e] = Once({})]
  /\ handed' = [handed EXCEPT ![e] = Once({})]
  /\ missed' = missed \ ({e} \X Users)
  /\ accepted' = accepted \ ({e} \X Users)
  /\ UNCHANGED <<mailing, queue, worker, stop>>

(* Seeded bug: the loop ends with the first insert that fails.              *)
CreateOrReturn(e, u) ==
  /\ stage[e] = "loop" /\ mailing[e] = NoUser
  /\ todo[e][u] > 0
  /\ \/ /\ rows' = [rows EXCEPT ![e][u] = @ + 1]
        /\ mailing' = [mailing EXCEPT ![e] = u]
        /\ todo' = [todo EXCEPT ![e][u] = @ - 1]
        /\ UNCHANGED missed
     \/ /\ missed' = missed \cup {<<e, u>>}
        /\ todo' = [todo EXCEPT ![e] = Once({})]
        /\ UNCHANGED <<rows, mailing>>
  /\ UNCHANGED <<stage, due, mailVars>>

(* Create inserts the row of one recipient; an error is logged and the loop *)
(* goes on.                                                                 *)
Create(e, u) ==
  /\ stage[e] = "loop" /\ mailing[e] = NoUser
  /\ todo[e][u] > 0
  /\ todo' = [todo EXCEPT ![e][u] = @ - 1]
  /\ \/ /\ rows' = [rows EXCEPT ![e][u] = @ + 1]
        /\ mailing' = [mailing EXCEPT ![e] = u]
        /\ UNCHANGED missed
     \/ /\ missed' = missed \cup {<<e, u>>}
        /\ UNCHANGED <<rows, mailing>>
  /\ UNCHANGED <<stage, due, mailVars>>

(* The loop ends.                                                           *)
NotifyReturns(e) ==
  /\ stage[e] = "loop" /\ mailing[e] = NoUser
  /\ \A u \in Users : todo[e][u] = 0
  /\ stage' = [stage EXCEPT ![e] = "done"]
  /\ UNCHANGED <<todo, mailing, rows, due, missed, mailVars>>

------------------------------------------------------------------------------
(* The EmailSender.                                                         *)

(* Send queues the e-mail of the row just inserted, also after Stop, and    *)
(* drops it when the queue is full.                                         *)
Send(e) ==
  /\ mailing[e] # NoUser
  /\ IF Len(queue) < QueueSize
     THEN /\ queue' = Append(queue, <<e, mailing[e]>>)
          /\ accepted' = IF stop = "no" THEN accepted \cup {<<e, mailing[e]>>} ELSE accepted
     ELSE UNCHANGED <<queue, accepted>>
  /\ mailing' = [mailing EXCEPT ![e] = NoUser]
  /\ UNCHANGED <<stage, todo, rows, due, missed, handed, worker, stop>>

(* There is no resolver, which is how main wires the service, or it knows   *)
(* no address for the user.                                                 *)
SkipMail(e) ==
  /\ mailing[e] # NoUser
  /\ mailing' = [mailing EXCEPT ![e] = NoUser]
  /\ UNCHANGED <<stage, todo, rows, due, missed, mailVars>>

(* deliver: the mail server has it, or the error is logged.                 *)
Deliver ==
  /\ worker \in {"running", "draining"}
  /\ queue # <<>>
  /\ LET mail == Head(queue) IN handed' = [handed EXCEPT ![mail[1]][mail[2]] = @ + 1]
  /\ queue' = Tail(queue)
  /\ UNCHANGED <<notifyVars, accepted, worker, stop>>

(* Stop closes the channel stop, and waits for the goroutine.               *)
Stop ==
  /\ stop = "no"
  /\ stop' = "called"
  /\ UNCHANGED <<notifyVars, queue, handed, accepted, worker>>

(* Seeded bug: the goroutine ends as soon as it is told to.                 *)
SeeStopAndExit ==
  /\ worker = "running" /\ stop = "called"
  /\ worker' = "exited"
  /\ UNCHANGED <<notifyVars, queue, handed, accepted, stop>>

(* The select of run chooses the closed channel, perhaps before the queue.  *)
SeeStop ==
  /\ worker = "running" /\ stop = "called"
  /\ worker' = "draining"
  /\ UNCHANGED <<notifyVars, queue, handed, accepted, stop>>

(* Seeded bug: the drain waits for another e-mail.                          *)
ExitBlocked ==
  /\ worker = "draining" /\ queue = <<>>
  /\ UNCHANGED <<notifyVars, mailVars>>

(* The queue is found empty.                                                *)
Exit ==
  /\ worker = "draining" /\ queue = <<>>
  /\ worker' = "exited"
  /\ UNCHANGED <<notifyVars, queue, handed, accepted, stop>>

StopReturns ==
  /\ stop = "called" /\ worker = "exited"
  /\ stop' = "returned"
  /\ UNCHANGED <<notifyVars, queue, handed, accepted, worker>>

NotifyStep(e) ==
  \/ \E type \in Types, target \in Users : Notify(e, type, target)
  \/ \E u \in Users : Create(e, u)
  \/ NotifyReturns(e) \/ Send(e) \/ SkipMail(e)

WorkerStep == Deliver \/ SeeStop \/ Exit

NotificationsNext ==
  \/ \E e \in Events : NotifyStep(e)
  \/ WorkerStep \/ Stop \/ StopReturns

------------------------------------------------------------------------------

Init == RolesInit /\ NotificationsInit

Next ==
  \/ NotificationsNext /\ UNCHANGED caseRoleVars
  \/ RolesNext /\ UNCHANGED <<notifyVars, mailVars>>

Spec == Init /\ [][Next]_vars

\* The goroutine of the sender is scheduled, and a mail server answers in the end.
SenderFairness ==
  /\ WF_vars(WorkerStep /\ UNCHANGED caseRoleVars)
  /\ WF_vars(StopReturns /\ UNCHANGED caseRoleVars)

FairSpec == Spec /\ SenderFairness

------------------------------------------------------------------------------
(* Properties.                                                              *)

(* A call of Notify that has returned has left exactly one row for everyone *)
(* the event concerned when the recipients were read, whether they are in   *)
(* one list or in two, unless that row's insert failed, and no other row.   *)
NobodyForgotten ==
  \A e \in Events, u \in Users : stage[e] = "done" =>
    rows[e][u] = IF u \in due[e] /\ <<e, u>> \notin missed THEN 1 ELSE 0

(* When Stop returns, the e-mails queued before it was called have been     *)
(* handed over, and no e-mail was handed over twice (Stop, run).            *)
StopFlushes ==
  /\ stop = "returned" => \A m \in accepted : handed[m[1]][m[2]] = 1
  /\ \A e \in Events, u \in Users : handed[e][u] <= 1

(* What makes the two inductive: of everyone concerned the loop still has   *)
(* the user in its list, or has made the row, or has failed to.             *)
NotifyTypeOK ==
  /\ stage \in [Events -> {"idle", "loop", "done"}]
  /\ todo \in [Events -> [Users -> Nat]]
  /\ mailing \in [Events -> Users \cup {NoUser}]
  /\ rows \in [Events -> [Users -> Nat]]
  /\ due \in [Events -> SUBSET Users]
  /\ missed \subseteq Events \X Users

OwedOnce ==
  \A e \in Events :
    /\ stage[e] # "loop" => mailing[e] = NoUser
    /\ \A u \in Users :
         /\ stage[e] # "loop" => todo[e][u] = 0
         /\ stage[e] = "loop" =>
              todo[e][u] + rows[e][u] = IF u \in due[e] /\ <<e, u>> \notin missed THEN 1 ELSE 0

NotifyInv == NotifyTypeOK /\ OwedOnce /\ NobodyForgotten

\* Every e-mail is of a row, and on its way once: to be sent, queued or handed.
IsIn(m, s) == \E n \in DOMAIN s : s[n] = m
NoneTwice(s) == \A m, n \in DOMAIN s : s[m] = s[n] => m = n

MailOnce ==
  /\ queue \in Seq(Events \X Users) /\ NoneTwice(queue)
  /\ handed \in [Events -> [Users -> {0, 1}]]
  /\ accepted \subseteq Events \X Users
  /\ \A e \in Events, u \in Users :
       /\ IsIn(<<e, u>>, queue) => rows[e][u] > 0 /\ handed[e][u] = 0
       /\ handed[e][u] = 1 => rows[e][u] > 0
       /\ mailing[e] = u /\ u # NoUser =>
            rows[e][u] > 0 /\ handed[e][u] = 0 /\ ~ IsIn(<<e, u>>, queue)

\* What was accepted is not lost, and the goroutine ends with none of it left.
AcceptedKept ==
  /\ worker \in {"running", "draining", "exited"} /\ stop \in {"no", "called", "returned"}
  /\ worker # "running" => stop # "no"
  /\ stop = "returned" => worker = "exited"
  /\ \A e \in Events, u \in Users : <<e, u>> \in accepted =>
       handed[e][u] = 1 \/ (IsIn(<<e, u>>, queue) /\ worker # "exited")

MailInv == NotifyInv /\ MailOnce /\ AcceptedKept

(* Stop comes to an end, unless e-mails are queued again and again for ever *)
(* and the drain is kept fed: it ends when it finds the queue empty, and    *)
(* calls of Notify go on queueing meanwhile (Stop, run).  It need not end   *)
(* otherwise: a behaviour with endless arrivals, in which every Deliver is  *)
(* followed by a Send, is one of FairSpec.                                  *)
Arrives == Len(queue') > Len(queue)

StopEnds == <>[][~ Arrives]_vars => (stop = "called" ~> stop = "returned")

==============================================================================
