---------------------------- MODULE MCNotifications ----------------------------
(***************************************************************************)
(* Small instances of CaseRoles and Notifications for TLC.  Notify reads   *)
(* the roles in one statement, and the handlers and the search read        *)
(* nothing of Notifications, so the two are explored one at a time: roles  *)
(* that change, and every table of roles that stays.                       *)
(***************************************************************************)
EXTENDS Notifications

VARIABLE part

MCInit == Init /\ part \in {"roles", "notifications"}

MCNext ==
  /\ UNCHANGED part
  /\ \/ part = "roles" /\ RolesNext /\ UNCHANGED <<notifyVars, mailVars>>
     \/ part = "notifications" /\ NotificationsNext /\ UNCHANGED caseRoleVars

MCSpec == MCInit /\ [][MCNext]_<<vars, part>> /\ SenderFairness
===============================================================================
