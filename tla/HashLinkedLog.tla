---------------------------- MODULE HashLinkedLog ----------------------------
(***************************************************************************)
(* What the custody log promises, whatever the interleaving of its         *)
(* writers: "immutable, append-only chain of custody"                      *)
(* (migrations/001_initial_schema.up.sql).  Entries are only ever added,   *)
(* one at a time and under a fresh identifier; the first entry of a case   *)
(* is its only root, and every other entry names, through its hash link,   *)
(* an entry that was in the log of the same case before it.  The entries   *)
(* of a case therefore form one tree.  That the tree is a line is NOT      *)
(* promised here: CustodyChain says when it is.                            *)
(***************************************************************************)
CONSTANTS Cases, Ids, NoId

VARIABLE entries  \* set of [id, case, link] records

EntriesOf(c) == {e \in entries : e.case = c}

\* The entries a new entry of case c may name.
Anchors(c) == IF EntriesOf(c) = {} THEN {NoId} ELSE {e.id : e \in EntriesOf(c)}

Init == entries = {}

Append(c, i, l) ==
  /\ i \notin {e.id : e \in entries}
  /\ l \in Anchors(c)
  /\ entries' = entries \cup {[id |-> i, case |-> c, link |-> l]}

Next == \E c \in Cases, i \in Ids : \E l \in Anchors(c) : Append(c, i, l)

Spec == Init /\ [][Next]_entries
==============================================================================
