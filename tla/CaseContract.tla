---------------------------- MODULE CaseContract ----------------------------
(***************************************************************************)
(* What a case promises its institution, with no request, no row and no    *)
(* clock in sight: a status that moves along the legal graph, an owner     *)
(* where the graph asks for one, and nothing after the end but letting go. *)
(*                                                                         *)
(* The promise is made to a client that nobody overtook.  One that others  *)
(* wrote past acts on what was so at some earlier time: it still moves the *)
(* case to a successor of a status the case has had, and still needs that  *)
(* the case was owned once, but may take a case that has ended.            *)
(***************************************************************************)
EXTENDS CaseVocabulary

CONSTANTS Users, NoUser, Clients

VARIABLES
  status, owner,
  had,        \* the statuses the case has had
  owned,      \* whether it ever had an owner
  overtaken   \* clients at work since before somebody else's last write

promise == <<status, owner, had, owned, overtaken>>

Init ==
  /\ status = "submitted" /\ owner = NoUser
  /\ had = {"submitted"} /\ owned = FALSE /\ overtaken = {}

Move(c, to) ==
  /\ \E from \in IF c \in overtaken THEN had ELSE {status} : to \in CASE_TRANSITIONS[from]
  /\ to \in REQUIRES_ACTIVE_ASSIGNMENT => IF c \in overtaken THEN owned ELSE owner # NoUser
  /\ status' = to /\ had' = had \cup {to}
  /\ UNCHANGED <<owner, owned>>

\* A claim, or a handover from one owner to the next with no gap between.
Own(c, u) ==
  /\ c \in overtaken \/ status \notin Terminal
  /\ u # owner
  /\ owner' = u /\ owned' = TRUE
  /\ UNCHANGED <<status, had>>

\* Only one who was overtaken may find nothing left to let go of.
Release(c) ==
  /\ c \in overtaken \/ owner # NoUser
  /\ owner' \in {NoUser} \cup (IF c \in overtaken THEN {owner} ELSE {})
  /\ UNCHANGED <<status, had, owned>>

\* Whoever else is at work by then has been overtaken.
Write(c) ==
  /\ (\E to \in Statuses : Move(c, to)) \/ (\E u \in Users : Own(c, u)) \/ Release(c)
  /\ overtaken \ {c} \subseteq overtaken' /\ c \notin overtaken'

\* An overtaken client ends without a write.
Leave(c) ==
  /\ overtaken' = overtaken \ {c}
  /\ UNCHANGED <<status, owner, had, owned>>

Next == \E c \in Clients : Write(c) \/ Leave(c)

Spec == Init /\ [][Next]_promise
=============================================================================
