--------------------------- MODULE MCCaseLifecycle ---------------------------
(***************************************************************************)
(* Small casts and request sets for CaseLifecycle.                         *)
(***************************************************************************)
EXTENDS CaseLifecycle, TLC

\* Workers are interchangeable.
WorkerSymmetry == Permutations(Workers)

\* Two officers the case is routed to, an emergency responder of the other
\* role, an administrator, and the student who reported it.
CastRole == [off1 |-> "security", off2 |-> "security", icc1 |-> "icc",
             adm |-> "admin", stu |-> "student"]
Cast == DOMAIN CastRole

\* A well-formed request for each target.
Proper(user, target, visible) ==
  [kind |-> "status", user |-> user, target |-> target, remark |-> target # "triaged",
   reason |-> IF target \in Terminal THEN "other" ELSE NoReason, visible |-> visible]

Claim(user, assignee) == [kind |-> "assign", user |-> user, assignee |-> assignee]
LetGo(user) == [kind |-> "unassign", user |-> user]

\* A caller with no right to the case; a missing remark; a missing, a foreign
\* and an early resolution reason; an assignee nobody may choose.
Faulty ==
  {Proper("stu", "withdrawn", TRUE), Proper("adm", "triaged", TRUE),
   [Proper("off1", "under_review", TRUE) EXCEPT !.remark = FALSE],
   [Proper("off1", "duplicate", TRUE) EXCEPT !.reason = NoReason],
   [Proper("off1", "duplicate", TRUE) EXCEPT !.reason = "withdrawn_by_reporter"],
   [Proper("off1", "triaged", TRUE) EXCEPT !.reason = "other"],
   Claim("off1", "stu"), Claim("off1", "icc1")}

SerialRequests ==
  {Proper("off1", t, TRUE) : t \in Statuses}
    \cup {Claim("off1", "off1"), Claim("off1", "off2"), LetGo("off2")}
    \cup {Proper("off2", "resolved", FALSE)} \cup Faulty

RacingRequests ==
  {Proper("off1", t, TRUE) : t \in {"triaged", "under_review", "resolved"}}
    \cup {Proper("icc1", "duplicate", FALSE), Proper("off2", "under_review", FALSE)}
    \cup {Claim("off1", "off1"), Claim("off2", "off2"), Claim("off1", "off2"),
          LetGo("off2")}
=============================================================================
