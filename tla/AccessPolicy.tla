---------------------------- MODULE AccessPolicy ----------------------------
(***************************************************************************)
(* Who may see what (security/authorization.py), as operators over a       *)
(* caller and the facts of one report, and the responders' queue           *)
(* (IncidentRepository._visible_to), which states the same rule once more  *)
(* as a query.  A caller who presents no credential has the user Nobody    *)
(* and the role "none"; an anonymous report has the reporter Nobody, an    *)
(* unassigned one the assignee Nobody, one without a category routes to    *)
(* "none".                                                                 *)
(***************************************************************************)
EXTENDS CaseVocabulary

CONSTANTS Users, Nobody

ASSUME NobodyIsNoUser == Nobody \notin Users

Principal == [user: Users, role: Roles] \cup [user: {Nobody}, role: {"none"}]

ReportAccessContext ==
  [routesTo: (Roles \ {"student"}) \cup {"none"}, confidential: BOOLEAN,
   reporter: Users \cup {Nobody}, assignee: Users \cup {Nobody},
   viaToken: BOOLEAN, emergency: BOOLEAN]

is_reporter(p, c) == p.user # Nobody /\ p.user = c.reporter
is_assignee(p, c) == p.user # Nobody /\ p.user = c.assignee

\* An emergency is everybody's who can come to it.
Reaches(p, c) == c.emergency /\ p.role \in {"security", "icc"}

Routed(p, c) == c.routesTo # "none" /\ p.role = c.routesTo

can_create_report(p, active) == p.user # Nobody /\ active

can_view_report(p, c) ==
  \/ c.viaToken
  \/ is_reporter(p, c)
  \/ /\ p.role \notin {"none", "student"}
     /\ is_assignee(p, c) \/ p.role = "admin" \/ Reaches(p, c) \/ Routed(p, c)

can_view_narrative(p, c) ==
  \/ c.viaToken
  \/ is_reporter(p, c)
  \/ /\ p.role \notin {"none", "student", "admin"}
     /\ \/ is_assignee(p, c)
        \/ c.confidential /\ p.role = "icc"
        \/ ~c.confidential /\ (Reaches(p, c) \/ Routed(p, c))

can_manage_case(p, c) ==
  /\ p.role \notin {"none", "admin"}
  /\ is_assignee(p, c) \/ Reaches(p, c) \/ Routed(p, c)

can_attach_evidence(p, c) == is_reporter(p, c)

can_resolve_identity(p, c) ==
  c.reporter # Nobody /\ p.role = "icc" /\ c.routesTo = "icc"

-----------------------------------------------------------------------------
(* The responder plane: IncidentService and IncidentRepository             *)

can_use_responder_view(p, active) == active /\ p.role \notin {"none", "student"}

\* The queue joins the category, so a report without one is in nobody's queue.
visible_to(role, c, status) ==
  /\ status \notin Terminal
  /\ c.routesTo # "none"
  /\ role = "admin" \/ c.routesTo = role \/ c.emergency
=============================================================================
