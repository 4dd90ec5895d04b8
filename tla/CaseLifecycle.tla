---------------------------- MODULE CaseLifecycle ----------------------------
(***************************************************************************)
(* The life of one case: POST /incidents/<ref>/status, /assign, /unassign. *)
(*                                                                         *)
(* The database rows of the case are `status', `closedAt' (core.report),   *)
(* `history' (core.case_status_history, in commit order), `assignments'    *)
(* (core.case_assignment, in insertion order), `inbox' (notify schema) and *)
(* `audit' (audit.access_log).  Each member of Workers serves one request  *)
(* at a time.  PostgreSQL runs at READ COMMITTED and no query locks a row, *)
(* so every query of a handler is a step of its own; the writes, invisible *)
(* until the commit and serialised by the row locks they take, are one     *)
(* step with it.                                                           *)
(***************************************************************************)
EXTENDS CaseVocabulary, Integers, Sequences, FiniteSets

CONSTANTS
  Workers,      \* concurrent request handlers (gunicorn workers or threads)
  Users,        \* the accounts that call these endpoints
  NoUser,       \* no account: the writer of the first row, an absent reporter
  Role,         \* [Users -> Roles]
  RoutesTo,     \* the role the report's category routes to
  IsEmergency,  \* the report's emergency flag
  Reporter,     \* the attributed reporter, NoUser for an anonymous report
  Requests,     \* the requests clients may send
  MayLeave,     \* the accounts an operator may deactivate
  MaxRequests   \* bound: requests taken up

StatusRequest == [kind: {"status"}, user: Users, target: Statuses, remark: BOOLEAN,
                  reason: Reasons \cup {NoReason}, visible: BOOLEAN]
AssignRequest == [kind: {"assign"}, user: Users, assignee: Users]
UnassignRequest == [kind: {"unassign"}, user: Users]

ASSUME ConstantsAssumption ==
  /\ NoUser \notin Users
  /\ Role \in [Users -> Roles]
  /\ RoutesTo \in Roles \ {"student"}
  /\ IsEmergency \in BOOLEAN
  /\ Reporter \in Users \cup {NoUser}
  /\ Requests \subseteq StatusRequest \cup AssignRequest \cup UnassignRequest
  /\ MayLeave \subseteq Users
  /\ MaxRequests \in Nat

VARIABLES
  status, closedAt,   \* report.current_status, report.closed_at (0: NULL)
  history,            \* case_status_history rows
  assignments,        \* case_assignment rows; a row's index is its id
  enabled,            \* accounts with is_active
  inbox,              \* notifications written
  audit,              \* access_log rows
  clock,              \* requests stamped so far: each one's `now'
  job,                \* [Workers -> what the worker is in the middle of]
  overtaken,          \* history: workers at work while another's write was committed
  belated             \* history: the times of the writes such workers committed

report == <<status, closedAt, history>>
rows == <<report, assignments, inbox>>
race == <<overtaken, belated>>
vars == <<status, closedAt, history, assignments, enabled, inbox, audit, clock, job, race>>

idle == [pc |-> "idle"]
Stages == {"loaded", "authorised", "checked", "ready"}
Jobs == [pc: Stages, req: Requests, seen: Statuses, now: Nat, found: Nat]

HistoryRow == [from: Statuses \cup {"none"}, to: Statuses, by: Users \cup {NoUser},
               at: Nat, reason: Reasons \cup {NoReason}, visible: BOOLEAN]
AssignmentRow == [to: Users, role: Roles, active: BOOLEAN, at: Nat]
Notice == [to: Users, about: Statuses \cup {"assignment"}, at: Nat]
AuditRow == [action: {"status", "assign", "unassign"}, at: Nat,
             outcome: {"success", "denied"}]

Init ==
  /\ status = "submitted" /\ closedAt = 0
  /\ history = <<[from |-> "none", to |-> "submitted", by |-> NoUser, at |-> 0,
                  reason |-> NoReason, visible |-> TRUE]>>
  /\ assignments = <<>>
  /\ enabled = Users
  /\ inbox = {} /\ audit = {}
  /\ clock = 0
  /\ job = [w \in Workers |-> idle]
  /\ overtaken = {} /\ belated = {}

ActiveRows == {i \in DOMAIN assignments : assignments[i].active}

\* At(w, stage, kind): worker w has reached that stage of a request of that kind.
At(w, stage, kind) == job[w].pc = stage /\ job[w].req.kind = kind

MoveOn(w, stage) == job' = [job EXCEPT ![w].pc = stage]

\* The request ends, without a write or with one.
Finish(w) ==
  /\ job' = [job EXCEPT ![w] = idle]
  /\ overtaken' = overtaken \ {w}
  /\ UNCHANGED belated

Commit(w) ==
  /\ job' = [job EXCEPT ![w] = idle]
  /\ overtaken' = {v \in Workers \ {w} : job[v] # idle}
  /\ belated' = IF w \in overtaken THEN belated \cup {job[w].now} ELSE belated

AuditRecord(w, outcome) ==
  audit' = audit \cup {[action |-> job[w].req.kind, at |-> job[w].now, outcome |-> outcome]}

\* A 404 or 409 of the service: rolled back, recorded as DENIED, committed.
Denied(w) ==
  /\ AuditRecord(w, "denied")
  /\ Finish(w)
  /\ UNCHANGED <<rows, enabled, clock>>

\* Mutant: the access log is committed ahead of the write, which is then lost.
LoggedThenDropped(w) ==
  /\ AuditRecord(w, "success")
  /\ Finish(w)
  /\ UNCHANGED <<rows, enabled, clock>>

\* A 400, or a request lost on the way: rolled back, nothing recorded.
Dropped(w) ==
  /\ Finish(w)
  /\ UNCHANGED <<rows, enabled, audit, clock>>

-----------------------------------------------------------------------------
(* Every handler: the caller's account, the report row, the caller's right. *)

Receive(w, r) ==
  /\ job[w] = idle
  /\ clock < MaxRequests
  /\ r.user \in enabled
  /\ job' = [job EXCEPT ![w] = [pc |-> "loaded", req |-> r, seen |-> status,
                                now |-> 0, found |-> 0]]
  /\ UNCHANGED <<rows, enabled, audit, clock, race>>

can_manage_case(u) ==
  /\ Role[u] # "admin"
  /\ \/ \E i \in ActiveRows : assignments[i].to = u
     \/ IsEmergency /\ Role[u] \in {"security", "icc"}
     \/ Role[u] = RoutesTo

\* Mutant: `now' is the default of an argument, taken once.
StampOnce(w) ==
  /\ job[w].pc = "loaded"
  /\ can_manage_case(job[w].req.user)
  /\ clock' = clock + 1
  /\ job' = [job EXCEPT ![w].pc = "authorised", ![w].now = 1]
  /\ UNCHANGED <<rows, enabled, audit, race>>

Authorise(w) ==
  /\ job[w].pc = "loaded"
  /\ can_manage_case(job[w].req.user)
  /\ clock' = clock + 1
  /\ job' = [job EXCEPT ![w].pc = "authorised", ![w].now = clock + 1]
  /\ UNCHANGED <<rows, enabled, audit, race>>

RefuseCaller(w) ==
  /\ job[w].pc = "loaded"
  /\ ~can_manage_case(job[w].req.user)
  /\ clock' = clock + 1
  /\ audit' = audit \cup {[action |-> job[w].req.kind, at |-> clock + 1,
                           outcome |-> "denied"]}
  /\ Finish(w)
  /\ UNCHANGED <<rows, enabled>>

-----------------------------------------------------------------------------
(* CaseService.change_status                                               *)

LegalMove(w) == job[w].req.target \in CASE_TRANSITIONS[job[w].seen]

WellFormed(r) ==
  /\ r.remark \/ r.target \in REMARK_OPTIONAL
  /\ r.reason \in ReasonsFor[r.target]

\* Mutant: any row counts as an owner, released or not.
EverOwned(r) == r.target \in REQUIRES_ACTIVE_ASSIGNMENT => assignments # <<>>

OwnedIfRequired(r) == r.target \in REQUIRES_ACTIVE_ASSIGNMENT => ActiveRows # {}

AcceptTransition(w) ==
  /\ At(w, "authorised", "status")
  /\ LegalMove(w) /\ WellFormed(job[w].req) /\ OwnedIfRequired(job[w].req)
  /\ MoveOn(w, "ready")
  /\ UNCHANGED <<rows, enabled, audit, clock, race>>

RefuseTransition(w) ==
  /\ At(w, "authorised", "status")
  /\ ~LegalMove(w) \/ (WellFormed(job[w].req) /\ ~OwnedIfRequired(job[w].req))
  /\ Denied(w)

RejectTransition(w) ==
  /\ At(w, "authorised", "status")
  /\ LegalMove(w) /\ ~WellFormed(job[w].req)
  /\ Dropped(w)

\* Mutant: the trigger carries the status over only when the case closes.
SyncClosures(to, at) ==
  /\ status' = IF to \in Terminal THEN to ELSE status
  /\ closedAt' = IF to \notin Terminal THEN 0
                 ELSE IF closedAt # 0 THEN closedAt ELSE at

\* Mutant: no COALESCE, a second closing row moves closed_at.
SyncWithoutCoalesce(to, at) ==
  /\ status' = to
  /\ closedAt' = IF to \notin Terminal THEN 0 ELSE at

\* core.fn_sync_report_status, fired by the history insert.
SyncReportStatus(to, at) ==
  /\ status' = to
  /\ closedAt' = IF to \notin Terminal THEN 0
                 ELSE IF closedAt # 0 THEN closedAt ELSE at

\* Mutant: the submission mode is not looked at.
NotifyWhoever(r, at) ==
  inbox' = IF r.visible
           THEN inbox \cup {[to |-> Reporter, about |-> r.target, at |-> at]}
           ELSE inbox

\* Mutant: visible_to_reporter is not looked at.
NotifyAnyway(r, at) ==
  inbox' = IF Reporter # NoUser
           THEN inbox \cup {[to |-> Reporter, about |-> r.target, at |-> at]}
           ELSE inbox

NotifyReporter(r, at) ==
  inbox' = IF r.visible /\ Reporter # NoUser
           THEN inbox \cup {[to |-> Reporter, about |-> r.target, at |-> at]}
           ELSE inbox

RecordTransition(w) ==
  LET r == job[w].req
      now == job[w].now
  IN /\ At(w, "ready", "status")
     /\ history' = Append(history, [from |-> job[w].seen, to |-> r.target, by |-> r.user,
                                    at |-> now, reason |-> r.reason, visible |-> r.visible])
     /\ SyncReportStatus(r.target, now)
     /\ NotifyReporter(r, now)
     /\ AuditRecord(w, "success")
     /\ Commit(w)
     /\ UNCHANGED <<assignments, enabled, clock>>

-----------------------------------------------------------------------------
(* CaseService.assign and CaseService.unassign                             *)

\* get_responder, with the fallback for the caller itself.
Assignable(u, caller) == (u \in enabled /\ Role[u] # "student") \/ u = caller

\* Mutant: a closed case may be given an owner.
CheckEvenIfClosed(w) ==
  /\ At(w, "authorised", "assign")
  /\ Assignable(job[w].req.assignee, job[w].req.user)
  /\ Role[job[w].req.assignee] = RoutesTo
  /\ MoveOn(w, "checked")
  /\ UNCHANGED <<rows, enabled, audit, clock, race>>

CheckAssignee(w) ==
  /\ At(w, "authorised", "assign")
  /\ job[w].seen \notin Terminal
  /\ Assignable(job[w].req.assignee, job[w].req.user)
  /\ Role[job[w].req.assignee] = RoutesTo
  /\ MoveOn(w, "checked")
  /\ UNCHANGED <<rows, enabled, audit, clock, race>>

RefuseClosed(w) ==
  /\ At(w, "authorised", "assign")
  /\ job[w].seen \in Terminal
  /\ Denied(w)

RejectAssignee(w) ==
  /\ At(w, "authorised", "assign")
  /\ job[w].seen \notin Terminal
  /\ ~(/\ Assignable(job[w].req.assignee, job[w].req.user)
       /\ Role[job[w].req.assignee] = RoutesTo)
  /\ Dropped(w)

\* active_assignment: 0 when the case has no active row.
FindOwner(w) ==
  /\ At(w, "checked", "assign") \/ At(w, "authorised", "unassign")
  /\ \E i \in IF ActiveRows = {} THEN {0} ELSE ActiveRows :
       /\ IF job[w].req.kind = "assign"
          THEN i # 0 => assignments[i].to # job[w].req.assignee
          ELSE i # 0
       /\ job' = [job EXCEPT ![w].pc = "ready", ![w].found = i]
  /\ UNCHANGED <<rows, enabled, audit, clock, race>>

RefuseOwner(w) ==
  /\ \/ At(w, "checked", "assign")
        /\ \E i \in ActiveRows : assignments[i].to = job[w].req.assignee
     \/ At(w, "authorised", "unassign") /\ ActiveRows = {}
  /\ Denied(w)

\* Mutant: the row is deleted.
DeleteRow(i) ==
  IF i = 0 THEN assignments
  ELSE SubSeq(assignments, 1, i - 1) \o SubSeq(assignments, i + 1, Len(assignments))

\* release_assignment(existing): an update by primary key, whatever the row holds by now.
Release(i) == IF i = 0 THEN assignments ELSE [assignments EXCEPT ![i].active = FALSE]

\* Mutant: no partial unique index.
NoIndex(i) == TRUE

\* uq_case_assignment_active admits a new active row.
IndexAdmits(i) == ActiveRows \subseteq {i}

\* ck_case_assignment_release_order: nothing is released before it was assigned.  The
\* handover's `now' is taken before the row it releases is read.
ReleasedInOrder(w) == job[w].found # 0 => assignments[job[w].found].at <= job[w].now

RecordAssignment(w) ==
  LET r == job[w].req
      i == job[w].found
  IN /\ At(w, "ready", "assign")
     /\ IndexAdmits(i) /\ ReleasedInOrder(w)
     /\ assignments' = Append(Release(i), [to |-> r.assignee, role |-> Role[r.assignee],
                                           active |-> TRUE, at |-> job[w].now])
     /\ inbox' = IF r.assignee = r.user THEN inbox
                 ELSE inbox \cup {[to |-> r.assignee, about |-> "assignment",
                                   at |-> job[w].now]}
     /\ AuditRecord(w, "success")
     /\ Commit(w)
     /\ UNCHANGED <<report, enabled, clock>>

\* The database refuses: IntegrityError, which _audited does not catch.
ConflictingAssignment(w) ==
  /\ At(w, "ready", "assign")
  /\ ~(IndexAdmits(job[w].found) /\ ReleasedInOrder(w))
  /\ Dropped(w)

RecordRelease(w) ==
  /\ At(w, "ready", "unassign")
  /\ assignments' = Release(job[w].found)
  /\ AuditRecord(w, "success")
  /\ Commit(w)
  /\ UNCHANGED <<report, inbox, enabled, clock>>

-----------------------------------------------------------------------------
(* The environment                                                         *)

\* The worker is killed, or its connection fails, before the commit.
Crash(w) == job[w] # idle /\ Dropped(w)

\* An operator clears app_user.is_active; no endpoint does.
Deactivate(u) ==
  /\ u \in enabled \cap MayLeave
  /\ enabled' = enabled \ {u}
  /\ UNCHANGED <<rows, audit, clock, job, race>>

Next ==
  \/ \E w \in Workers :
       \/ \E r \in Requests : Receive(w, r)
       \/ Authorise(w) \/ RefuseCaller(w)
       \/ AcceptTransition(w) \/ RefuseTransition(w) \/ RejectTransition(w)
       \/ RecordTransition(w)
       \/ CheckAssignee(w) \/ RefuseClosed(w) \/ RejectAssignee(w)
       \/ FindOwner(w) \/ RefuseOwner(w)
       \/ RecordAssignment(w) \/ ConflictingAssignment(w) \/ RecordRelease(w)
       \/ Crash(w)
  \/ \E u \in Users : Deactivate(u)

Spec == Init /\ [][Next]_vars
-----------------------------------------------------------------------------
(* What holds however many workers there are                               *)

\* Only a request in flight can be overtaken.
RaceOK == overtaken \subseteq {w \in Workers : job[w] # idle} /\ belated \subseteq Nat

\* Types of the rows and of the requests in flight.
TypeOK ==
  /\ status \in Statuses /\ closedAt \in Nat
  /\ history \in Seq(HistoryRow) /\ assignments \in Seq(AssignmentRow)
  /\ enabled \subseteq Users
  /\ inbox \subseteq Notice /\ audit \subseteq AuditRow
  /\ clock \in Nat
  /\ job \in [Workers -> {idle} \cup Jobs]
  /\ \A w \in Workers : job[w] # idle => job[w].found \in 0 .. Len(assignments)
  /\ RaceOK

\* Two claims racing for one case leave it with at most one owner, and a
\* handover leaves no second active row behind.
OneOwner == \A i, j \in ActiveRows : i = j

\* The report row is what its trail says, whichever order racing transitions
\* commit in: the status of the row committed last, closed exactly when that
\* status is terminal, since the first row of the unbroken run of terminal
\* rows at the end of the trail.
ReportFollowsTrail ==
  /\ history # <<>> /\ status = history[Len(history)].to
  /\ status \notin Terminal => closedAt = 0
  /\ status \in Terminal =>
       \E k \in 2 .. Len(history) :
         /\ \A i \in k .. Len(history) : history[i].to \in Terminal
         /\ history[k - 1].to \notin Terminal
         /\ closedAt = history[k].at

\* No row of the trail, taken by itself, records a move outside the graph or
\* an outcome without (or with a foreign) resolution reason.
EveryRowLegal ==
  \A i \in DOMAIN history :
    /\ history[i].reason \in ReasonsFor[history[i].to]
    /\ IF i = 1 THEN history[i].from = "none"
       ELSE history[i].to \in CASE_TRANSITIONS[history[i].from]

\* A write and its SUCCESS row in the access log exist together or not at all,
\* and no request is recorded both as done and as refused.
WritesAreAudited ==
  LET done(kind) == {a.at : a \in {x \in audit : x.action = kind /\ x.outcome = "success"}}
      refused == {a.at : a \in {x \in audit : x.outcome = "denied"}}
  IN /\ done("status") = {history[i].at : i \in 2 .. Len(history)}
     /\ done("assign") = {assignments[i].at : i \in DOMAIN assignments}
     /\ refused \cap {a.at : a \in {x \in audit : x.outcome = "success"}} = {}

\* The reporter of an identified case is told of every move recorded as
\* visible and of no other; the reporter of an anonymous case of nothing.
ReporterToldWhatIsVisible ==
  {[about |-> n.about, at |-> n.at] : n \in {m \in inbox : m.about # "assignment"}}
    = IF Reporter = NoUser THEN {}
      ELSE {[about |-> history[i].to, at |-> history[i].at] :
              i \in {k \in 2 .. Len(history) : history[k].visible}}

\* The trail only grows, and an ownership once released never comes back.
TrailOnlyGrows ==
  [][/\ Len(history') >= Len(history) /\ Len(assignments') >= Len(assignments)
     /\ \A i \in DOMAIN history : history'[i] = history[i]
     /\ \A i \in DOMAIN assignments :
          /\ assignments'[i].to = assignments[i].to
          /\ assignments'[i].active => assignments[i].active]_vars

\* The timeline, which its readers sort by changed_at, ends in the status of the
\* report, unless the write that gave the report its status was committed by a
\* request that another write had overtaken.
TimelineEndsInStatus ==
  history[Len(history)].at \notin belated =>
    \A i \in DOMAIN history :
      (\A j \in DOMAIN history : history[j].at <= history[i].at) => history[i].to = status

-----------------------------------------------------------------------------
(* What the case promises                                                  *)

owner == IF ActiveRows = {} THEN NoUser
         ELSE assignments[CHOOSE i \in ActiveRows : TRUE].to

Contract ==
  INSTANCE CaseContract WITH
    status <- status, owner <- owner, overtaken <- overtaken, Clients <- Workers,
    had <- {history[i].to : i \in DOMAIN history}, owned <- assignments # <<>>

\* A request that no other write overtook keeps the case's promise: a legal move
\* only, an owner where one is required, no successor of a terminal status, no new
\* owner of a closed case.  One that was overtaken still moves to a successor of a
\* status the case has had, and not without an owner at some time.
KeepsContract == Contract!Spec

(* What the documents say of the case                                      *)

\* CASE_LIFECYCLE.md: `resolved', `closed_no_action', `duplicate', `withdrawn'
\* have no legal successor.
TerminalIsFinal == [][(status \in Terminal) => status' = status]_vars

\* CASE_LIFECYCLE.md: an active assignment row at the moment of the transition.
AssignmentGate ==
  [][status' # status /\ status' \in REQUIRES_ACTIVE_ASSIGNMENT
       => ActiveRows # {}]_vars
=============================================================================
