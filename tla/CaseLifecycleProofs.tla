------------------------- MODULE CaseLifecycleProofs -------------------------
(***************************************************************************)
(* Theorems about CaseLifecycle, for every set of workers, every cast and  *)
(* every set of requests, its refinement of CaseContract included.         *)
(***************************************************************************)
EXTENDS CaseLifecycle, SequenceTheorems, TLAPS

\* A request in flight is one of the requests clients may send, with the
\* fields of its kind.
LEMMA JobFields ==
  ASSUME TypeOK, NEW w \in Workers, job[w] # idle
  PROVE  /\ job[w] \in Jobs
         /\ job[w].found \in 0 .. Len(assignments)
         /\ job[w].req.user \in Users
         /\ job[w].req.kind \in {"status", "assign", "unassign"}
         /\ job[w].req.kind = "status" => job[w].req \in StatusRequest
         /\ job[w].req.kind = "assign" => job[w].req \in AssignRequest
<1>1. job[w] \in Jobs /\ job[w].found \in 0 .. Len(assignments)
  BY DEF TypeOK
<1>2. job[w].req \in StatusRequest \cup AssignRequest \cup UnassignRequest
  BY <1>1, ConstantsAssumption DEF Jobs
<1> QED
  BY <1>1, <1>2 DEF StatusRequest, AssignRequest, UnassignRequest

\* The stage of a worker that is in the middle of a request.
LEMMA Busy ==
  ASSUME NEW w \in Workers, job[w].pc \in Stages
  PROVE  job[w] # idle
BY DEF idle, Stages

LEMMA TypeInit == Init => TypeOK
BY ConstantsAssumption DEF Init, TypeOK, RaceOK, HistoryRow, Statuses, Open, Terminal, NoReason

\* Taking a worker's request away leaves the requests in flight well typed.
LEMMA FinishType ==
  ASSUME TypeOK, RaceOK', NEW w \in Workers, Finish(w), UNCHANGED <<rows, enabled, clock>>,
         audit' \subseteq AuditRow
  PROVE  TypeOK'
BY DEF TypeOK, Finish, rows, report, ActiveRows

\* So does moving it on to its next stage.
LEMMA MoveOnType ==
  ASSUME TypeOK, RaceOK', NEW w \in Workers, job[w] # idle, NEW st \in Stages,
         MoveOn(w, st), UNCHANGED <<rows, enabled, audit, clock>>
  PROVE  TypeOK'
<1>1. [job[w] EXCEPT !.pc = st] \in Jobs
  BY DEF TypeOK, Jobs
<1>2. job' \in [Workers -> {idle} \cup Jobs]
  BY <1>1 DEF TypeOK, MoveOn
<1>3. \A v \in Workers : job'[v] # idle => job'[v].found \in 0 .. Len(assignments')
  BY JobFields DEF TypeOK, MoveOn, rows, Jobs
<1> QED
  BY <1>2, <1>3 DEF TypeOK, rows, report

\* An access_log row about a request in flight is well formed.
LEMMA AuditType ==
  ASSUME TypeOK, NEW w \in Workers, job[w] # idle,
         NEW outcome \in {"success", "denied"}, AuditRecord(w, outcome)
  PROVE  audit' \subseteq AuditRow
<1>1. job[w].now \in Nat
  BY JobFields DEF Jobs
<1> QED
  BY <1>1, JobFields DEF TypeOK, AuditRecord, AuditRow

\* A request moved on with a new stamp or a new finding is still one.
LEMMA JobUpdate ==
  ASSUME NEW j \in Jobs, NEW st \in Stages, NEW n \in Nat
  PROVE  /\ [j EXCEPT !.pc = st, !.now = n] \in Jobs
         /\ [j EXCEPT !.pc = st, !.found = n] \in Jobs
<1>1. [j EXCEPT !.pc = st] \in Jobs
  BY DEF Jobs
<1>2. ASSUME NEW k \in Jobs
      PROVE  [k EXCEPT !.now = n] \in Jobs /\ [k EXCEPT !.found = n] \in Jobs
  BY DEF Jobs
<1> QED
  BY <1>1, <1>2

\* An appended row is a row.
LEMMA AppendType ==
  ASSUME NEW S, NEW q \in Seq(S), NEW e \in S
  PROVE  /\ Append(q, e) \in Seq(S)
         /\ Len(Append(q, e)) = Len(q) + 1
OBVIOUS

Released(row) == [row EXCEPT !.active = FALSE]

\* A released row is an inactive row of the same owner.
LEMMA ReleasedRow ==
  ASSUME NEW a \in AssignmentRow
  PROVE  Released(a) \in AssignmentRow /\ ~ Released(a).active /\ Released(a).to = a.to
BY DEF AssignmentRow, Released

\* What a release does to the rows, and to each of them.
LEMMA ReleaseType ==
  ASSUME assignments \in Seq(AssignmentRow), NEW i \in 0 .. Len(assignments)
  PROVE  /\ Release(i) \in Seq(AssignmentRow)
         /\ Len(Release(i)) = Len(assignments)
         /\ \A k \in 1 .. Len(assignments) :
              Release(i)[k] = IF k = i THEN Released(assignments[k]) ELSE assignments[k]
<1>1. CASE i = 0
  BY <1>1 DEF Release
<1>2. CASE i # 0
  <2>1. i \in 1 .. Len(assignments) /\ Released(assignments[i]) \in AssignmentRow
    BY <1>2, ReleasedRow
  <2>2. Release(i) = [assignments EXCEPT ![i] = Released(assignments[i])]
    BY <1>2 DEF Release, Released
  <2> QED
    BY <2>1, <2>2, ExceptSeq
<1> QED
  BY <1>1, <1>2

\* Only requests in flight are ever overtaken.
LEMMA RaceStep == TypeOK /\ [Next]_vars => RaceOK'
<1> SUFFICES ASSUME TypeOK, [Next]_vars
             PROVE  RaceOK'
  OBVIOUS
<1>0. RaceOK /\ DOMAIN job = Workers
  BY DEF TypeOK
<1>1. ASSUME NEW w \in Workers, Finish(w)
      PROVE  RaceOK'
  BY <1>0, <1>1 DEF RaceOK, Finish
<1>2. ASSUME NEW w \in Workers, Commit(w), job[w].now \in Nat
      PROVE  RaceOK'
  BY <1>0, <1>2 DEF RaceOK, Commit
<1>3. ASSUME NEW w \in Workers, RecordTransition(w) \/ RecordAssignment(w) \/ RecordRelease(w)
      PROVE  Commit(w) /\ job[w].now \in Nat
  BY <1>3, Busy, JobFields
  DEF RecordTransition, RecordAssignment, RecordRelease, At, Stages, Jobs
<1>4. ASSUME UNCHANGED race, NEW w \in Workers, NEW j, j # idle, job' = [job EXCEPT ![w] = j]
      PROVE  RaceOK'
  BY <1>0, <1>4 DEF RaceOK, race
<1>5. ASSUME NEW w \in Workers, NEW r \in Requests, Receive(w, r)
      PROVE  RaceOK'
  <2> DEFINE j == [pc |-> "loaded", req |-> r, seen |-> status, now |-> 0, found |-> 0]
  <2>1. j.pc # idle.pc
    BY DEF idle
  <2>2. UNCHANGED race /\ job' = [job EXCEPT ![w] = j]
    BY <1>5 DEF Receive
  <2> HIDE DEF j
  <2> QED
    BY <1>4, <2>1, <2>2
<1>6. ASSUME NEW w \in Workers, job[w] # idle, UNCHANGED race,
             NEW st \in Stages, NEW n \in Nat,
             \/ job' = [job EXCEPT ![w].pc = st]
             \/ job' = [job EXCEPT ![w].pc = st, ![w].now = n]
             \/ job' = [job EXCEPT ![w].pc = st, ![w].found = n]
      PROVE  RaceOK'
  <2>1. job[w] \in Jobs
    BY <1>6, JobFields
  <2>2. ASSUME NEW j \in Jobs
        PROVE  j # idle
    BY DEF Jobs, idle, Stages
  <2>3. /\ [job[w] EXCEPT !.pc = st] \in Jobs
        /\ [job[w] EXCEPT !.pc = st, !.now = n] \in Jobs
        /\ [job[w] EXCEPT !.pc = st, !.found = n] \in Jobs
    <3>1. [job[w] EXCEPT !.pc = st] \in Jobs
      BY <2>1 DEF Jobs
    <3> QED
      BY <2>1, <3>1, JobUpdate
  <2>4. PICK j \in Jobs : job' = [job EXCEPT ![w] = j]
    BY <1>0, <1>6, <2>3
  <2> QED
    BY <1>4, <1>6, <2>2, <2>4
<1>7. ASSUME NEW w \in Workers, Authorise(w)
      PROVE  RaceOK'
  <2>1. /\ job[w] # idle /\ UNCHANGED race /\ "authorised" \in Stages /\ clock + 1 \in Nat
        /\ job' = [job EXCEPT ![w].pc = "authorised", ![w].now = clock + 1]
    BY <1>7, Busy DEF Authorise, Stages, TypeOK
  <2> QED
    BY <1>6, <2>1
<1>8. ASSUME NEW w \in Workers, AcceptTransition(w) \/ CheckAssignee(w)
      PROVE  RaceOK'
  <2>1. job[w] # idle /\ UNCHANGED race
    BY <1>8, Busy DEF AcceptTransition, CheckAssignee, At, Stages
  <2>2. PICK st \in Stages : job' = [job EXCEPT ![w].pc = st]
    BY <1>8 DEF AcceptTransition, CheckAssignee, MoveOn, Stages
  <2>3. 0 \in Nat
    OBVIOUS
  <2> QED
    BY <1>6, <2>1, <2>2, <2>3
<1>9. ASSUME NEW w \in Workers, FindOwner(w)
      PROVE  RaceOK'
  <2>1. PICK i \in IF ActiveRows = {} THEN {0} ELSE ActiveRows :
          job' = [job EXCEPT ![w].pc = "ready", ![w].found = i]
    BY <1>9 DEF FindOwner
  <2>2. i \in Nat
    BY <2>1 DEF ActiveRows, TypeOK
  <2>3. job[w] # idle /\ UNCHANGED race /\ "ready" \in Stages
    BY <1>9, Busy DEF FindOwner, At, Stages
  <2> QED
    BY <1>6, <2>1, <2>2, <2>3
<1>10. CASE UNCHANGED <<job, race>>
  BY <1>0, <1>10 DEF RaceOK, race
<1> QED
  BY <1>1, <1>2, <1>3, <1>5, <1>7, <1>8, <1>9, <1>10
  DEF Next, vars, RefuseCaller, RefuseTransition, RejectTransition, RefuseClosed,
      RejectAssignee, RefuseOwner, ConflictingAssignment, Crash, Deactivate, Denied, Dropped

\* Every step of every handler keeps the types.
LEMMA TypeStep == TypeOK /\ [Next]_vars => TypeOK'
<1> SUFFICES ASSUME TypeOK, [Next]_vars
             PROVE  TypeOK'
  OBVIOUS
<1>0. RaceOK'
  BY RaceStep
<1>1. ASSUME NEW w \in Workers, NEW r \in Requests, Receive(w, r)
      PROVE  TypeOK'
  <2>1. [pc |-> "loaded", req |-> r, seen |-> status, now |-> 0, found |-> 0] \in Jobs
    BY DEF TypeOK, Jobs, Stages
  <2>2. job' \in [Workers -> {idle} \cup Jobs]
    BY <1>1, <2>1 DEF TypeOK, Receive
  <2>3. ASSUME NEW v \in Workers, job'[v] # idle
        PROVE  job'[v].found \in 0 .. Len(assignments')
    BY <1>1, <2>3, JobFields DEF TypeOK, Receive, rows
  <2> QED
    BY <1>0, <1>1, <2>2, <2>3 DEF TypeOK, Receive, rows, report
<1>2. ASSUME NEW w \in Workers, Authorise(w)
      PROVE  TypeOK'
  <2>1. job[w] # idle
    BY <1>2, Busy DEF Authorise, Stages
  <2>2. [job[w] EXCEPT !.pc = "authorised", !.now = clock + 1] \in Jobs
    <3>1. job[w] \in Jobs /\ clock + 1 \in Nat /\ "authorised" \in Stages
      BY <2>1, JobFields DEF TypeOK, Stages
    <3> QED
      BY <3>1, JobUpdate
  <2>3. job' \in [Workers -> {idle} \cup Jobs]
    BY <1>2, <2>2 DEF TypeOK, Authorise
  <2>4. ASSUME NEW v \in Workers, job'[v] # idle
        PROVE  job'[v].found \in 0 .. Len(assignments')
    BY <1>2, <2>1, <2>4, JobFields DEF TypeOK, Authorise, rows, Jobs
  <2> QED
    BY <1>0, <1>2, <2>3, <2>4 DEF TypeOK, Authorise, rows, report
<1>3. ASSUME NEW w \in Workers, RefuseCaller(w)
      PROVE  TypeOK'
  <2>1. job[w] # idle
    BY <1>3, Busy DEF RefuseCaller, Stages
  <2>2. audit' \subseteq AuditRow /\ clock' \in Nat
    BY <1>3, <2>1, JobFields DEF TypeOK, RefuseCaller, AuditRow
  <2> QED
    BY <1>0, <1>3, <2>2 DEF TypeOK, RefuseCaller, Finish, rows, report
<1>4. ASSUME NEW w \in Workers, AcceptTransition(w) \/ CheckAssignee(w)
      PROVE  TypeOK'
  <2>1. job[w] # idle
    BY <1>4, Busy DEF AcceptTransition, CheckAssignee, At, Stages
  <2> QED
    BY <1>0, <1>4, <2>1, MoveOnType DEF AcceptTransition, CheckAssignee, Stages
<1>5. ASSUME NEW w \in Workers, RefuseTransition(w) \/ RefuseClosed(w) \/ RefuseOwner(w)
      PROVE  TypeOK'
  <2>1. job[w] # idle
    BY <1>5, Busy DEF RefuseTransition, RefuseClosed, RefuseOwner, At, Stages
  <2> QED
    BY <1>0, <1>5, <2>1, AuditType, FinishType
    DEF RefuseTransition, RefuseClosed, RefuseOwner, Denied
<1>6. ASSUME NEW w \in Workers,
             \/ RejectTransition(w) \/ RejectAssignee(w)
             \/ ConflictingAssignment(w) \/ Crash(w)
      PROVE  TypeOK'
  BY <1>0, <1>6, FinishType
  DEF RejectTransition, RejectAssignee, ConflictingAssignment, Crash, Dropped, TypeOK
<1>7. ASSUME NEW w \in Workers, RecordTransition(w)
      PROVE  TypeOK'
  <2> DEFINE r == job[w].req
             now == job[w].now
  <2>1. job[w] # idle /\ r \in StatusRequest /\ now \in Nat /\ job[w].seen \in Statuses
    BY <1>7, Busy, JobFields DEF RecordTransition, At, Stages, Jobs
  <2>2. /\ r.target \in Statuses /\ r.user \in Users
        /\ r.reason \in Reasons \cup {NoReason} /\ r.visible \in BOOLEAN
    BY <2>1 DEF StatusRequest
  <2>3. history' \in Seq(HistoryRow)
    <3>1. [from |-> job[w].seen, to |-> r.target, by |-> r.user, at |-> now,
           reason |-> r.reason, visible |-> r.visible] \in HistoryRow
      BY <2>1, <2>2 DEF HistoryRow
    <3> QED
      BY <1>7, <3>1, AppendType DEF RecordTransition, TypeOK
  <2>4. status' \in Statuses /\ closedAt' \in Nat
    BY <1>7, <2>1, <2>2 DEF RecordTransition, SyncReportStatus, TypeOK
  <2>5. inbox' \subseteq Notice
    BY <1>7, <2>1, <2>2, ConstantsAssumption
    DEF RecordTransition, NotifyReporter, TypeOK, Notice
  <2>6. audit' \subseteq AuditRow
    BY <1>7, <2>1, AuditType DEF RecordTransition
  <2> QED
    BY <1>0, <1>7, <2>3, <2>4, <2>5, <2>6 DEF RecordTransition, TypeOK, Commit
<1>8. ASSUME NEW w \in Workers, FindOwner(w)
      PROVE  TypeOK'
  <2>1. job[w] # idle
    BY <1>8, Busy DEF FindOwner, At, Stages
  <2>2. PICK i \in IF ActiveRows = {} THEN {0} ELSE ActiveRows :
          job' = [job EXCEPT ![w].pc = "ready", ![w].found = i]
    BY <1>8 DEF FindOwner
  <2>3. i \in 0 .. Len(assignments)
    BY <2>2 DEF ActiveRows, TypeOK
  <2>4. [job[w] EXCEPT !.pc = "ready", !.found = i] \in Jobs
    <3>1. job[w] \in Jobs /\ i \in Nat /\ "ready" \in Stages
      BY <2>1, <2>3, JobFields DEF TypeOK, Stages
    <3> QED
      BY <3>1, JobUpdate
  <2>5. job' \in [Workers -> {idle} \cup Jobs]
    BY <2>2, <2>4 DEF TypeOK
  <2>6. ASSUME NEW v \in Workers, job'[v] # idle
        PROVE  job'[v].found \in 0 .. Len(assignments')
    BY <1>8, <2>1, <2>2, <2>3, <2>6, JobFields DEF TypeOK, FindOwner, rows, Jobs
  <2> QED
    BY <1>0, <1>8, <2>5, <2>6 DEF TypeOK, FindOwner, rows, report
<1>9. ASSUME NEW w \in Workers, RecordAssignment(w)
      PROVE  TypeOK'
  <2> DEFINE r == job[w].req
             row == [to |-> r.assignee, role |-> Role[r.assignee], active |-> TRUE,
                     at |-> job[w].now]
  <2>1. job[w] # idle /\ r \in AssignRequest /\ job[w].now \in Nat
    BY <1>9, Busy, JobFields DEF RecordAssignment, At, Stages, Jobs
  <2>2. row \in AssignmentRow
    BY <2>1, ConstantsAssumption DEF AssignRequest, AssignmentRow
  <2>3. /\ assignments' \in Seq(AssignmentRow)
        /\ Len(assignments') = Len(assignments) + 1
    <3>1. /\ Release(job[w].found) \in Seq(AssignmentRow)
          /\ Len(Release(job[w].found)) = Len(assignments)
      BY <2>1, JobFields, ReleaseType DEF TypeOK
    <3> HIDE DEF row
    <3>2. assignments' = Append(Release(job[w].found), row)
      BY <1>9 DEF RecordAssignment, row
    <3> QED
      BY <2>2, <3>1, <3>2, AppendType
  <2>4. inbox' \subseteq Notice
    BY <1>9, <2>1 DEF RecordAssignment, TypeOK, Notice, AssignRequest
  <2>5. audit' \subseteq AuditRow
    BY <1>9, <2>1, AuditType DEF RecordAssignment
  <2>6. ASSUME NEW v \in Workers, job'[v] # idle
        PROVE  job'[v].found \in 0 .. Len(assignments')
    BY <1>9, <2>3, <2>6, JobFields DEF TypeOK, RecordAssignment, Commit
  <2> QED
    BY <1>0, <1>9, <2>3, <2>4, <2>5, <2>6 DEF RecordAssignment, TypeOK, Commit, report
<1>10. ASSUME NEW w \in Workers, RecordRelease(w)
       PROVE  TypeOK'
  <2>1. job[w] # idle
    BY <1>10, Busy DEF RecordRelease, At, Stages
  <2>2. assignments' \in Seq(AssignmentRow) /\ Len(assignments') = Len(assignments)
    BY <1>10, <2>1, JobFields, ReleaseType DEF RecordRelease, TypeOK
  <2>3. audit' \subseteq AuditRow
    BY <1>10, <2>1, AuditType DEF RecordRelease
  <2> QED
    BY <1>0, <1>10, <2>2, <2>3 DEF RecordRelease, TypeOK, Commit, report
<1>11. ASSUME NEW u \in Users, Deactivate(u)
       PROVE  TypeOK'
  BY <1>0, <1>11 DEF Deactivate, TypeOK, rows, report
<1>12. CASE UNCHANGED vars
  BY <1>0, <1>12 DEF vars, TypeOK
<1> QED
  BY <1>1, <1>2, <1>3, <1>4, <1>5, <1>6, <1>7, <1>8, <1>9, <1>10, <1>11, <1>12 DEF Next

\* The types of the rows and of the requests in flight, for every instance.
THEOREM TypeCorrect == Spec => []TypeOK
BY TypeInit, TypeStep, PTL DEF Spec

-----------------------------------------------------------------------------
(* One owner.  The invariant is inductive by itself: the index admits a new *)
(* active row only where the released row was the one active row.           *)

\* A claim leaves its own new row as the only active one.
LEMMA ClaimIsAlone ==
  ASSUME TypeOK, NEW w \in Workers, RecordAssignment(w)
  PROVE  ActiveRows' = {Len(assignments) + 1}
<1> DEFINE i == job[w].found
           row == [to |-> job[w].req.assignee, role |-> Role[job[w].req.assignee],
                   active |-> TRUE, at |-> job[w].now]
<1>1. job[w] # idle
  BY Busy DEF RecordAssignment, At, Stages
<1>2. i \in 0 .. Len(assignments)
  BY <1>1, JobFields
<1>3. Release(i) \in Seq(AssignmentRow) /\ Len(Release(i)) = Len(assignments)
  BY <1>2, ReleaseType DEF TypeOK
<1>4. /\ assignments' = Append(Release(i), row)
      /\ ActiveRows \subseteq {i}
  BY DEF RecordAssignment, IndexAdmits
<1>5. row.active
  OBVIOUS
<1> HIDE DEF row, i
<1>6. /\ Len(assignments') = Len(assignments) + 1
      /\ assignments'[Len(assignments) + 1] = row
      /\ \A k \in 1 .. Len(assignments) : assignments'[k] = Release(i)[k]
      /\ DOMAIN assignments' = 1 .. Len(assignments) + 1
  <2>1. Len(assignments) \in Nat
    BY DEF TypeOK
  <2> QED
    BY <1>3, <1>4, <2>1
<1>7. ASSUME NEW k \in 1 .. Len(assignments)
      PROVE  ~ assignments'[k].active
  <2>1. assignments[k] \in AssignmentRow /\ k \in DOMAIN assignments
    BY DEF TypeOK
  <2>2. CASE k = i
    <3>1. assignments'[k] = Released(assignments[k])
      BY <1>2, <1>6, <2>2, ReleaseType DEF TypeOK
    <3> QED
      BY <2>1, <3>1, ReleasedRow
  <2>3. CASE k # i
    <3>1. ~ assignments[k].active
      BY <1>4, <2>1, <2>3 DEF ActiveRows
    <3> QED
      BY <1>2, <1>6, <2>3, <3>1, ReleaseType DEF TypeOK
  <2> QED
    BY <2>2, <2>3
<1> QED
  <2>1. Len(assignments) \in Nat
    BY DEF TypeOK
  <2> QED
    BY <1>5, <1>6, <1>7, <2>1 DEF ActiveRows

\* Releasing a row makes no row active.
LEMMA ReleaseActivatesNothing ==
  ASSUME TypeOK, NEW i \in 0 .. Len(assignments), assignments' = Release(i)
  PROVE  ActiveRows' \subseteq ActiveRows
<1>1. /\ Len(assignments') = Len(assignments)
      /\ DOMAIN assignments' = 1 .. Len(assignments)
      /\ DOMAIN assignments = 1 .. Len(assignments)
  BY ReleaseType DEF TypeOK
<1>2. ASSUME NEW k \in 1 .. Len(assignments), assignments'[k].active
      PROVE  assignments[k].active
  <2>1. assignments[k] \in AssignmentRow
    BY DEF TypeOK
  <2> QED
    BY <1>2, <2>1, ReleaseType, ReleasedRow DEF TypeOK
<1> QED
  BY <1>1, <1>2 DEF ActiveRows

\* Apart from a claim and a release, no step touches the ownership rows.
LEMMA RowsUntouched ==
  ASSUME [Next]_vars, assignments' # assignments
  PROVE  \E w \in Workers : RecordAssignment(w) \/ RecordRelease(w)
BY DEF Next, vars, Receive, Authorise, RefuseCaller, AcceptTransition, RefuseTransition,
       RejectTransition, RecordTransition, CheckAssignee, RefuseClosed, RejectAssignee,
       FindOwner, RefuseOwner, ConflictingAssignment, Crash, Deactivate, Denied, Dropped,
       rows

LEMMA OneOwnerStep == TypeOK /\ OneOwner /\ [Next]_vars => OneOwner'
<1> SUFFICES ASSUME TypeOK, OneOwner, [Next]_vars
             PROVE  OneOwner'
  OBVIOUS
<1>1. CASE assignments' = assignments
  BY <1>1 DEF OneOwner, ActiveRows
<1>2. ASSUME NEW w \in Workers, RecordAssignment(w)
      PROVE  OneOwner'
  BY <1>2, ClaimIsAlone DEF OneOwner
<1>3. ASSUME NEW w \in Workers, RecordRelease(w)
      PROVE  OneOwner'
  <2>1. job[w].found \in 0 .. Len(assignments) /\ assignments' = Release(job[w].found)
    BY <1>3, Busy, JobFields DEF RecordRelease, At, Stages
  <2> QED
    BY <2>1, ReleaseActivatesNothing DEF OneOwner
<1> QED
  BY <1>1, <1>2, <1>3, RowsUntouched

\* However many claims, handovers and releases race, no case has two owners.
THEOREM AtMostOneOwner == Spec => []OneOwner
<1>1. Init => OneOwner
  BY DEF Init, OneOwner, ActiveRows
<1> QED
  BY <1>1, TypeCorrect, OneOwnerStep, PTL DEF Spec

-----------------------------------------------------------------------------
(* The trail.  A row is judged when it is accepted and written later, so    *)
(* what the row says has to be carried by the request in between.           *)

AcceptedIsLegal ==
  \A w \in Workers :
    At(w, "ready", "status") => LegalMove(w) /\ WellFormed(job[w].req)

Stamped == \A w \in Workers : job[w].pc \in {"authorised", "checked", "ready"} => job[w].now > 0

TrailInv ==
  /\ TypeOK /\ AcceptedIsLegal /\ Stamped
  /\ EveryRowLegal
  /\ ReportFollowsTrail /\ (status \in Terminal => closedAt # 0)

\* What one step can do to one worker: nothing, end its request, take one up,
\* or move it on without touching what it was asked and what it saw.
LEMMA WorkerStep ==
  ASSUME TypeOK, [Next]_vars, NEW v \in Workers
  PROVE  \/ job'[v] = job[v]
         \/ job'[v] = idle
         \/ \E r \in Requests : Receive(v, r)
         \/ /\ job'[v].req = job[v].req /\ job'[v].seen = job[v].seen
            /\ job'[v].pc \in Stages /\ job[v] \in Jobs
            /\ \/ Authorise(v) /\ job'[v].now = clock + 1
                  /\ job'[v].pc = "authorised"
               \/ /\ AcceptTransition(v) \/ CheckAssignee(v) \/ FindOwner(v)
                  /\ job'[v].now = job[v].now
<1>1. CASE UNCHANGED vars
  BY <1>1 DEF vars
<1>2. ASSUME NEW w \in Workers, NEW r \in Requests, Receive(w, r)
      PROVE  job'[v] = job[v] \/ Receive(v, r)
  BY <1>2 DEF Receive, TypeOK
<1>3. ASSUME NEW w \in Workers,
             Finish(w) \/ Commit(w) \/ (\E u \in Users : Deactivate(u))
      PROVE  job'[v] = job[v] \/ job'[v] = idle
  BY <1>3 DEF Finish, Commit, Deactivate, TypeOK
<1>4. ASSUME NEW w \in Workers, Authorise(w)
      PROVE  \/ job'[v] = job[v]
             \/ /\ Authorise(v) /\ job'[v].now = clock + 1
                /\ job'[v].pc = "authorised"
                /\ job'[v].req = job[v].req /\ job'[v].seen = job[v].seen
                /\ job[v] \in Jobs
  <2>1. CASE v # w
    BY <1>4, <2>1 DEF Authorise, TypeOK
  <2>2. CASE v = w
    <3>1. job[w] \in Jobs
      BY <1>4, Busy, JobFields DEF Authorise, Stages
    <3>2. job'[w] = [job[w] EXCEPT !.pc = "authorised", !.now = clock + 1]
      BY <1>4 DEF Authorise, TypeOK
    <3> QED
      BY <1>4, <2>2, <3>1, <3>2 DEF Jobs
  <2> QED
    BY <2>1, <2>2
<1>5. ASSUME NEW w \in Workers, AcceptTransition(w) \/ CheckAssignee(w)
      PROVE  \/ job'[v] = job[v]
             \/ /\ AcceptTransition(v) \/ CheckAssignee(v)
                /\ job'[v].pc \in Stages /\ job'[v].now = job[v].now
                /\ job'[v].req = job[v].req /\ job'[v].seen = job[v].seen
                /\ job[v] \in Jobs
  <2>1. job[w] \in Jobs
    BY <1>5, Busy, JobFields DEF AcceptTransition, CheckAssignee, At, Stages
  <2>2. PICK st \in Stages : job' = [job EXCEPT ![w].pc = st]
    BY <1>5 DEF AcceptTransition, CheckAssignee, MoveOn, Stages
  <2> QED
    BY <1>5, <2>1, <2>2 DEF TypeOK, Jobs
<1>6. ASSUME NEW w \in Workers, FindOwner(w)
      PROVE  \/ job'[v] = job[v]
             \/ /\ FindOwner(v)
                /\ job'[v].pc \in Stages /\ job'[v].now = job[v].now
                /\ job'[v].req = job[v].req /\ job'[v].seen = job[v].seen
                /\ job[v] \in Jobs
  <2>1. job[w] \in Jobs
    BY <1>6, Busy, JobFields DEF FindOwner, At, Stages
  <2>2. PICK i : job' = [job EXCEPT ![w].pc = "ready", ![w].found = i]
    BY <1>6 DEF FindOwner
  <2>3. v = w => job'[v] = [job[w] EXCEPT !.pc = "ready", !.found = i]
    BY <2>2 DEF TypeOK
  <2>4. v # w => job'[v] = job[v]
    BY <2>2 DEF TypeOK
  <2> QED
    BY <1>6, <2>1, <2>3, <2>4 DEF Jobs, Stages
<1>7. \/ UNCHANGED vars
      \/ \E w \in Workers, r \in Requests : Receive(w, r)
      \/ \E w \in Workers : \/ Finish(w) \/ Commit(w) \/ Authorise(w)
                             \/ AcceptTransition(w) \/ CheckAssignee(w) \/ FindOwner(w)
      \/ \E u \in Users : Deactivate(u)
  BY DEF Next, RefuseCaller, RefuseTransition, RejectTransition, RecordTransition,
         RefuseClosed, RejectAssignee, RefuseOwner, RecordAssignment,
         ConflictingAssignment, RecordRelease, Crash, Denied, Dropped
<1> QED
  BY <1>1, <1>2, <1>3, <1>4, <1>5, <1>6, <1>7 DEF Stages

\* The trail and the report row change in one action only.
LEMMA ReportUntouched ==
  ASSUME [Next]_vars, report' # report
  PROVE  \E w \in Workers : RecordTransition(w)
BY DEF Next, vars, Receive, Authorise, RefuseCaller, AcceptTransition, RefuseTransition,
       RejectTransition, CheckAssignee, RefuseClosed, RejectAssignee, FindOwner,
       RefuseOwner, RecordAssignment, ConflictingAssignment, RecordRelease, Crash,
       Deactivate, Denied, Dropped, rows, report

\* A request is stamped when it is authorised and carries that stamp.
LEMMA StampStep == TypeOK /\ Stamped /\ [Next]_vars => Stamped'
<1> SUFFICES ASSUME TypeOK, Stamped, [Next]_vars, NEW v \in Workers,
                    job'[v].pc \in {"authorised", "checked", "ready"}
             PROVE  job'[v].now > 0
  BY DEF Stamped
<1>1. CASE job'[v] = job[v]
  BY <1>1 DEF Stamped
<1>2. job'[v] # idle
  BY DEF idle
<1>3. ASSUME NEW r \in Requests, Receive(v, r)
      PROVE  FALSE
  BY <1>3 DEF Receive, TypeOK
<1>4. CASE Authorise(v) /\ job'[v].now = clock + 1
  BY <1>4 DEF TypeOK
<1>5. CASE /\ AcceptTransition(v) \/ CheckAssignee(v) \/ FindOwner(v)
           /\ job'[v].now = job[v].now
  BY <1>5 DEF Stamped, AcceptTransition, CheckAssignee, FindOwner, At
<1> QED
  BY <1>1, <1>2, <1>3, <1>4, <1>5, WorkerStep

\* A transition ready to be written was judged on what is written.
LEMMA AcceptedStep == TypeOK /\ AcceptedIsLegal /\ [Next]_vars => AcceptedIsLegal'
<1> SUFFICES ASSUME TypeOK, AcceptedIsLegal, [Next]_vars, NEW v \in Workers,
                    At(v, "ready", "status")'
             PROVE  LegalMove(v)' /\ WellFormed(job'[v].req)
  BY DEF AcceptedIsLegal
<1>1. CASE job'[v] = job[v]
  BY <1>1 DEF AcceptedIsLegal, At, LegalMove
<1>2. job'[v] # idle
  BY DEF At, idle
<1>3. ASSUME NEW r \in Requests, Receive(v, r)
      PROVE  FALSE
  BY <1>3 DEF Receive, TypeOK, At
<1>4. CASE job'[v].pc = "authorised"
  BY <1>4 DEF At
<1>5. CASE AcceptTransition(v) /\ job'[v].req = job[v].req /\ job'[v].seen = job[v].seen
  BY <1>5 DEF AcceptTransition, LegalMove
<1>6. CASE CheckAssignee(v) /\ job'[v].req = job[v].req
  BY <1>6 DEF CheckAssignee, At
<1>7. CASE FindOwner(v) /\ job'[v].req = job[v].req
  BY <1>7 DEF FindOwner, At
<1> QED
  BY <1>1, <1>2, <1>3, <1>4, <1>5, <1>6, <1>7, WorkerStep

\* The one row a transition appends, and what the trigger makes of it.
LEMMA Recorded ==
  ASSUME TypeOK, Stamped, NEW w \in Workers, RecordTransition(w)
  PROVE  LET r == job[w].req
         IN /\ history' \in Seq(HistoryRow)
            /\ Len(history) \in Nat
            /\ Len(history') = Len(history) + 1
            /\ \A i \in 1 .. Len(history) : history'[i] = history[i]
            /\ history'[Len(history) + 1].from = job[w].seen
            /\ history'[Len(history) + 1].to = r.target
            /\ history'[Len(history) + 1].at = job[w].now
            /\ history'[Len(history) + 1].reason = r.reason
            /\ r.target \in Statuses /\ status' = r.target
            /\ job[w].now \in Nat /\ job[w].now > 0
<1> DEFINE r == job[w].req
           row == [from |-> job[w].seen, to |-> r.target, by |-> r.user, at |-> job[w].now,
                   reason |-> r.reason, visible |-> r.visible]
<1>1. /\ job[w] \in Jobs /\ r \in StatusRequest
      /\ job[w].now \in Nat /\ job[w].now > 0 /\ job[w].seen \in Statuses
  BY Busy, JobFields DEF RecordTransition, At, Stages, Jobs, Stamped
<1>2. r.target \in Statuses /\ status' = r.target
  BY <1>1 DEF StatusRequest, RecordTransition, SyncReportStatus
<1>3. row \in HistoryRow
  BY <1>1 DEF HistoryRow, StatusRequest
<1>4. /\ row.from = job[w].seen /\ row.to = r.target /\ row.at = job[w].now
      /\ row.reason = r.reason
  OBVIOUS
<1>5. history' = Append(history, row) /\ history \in Seq(HistoryRow)
  BY DEF RecordTransition, TypeOK
<1> HIDE DEF row
<1>6. /\ history' \in Seq(HistoryRow) /\ Len(history) \in Nat
      /\ Len(history') = Len(history) + 1
      /\ \A i \in 1 .. Len(history) : history'[i] = history[i]
      /\ history'[Len(history) + 1] = row
  BY <1>3, <1>5
<1> QED
  BY <1>1, <1>2, <1>4, <1>6

LEMMA RowsLegalStep ==
  TypeOK /\ Stamped /\ AcceptedIsLegal /\ EveryRowLegal /\ history # <<>> /\ [Next]_vars
    => EveryRowLegal'
<1> SUFFICES ASSUME TypeOK, Stamped, AcceptedIsLegal, EveryRowLegal, history # <<>>,
                    [Next]_vars
             PROVE  EveryRowLegal'
  OBVIOUS
<1>1. CASE UNCHANGED report
  BY <1>1 DEF report, EveryRowLegal
<1>2. ASSUME NEW w \in Workers, RecordTransition(w)
      PROVE  EveryRowLegal'
  <2> DEFINE n == Len(history)
             r == job[w].req
  <2>1. /\ r.reason \in ReasonsFor[r.target]
        /\ r.target \in CASE_TRANSITIONS[job[w].seen]
    BY <1>2 DEF AcceptedIsLegal, RecordTransition, LegalMove, WellFormed
  <2>2. DOMAIN history' = 1 .. n + 1 /\ DOMAIN history = 1 .. n /\ n > 0
    BY <1>2, Recorded DEF TypeOK
  <2>3. ASSUME NEW i \in 1 .. n
        PROVE  history'[i] = history[i] /\ i \in DOMAIN history
    BY <1>2, <2>2, Recorded
  <2>4. history'[n + 1].from = job[w].seen /\ history'[n + 1].to = r.target
        /\ history'[n + 1].reason = r.reason /\ n + 1 # 1
    BY <1>2, <2>2, Recorded
  <2>5. \A i \in 1 .. n + 1 : i \in 1 .. n \/ i = n + 1
    BY <2>2
  <2> HIDE DEF n, r
  <2> QED
    BY <2>1, <2>2, <2>3, <2>4, <2>5 DEF EveryRowLegal
<1> QED
  BY <1>1, <1>2, ReportUntouched

LEMMA TrailStep ==
  /\ TypeOK /\ Stamped /\ ReportFollowsTrail /\ (status \in Terminal => closedAt # 0)
  /\ [Next]_vars
  => ReportFollowsTrail' /\ (status' \in Terminal => closedAt' # 0)
<1> SUFFICES ASSUME TypeOK, Stamped, ReportFollowsTrail,
                    status \in Terminal => closedAt # 0, [Next]_vars
             PROVE  ReportFollowsTrail' /\ (status' \in Terminal => closedAt' # 0)
  OBVIOUS
<1>1. CASE UNCHANGED report
  BY <1>1 DEF report, ReportFollowsTrail
<1>2. ASSUME NEW w \in Workers, RecordTransition(w)
      PROVE  ReportFollowsTrail' /\ (status' \in Terminal => closedAt' # 0)
  <2> DEFINE n == Len(history)
             now == job[w].now
  <2>1. /\ n \in Nat /\ n > 0 /\ Len(history') = n + 1 /\ history' # <<>>
        /\ history'[n + 1].to = status' /\ history'[n + 1].at = now
        /\ now \in Nat /\ now > 0
        /\ \A i \in 1 .. n : history'[i] = history[i]
        /\ history[n].to = status
    <3>1. history \in Seq(HistoryRow) /\ history # <<>> /\ history[n].to = status
      BY DEF TypeOK, ReportFollowsTrail
    <3> QED
      BY <1>2, <3>1, Recorded
  <2>2. closedAt' = IF status' \notin Terminal THEN 0
                    ELSE IF closedAt # 0 THEN closedAt ELSE now
    BY <1>2 DEF RecordTransition, SyncReportStatus
  <2> HIDE DEF n, now
  <2>3. CASE status' \notin Terminal
    BY <2>1, <2>2, <2>3 DEF ReportFollowsTrail
  <2>4. CASE status' \in Terminal /\ status \notin Terminal
    <3>1. closedAt' = now
      BY <2>2, <2>4 DEF ReportFollowsTrail
    <3>2. /\ n + 1 \in 2 .. Len(history')
          /\ \A i \in n + 1 .. Len(history') : history'[i].to \in Terminal
          /\ history'[(n + 1) - 1].to \notin Terminal
          /\ closedAt' = history'[n + 1].at
      BY <2>1, <2>4, <3>1
    <3> QED
      BY <2>1, <2>4, <3>1, <3>2 DEF ReportFollowsTrail
  <2>5. CASE status' \in Terminal /\ status \in Terminal
    <3>1. closedAt' = closedAt /\ closedAt' # 0
      BY <2>2, <2>5
    <3>2. PICK k \in 2 .. n : /\ \A i \in k .. n : history[i].to \in Terminal
                             /\ history[k - 1].to \notin Terminal
                             /\ closedAt = history[k].at
      BY <2>5 DEF ReportFollowsTrail, n
    <3>3. /\ k \in 2 .. Len(history')
          /\ \A i \in k .. Len(history') : history'[i].to \in Terminal
          /\ history'[k - 1].to \notin Terminal
          /\ closedAt' = history'[k].at
      <4>1. \A i \in k .. n + 1 : i \in k .. n \/ i = n + 1
        BY <2>1
      <4> QED
        BY <2>1, <2>5, <3>1, <3>2, <4>1
    <3> QED
      BY <2>1, <2>5, <3>1, <3>3 DEF ReportFollowsTrail
  <2> QED
    BY <2>3, <2>4, <2>5
<1> QED
  BY <1>1, <1>2, ReportUntouched

LEMMA TrailInvariant == Spec => []TrailInv
<1>1. Init => TrailInv
  <2> SUFFICES ASSUME Init PROVE TrailInv
    OBVIOUS
  <2>1. TypeOK
    BY TypeInit
  <2>2. AcceptedIsLegal /\ Stamped
    BY DEF Init, AcceptedIsLegal, Stamped, At, idle
  <2>3. EveryRowLegal
    BY DEF Init, EveryRowLegal, ReasonsFor, Statuses, Open, Terminal
  <2>4. ReportFollowsTrail /\ status \notin Terminal
    BY DEF Init, ReportFollowsTrail, Terminal
  <2> QED
    BY <2>1, <2>2, <2>3, <2>4 DEF TrailInv
<1>2. TrailInv /\ [Next]_vars => TrailInv'
  BY TypeStep, StampStep, AcceptedStep, RowsLegalStep, TrailStep
  DEF TrailInv, ReportFollowsTrail
<1> QED
  BY <1>1, <1>2, PTL DEF Spec

\* Every row of the trail records a move of the graph and a fitting reason, in
\* every interleaving: what a racing request can break is the chain of rows,
\* never a row.
THEOREM RowsAlwaysLegal == Spec => []EveryRowLegal
BY TrailInvariant, PTL DEF TrailInv

\* The report row is always what the trigger's reading of the trail makes it.
THEOREM ReportIsItsTrail == Spec => []ReportFollowsTrail
BY TrailInvariant, PTL DEF TrailInv

-----------------------------------------------------------------------------
(* The access log.  A request is stamped once, when it is authorised, and   *)
(* carries its stamp until it ends; what keeps a refusal and a write apart  *)
(* is that no two requests ever carry one stamp, and none a logged one.     *)

Carries(w) == job[w].pc \in {"authorised", "checked", "ready"}

StampsApart ==
  /\ \A a \in audit : a.at <= clock
  /\ \A w \in Workers :
       Carries(w) => job[w].now <= clock /\ \A a \in audit : a.at # job[w].now
  /\ \A v, w \in Workers : v # w /\ Carries(v) /\ Carries(w) => job[v].now # job[w].now

Success(a, kind) == a.action = kind /\ a.outcome = "success"

LogFollowsRows ==
  /\ \A a \in audit :
       /\ Success(a, "status") => \E i \in 2 .. Len(history) : history[i].at = a.at
       /\ Success(a, "assign") => \E i \in 1 .. Len(assignments) : assignments[i].at = a.at
  /\ \A i \in 2 .. Len(history) :
       \E a \in audit : Success(a, "status") /\ a.at = history[i].at
  /\ \A i \in 1 .. Len(assignments) :
       \E a \in audit : Success(a, "assign") /\ a.at = assignments[i].at
  /\ \A a, b \in audit : a.outcome = "denied" /\ b.outcome = "success" => a.at # b.at

\* A release keeps the time of every row.
LEMMA ReleasedAt ==
  ASSUME TypeOK, NEW i \in 0 .. Len(assignments), NEW k \in 1 .. Len(assignments)
  PROVE  Release(i)[k].at = assignments[k].at
<1>1. assignments[k] \in AssignmentRow
  BY DEF TypeOK
<1>2. Released(assignments[k]).at = assignments[k].at
  BY <1>1 DEF AssignmentRow, Released
<1> QED
  BY <1>2, ReleaseType DEF TypeOK

\* The row a claim adds, and the times of those it finds.
LEMMA Claimed ==
  ASSUME TypeOK, NEW w \in Workers, RecordAssignment(w)
  PROVE  /\ Len(assignments') = Len(assignments) + 1
         /\ \A k \in 1 .. Len(assignments) : assignments'[k].at = assignments[k].at
         /\ assignments'[Len(assignments) + 1].at = job[w].now
<1> DEFINE row == [to |-> job[w].req.assignee, role |-> Role[job[w].req.assignee],
                   active |-> TRUE, at |-> job[w].now]
<1>1. job[w].found \in 0 .. Len(assignments) /\ Len(assignments) \in Nat
  BY Busy, JobFields DEF RecordAssignment, At, Stages, TypeOK
<1>2. /\ Release(job[w].found) \in Seq(AssignmentRow)
      /\ Len(Release(job[w].found)) = Len(assignments)
  BY <1>1, ReleaseType DEF TypeOK
<1>3. assignments' = Append(Release(job[w].found), row) /\ row.at = job[w].now
  BY DEF RecordAssignment
<1> HIDE DEF row
<1> QED
  BY <1>1, <1>2, <1>3, ReleasedAt

\* A worker that carries a stamp carried it before, or has just been given it.
LEMMA StampOf ==
  ASSUME TypeOK, [Next]_vars, NEW v \in Workers, Carries(v)'
  PROVE  \/ Carries(v) /\ job'[v].now = job[v].now
         \/ Authorise(v) /\ job'[v].now = clock + 1
<1>1. job'[v] # idle
  BY DEF Carries, idle
<1>2. ASSUME NEW r \in Requests, Receive(v, r)
      PROVE  FALSE
  BY <1>2 DEF Receive, TypeOK, Carries
<1>3. CASE job'[v] = job[v]
  BY <1>3 DEF Carries
<1>4. CASE /\ AcceptTransition(v) \/ CheckAssignee(v) \/ FindOwner(v)
           /\ job'[v].now = job[v].now
  BY <1>4 DEF Carries, AcceptTransition, CheckAssignee, FindOwner, At
<1> QED
  BY <1>1, <1>2, <1>3, <1>4, WorkerStep

\* The steps that end a request with a row of the access log.
Ends(w, row) ==
  /\ job' = [job EXCEPT ![w] = idle]
  /\ audit' = audit \cup {row}
  /\ row \in AuditRow
  /\ \/ Carries(w) /\ row.at = job[w].now /\ clock' = clock
     \/ row.at = clock + 1 /\ clock' = clock + 1

Refusal(w) == RefuseCaller(w) \/ RefuseTransition(w) \/ RefuseClosed(w) \/ RefuseOwner(w)
Write(w) == RecordTransition(w) \/ RecordAssignment(w) \/ RecordRelease(w)

LEMMA RefusalEnds ==
  ASSUME TypeOK, NEW w \in Workers, Refusal(w)
  PROVE  /\ \E row \in AuditRow : Ends(w, row) /\ row.outcome = "denied"
         /\ UNCHANGED rows
<1>1. job[w] # idle
  BY Busy DEF Refusal, RefuseCaller, RefuseTransition, RefuseClosed, RefuseOwner, At, Stages
<1>2. /\ job[w].now \in Nat /\ job[w].req.kind \in {"status", "assign", "unassign"}
      /\ clock + 1 \in Nat
  BY <1>1, JobFields DEF Jobs, TypeOK
<1>3. CASE RefuseCaller(w)
  <2> DEFINE row == [action |-> job[w].req.kind, at |-> clock + 1, outcome |-> "denied"]
  <2>1. row \in AuditRow /\ row.outcome = "denied" /\ row.at = clock + 1
    BY <1>2 DEF AuditRow
  <2>2. /\ audit' = audit \cup {row} /\ clock' = clock + 1 /\ UNCHANGED rows
        /\ job' = [job EXCEPT ![w] = idle]
    BY <1>3 DEF RefuseCaller, Finish
  <2> HIDE DEF row
  <2> QED
    BY <2>1, <2>2 DEF Ends
<1>4. CASE RefuseTransition(w) \/ RefuseClosed(w) \/ RefuseOwner(w)
  <2> DEFINE row == [action |-> job[w].req.kind, at |-> job[w].now, outcome |-> "denied"]
  <2>1. row \in AuditRow /\ row.outcome = "denied" /\ row.at = job[w].now
    BY <1>2 DEF AuditRow
  <2>2. Denied(w) /\ Carries(w)
    BY <1>4 DEF RefuseTransition, RefuseClosed, RefuseOwner, At, Carries
  <2>3. /\ audit' = audit \cup {row} /\ clock' = clock /\ UNCHANGED rows
        /\ job' = [job EXCEPT ![w] = idle]
    BY <2>2 DEF Denied, AuditRecord, Finish
  <2> HIDE DEF row
  <2> QED
    BY <2>1, <2>2, <2>3 DEF Ends
<1> QED
  BY <1>3, <1>4 DEF Refusal

LEMMA WriteEnds ==
  ASSUME TypeOK, NEW w \in Workers, Write(w)
  PROVE  \E row \in AuditRow :
           /\ Ends(w, row) /\ Carries(w) /\ row.outcome = "success"
           /\ row.at = job[w].now /\ row.action = job[w].req.kind
<1> DEFINE row == [action |-> job[w].req.kind, at |-> job[w].now, outcome |-> "success"]
<1>1. job[w] # idle /\ Carries(w)
  BY Busy DEF Write, RecordTransition, RecordAssignment, RecordRelease, At, Stages, Carries
<1>2. /\ job[w].now \in Nat /\ job[w].req.kind \in {"status", "assign", "unassign"}
  BY <1>1, JobFields DEF Jobs
<1>3. /\ row \in AuditRow /\ row.outcome = "success" /\ row.at = job[w].now
      /\ row.action = job[w].req.kind
  BY <1>2 DEF AuditRow
<1>4. /\ audit' = audit \cup {row} /\ clock' = clock
      /\ job' = [job EXCEPT ![w] = idle]
  BY DEF Write, RecordTransition, RecordAssignment, RecordRelease, AuditRecord, Commit
<1> HIDE DEF row
<1> QED
  BY <1>1, <1>3, <1>4 DEF Ends

\* Every other step leaves rows and log alone.
LEMMA QuietSteps ==
  ASSUME TypeOK, [Next]_vars
  PROVE  \/ /\ UNCHANGED <<rows, audit>>
            /\ clock' = clock \/ (clock' = clock + 1 /\ \E w \in Workers : Authorise(w))
         \/ \E w \in Workers : Refusal(w) \/ Write(w)
<1>1. CASE UNCHANGED vars
  BY <1>1 DEF vars, rows, report
<1>2. ASSUME NEW w \in Workers, \/ \E r \in Requests : Receive(w, r)
                                \/ AcceptTransition(w) \/ RejectTransition(w)
                                \/ CheckAssignee(w) \/ RejectAssignee(w) \/ FindOwner(w)
                                \/ ConflictingAssignment(w) \/ Crash(w)
      PROVE  UNCHANGED <<rows, audit, clock>>
  BY <1>2 DEF Receive, AcceptTransition, RejectTransition, CheckAssignee, RejectAssignee,
              FindOwner, ConflictingAssignment, Crash, Dropped
<1>3. ASSUME NEW w \in Workers, Authorise(w)
      PROVE  UNCHANGED <<rows, audit>> /\ clock' = clock + 1
  BY <1>3 DEF Authorise
<1>4. ASSUME NEW u \in Users, Deactivate(u)
      PROVE  UNCHANGED <<rows, audit, clock>>
  BY <1>4 DEF Deactivate
<1> QED
  BY <1>1, <1>2, <1>3, <1>4 DEF Next, Refusal, Write

LEMMA ApartStep == TypeOK /\ StampsApart /\ [Next]_vars => StampsApart'
<1> SUFFICES ASSUME TypeOK, StampsApart, [Next]_vars
             PROVE  StampsApart'
  OBVIOUS
<1>0. /\ clock \in Nat /\ \A a \in audit : a.at \in Nat
      /\ \A w \in Workers : Carries(w) => job[w].now \in Nat
  <2>1. ASSUME NEW w \in Workers, Carries(w)
        PROVE  job[w].now \in Nat
    BY <2>1, Busy, JobFields DEF Carries, Stages, Jobs
  <2> QED
    BY <2>1 DEF TypeOK, AuditRow
<1>1. CASE UNCHANGED audit /\ clock' = clock
  <2>1. ASSUME NEW v \in Workers, Carries(v)'
        PROVE  Carries(v) /\ job'[v].now = job[v].now
    <3>1. ~ Authorise(v)
      BY <1>0, <1>1 DEF Authorise
    <3> QED
      BY <2>1, <3>1, StampOf
  <2> QED
    BY <1>1, <2>1 DEF StampsApart
<1>2. ASSUME NEW u \in Workers, Authorise(u), UNCHANGED audit, clock' = clock + 1
      PROVE  StampsApart'
  <2>1. ASSUME NEW v \in Workers, v # u
        PROVE  job'[v] = job[v]
    BY <1>2, <2>1 DEF Authorise, TypeOK
  <2>2. job'[u].now = clock + 1
    <3>1. job[u] \in Jobs
      BY <1>2, Busy, JobFields DEF Authorise, Stages
    <3>2. job'[u] = [job[u] EXCEPT !.pc = "authorised", !.now = clock + 1]
      BY <1>2 DEF Authorise, TypeOK
    <3> QED
      BY <3>1, <3>2 DEF Jobs
  <2>3. ASSUME NEW v \in Workers, Carries(v)', v # u
        PROVE  Carries(v) /\ job'[v].now = job[v].now
    BY <2>1, <2>3 DEF Carries
  <2>4. \A a \in audit' : a.at <= clock'
    BY <1>0, <1>2 DEF StampsApart
  <2>5. ASSUME NEW v \in Workers, Carries(v)'
        PROVE  job'[v].now <= clock' /\ \A a \in audit' : a.at # job'[v].now
    BY <1>0, <1>2, <2>2, <2>3, <2>5 DEF StampsApart
  <2>6. ASSUME NEW v \in Workers, NEW w \in Workers, v # w, Carries(v)', Carries(w)'
        PROVE  job'[v].now # job'[w].now
    BY <1>0, <2>2, <2>3, <2>6 DEF StampsApart
  <2> QED
    BY <2>4, <2>5, <2>6 DEF StampsApart
<1>3. ASSUME NEW w \in Workers, NEW row \in AuditRow, Ends(w, row)
      PROVE  StampsApart'
  <2>1. ASSUME NEW v \in Workers, Carries(v)'
        PROVE  v # w /\ Carries(v) /\ job'[v] = job[v]
    <3>1. job'[w] = idle
      BY <1>3 DEF Ends, TypeOK
    <3>2. v # w
      BY <2>1, <3>1 DEF Carries, idle
    <3> QED
      BY <1>3, <2>1, <3>2 DEF Ends, TypeOK, Carries
  <2>2. /\ audit' = audit \cup {row} /\ row.at \in Nat
        /\ \/ Carries(w) /\ row.at = job[w].now /\ clock' = clock
           \/ row.at = clock + 1 /\ clock' = clock + 1
    BY <1>3 DEF Ends, AuditRow
  <2>3. \A a \in audit' : a.at <= clock'
    BY <1>0, <2>2 DEF StampsApart
  <2>4. ASSUME NEW v \in Workers, Carries(v)'
        PROVE  job'[v].now <= clock' /\ \A a \in audit' : a.at # job'[v].now
    BY <1>0, <2>1, <2>2, <2>4 DEF StampsApart
  <2>5. ASSUME NEW v \in Workers, NEW u \in Workers, v # u, Carries(v)', Carries(u)'
        PROVE  job'[v].now # job'[u].now
    BY <2>1, <2>5 DEF StampsApart
  <2> QED
    BY <2>3, <2>4, <2>5 DEF StampsApart
<1> QED
  BY <1>1, <1>2, <1>3, QuietSteps, RefusalEnds, WriteEnds

\* A status row is logged with it, and so is a claim; a release changes neither
\* who was assigned nor when.
LEMMA LogStep ==
  TypeOK /\ Stamped /\ history # <<>> /\ StampsApart /\ LogFollowsRows /\ [Next]_vars
    => LogFollowsRows'
<1> SUFFICES ASSUME TypeOK, Stamped, history # <<>>, StampsApart, LogFollowsRows,
                    [Next]_vars
             PROVE  LogFollowsRows'
  OBVIOUS
<1>0. /\ Len(history) \in Nat /\ Len(assignments) \in Nat
      /\ \A a \in audit : a.at \in Nat /\ a.at <= clock
      /\ clock \in Nat
  BY DEF TypeOK, AuditRow, StampsApart
<1>1. CASE UNCHANGED <<rows, audit>>
  BY <1>1 DEF LogFollowsRows, rows, report
\* What a new row of the log, at a time that no row of the log carries, adds.
<1>2. ASSUME NEW w \in Workers, NEW row \in AuditRow, Ends(w, row)
      PROVE  audit' = audit \cup {row} /\ \A a \in audit : a.at # row.at
  BY <1>0, <1>2 DEF Ends, StampsApart
<1>3. ASSUME NEW w \in Workers, Refusal(w)
      PROVE  LogFollowsRows'
  <2>1. PICK row \in AuditRow : Ends(w, row) /\ row.outcome = "denied"
    BY <1>3, RefusalEnds
  <2>2. UNCHANGED rows
    BY <1>3, RefusalEnds
  <2> QED
    BY <1>2, <2>1, <2>2 DEF LogFollowsRows, rows, report, Success
<1>4. ASSUME NEW w \in Workers, RecordTransition(w)
      PROVE  LogFollowsRows'
  <2>1. PICK row \in AuditRow : /\ Ends(w, row) /\ row.outcome = "success"
                               /\ row.at = job[w].now /\ row.action = job[w].req.kind
    BY <1>4, WriteEnds DEF Write
  <2>2. row.action = "status"
    BY <1>4, <2>1 DEF RecordTransition, At
  <2>3. /\ Len(history') = Len(history) + 1
        /\ \A i \in 1 .. Len(history) : history'[i] = history[i]
        /\ history'[Len(history) + 1].at = row.at
    BY <1>4, <2>1, Recorded
  <2>4. assignments' = assignments
    BY <1>4 DEF RecordTransition
  <2>5. Len(history) >= 1
    BY DEF TypeOK
  <2>6. audit' = audit \cup {row} /\ \A a \in audit : a.at # row.at
    BY <1>2, <2>1
  <2>7. ASSUME NEW a \in audit'
        PROVE  /\ Success(a, "status") => \E i \in 2 .. Len(history') : history'[i].at = a.at
               /\ Success(a, "assign") =>
                    \E i \in 1 .. Len(assignments') : assignments'[i].at = a.at
    <3>1. CASE a \in audit
      <4>1. ASSUME NEW i \in 2 .. Len(history)
            PROVE  i \in 2 .. Len(history') /\ history'[i].at = history[i].at
        BY <1>0, <2>3
      <4> QED
        BY <2>4, <3>1, <4>1 DEF LogFollowsRows
    <3>2. CASE a = row
      <4>1. Len(history) + 1 \in 2 .. Len(history')
        BY <1>0, <2>3, <2>5
      <4> QED
        BY <2>2, <2>3, <3>2, <4>1 DEF Success
    <3> QED
      BY <2>6, <3>1, <3>2
  <2>8. ASSUME NEW i \in 2 .. Len(history')
        PROVE  \E a \in audit' : Success(a, "status") /\ a.at = history'[i].at
    <3>1. CASE i \in 2 .. Len(history)
      <4>1. PICK a \in audit : Success(a, "status") /\ a.at = history[i].at
        BY <3>1 DEF LogFollowsRows
      <4> QED
        BY <2>3, <2>6, <3>1, <4>1
    <3>2. CASE i = Len(history) + 1
      BY <2>1, <2>2, <2>3, <2>6, <3>2 DEF Success
    <3> QED
      BY <1>0, <2>3, <3>1, <3>2
  <2>9. \A i \in 1 .. Len(assignments') :
          \E a \in audit' : Success(a, "assign") /\ a.at = assignments'[i].at
    BY <2>4, <2>6 DEF LogFollowsRows
  <2>10. \A a, b \in audit' : a.outcome = "denied" /\ b.outcome = "success" => a.at # b.at
    BY <2>1, <2>6 DEF LogFollowsRows
  <2> QED
    BY <2>7, <2>8, <2>9, <2>10 DEF LogFollowsRows
<1>5. ASSUME NEW w \in Workers, RecordAssignment(w)
      PROVE  LogFollowsRows'
  <2>1. PICK row \in AuditRow : /\ Ends(w, row) /\ row.outcome = "success"
                               /\ row.at = job[w].now /\ row.action = job[w].req.kind
    BY <1>5, WriteEnds DEF Write
  <2>2. row.action = "assign"
    BY <1>5, <2>1 DEF RecordAssignment, At
  <2>3. /\ Len(assignments') = Len(assignments) + 1
        /\ \A i \in 1 .. Len(assignments) : assignments'[i].at = assignments[i].at
        /\ assignments'[Len(assignments) + 1].at = row.at
    BY <1>5, <2>1, Claimed
  <2>4. history' = history
    BY <1>5 DEF RecordAssignment, report
  <2>6. audit' = audit \cup {row} /\ \A a \in audit : a.at # row.at
    BY <1>2, <2>1
  <2>7. ASSUME NEW a \in audit'
        PROVE  /\ Success(a, "status") => \E i \in 2 .. Len(history') : history'[i].at = a.at
               /\ Success(a, "assign") =>
                    \E i \in 1 .. Len(assignments') : assignments'[i].at = a.at
    <3>1. CASE a \in audit
      <4>1. ASSUME NEW i \in 1 .. Len(assignments)
            PROVE  i \in 1 .. Len(assignments') /\ assignments'[i].at = assignments[i].at
        BY <1>0, <2>3
      <4> QED
        BY <2>4, <3>1, <4>1 DEF LogFollowsRows
    <3>2. CASE a = row
      <4>1. Len(assignments) + 1 \in 1 .. Len(assignments')
        BY <1>0, <2>3
      <4> QED
        BY <2>2, <2>3, <3>2, <4>1 DEF Success
    <3> QED
      BY <2>6, <3>1, <3>2
  <2>8. \A i \in 2 .. Len(history') :
          \E a \in audit' : Success(a, "status") /\ a.at = history'[i].at
    BY <2>4, <2>6 DEF LogFollowsRows
  <2>9. ASSUME NEW i \in 1 .. Len(assignments')
        PROVE  \E a \in audit' : Success(a, "assign") /\ a.at = assignments'[i].at
    <3>1. CASE i \in 1 .. Len(assignments)
      <4>1. PICK a \in audit : Success(a, "assign") /\ a.at = assignments[i].at
        BY <3>1 DEF LogFollowsRows
      <4> QED
        BY <2>3, <2>6, <3>1, <4>1
    <3>2. CASE i = Len(assignments) + 1
      BY <2>1, <2>2, <2>3, <2>6, <3>2 DEF Success
    <3> QED
      BY <1>0, <2>3, <3>1, <3>2
  <2>10. \A a, b \in audit' : a.outcome = "denied" /\ b.outcome = "success" => a.at # b.at
    BY <2>1, <2>6 DEF LogFollowsRows
  <2> QED
    BY <2>7, <2>8, <2>9, <2>10 DEF LogFollowsRows
<1>6. ASSUME NEW w \in Workers, RecordRelease(w)
      PROVE  LogFollowsRows'
  <2>1. PICK row \in AuditRow : /\ Ends(w, row) /\ row.outcome = "success"
                               /\ row.at = job[w].now /\ row.action = job[w].req.kind
    BY <1>6, WriteEnds DEF Write
  <2>2. row.action = "unassign"
    BY <1>6, <2>1 DEF RecordRelease, At
  <2>3. job[w].found \in 0 .. Len(assignments) /\ assignments' = Release(job[w].found)
    BY <1>6, Busy, JobFields DEF RecordRelease, At, Stages
  <2>4. /\ Len(assignments') = Len(assignments)
        /\ \A i \in 1 .. Len(assignments) : assignments'[i].at = assignments[i].at
    BY <2>3, ReleaseType, ReleasedAt DEF TypeOK
  <2>5. history' = history
    BY <1>6 DEF RecordRelease, report
  <2>6. audit' = audit \cup {row} /\ \A a \in audit : a.at # row.at
    BY <1>2, <2>1
  <2>7. ASSUME NEW a \in audit'
        PROVE  /\ Success(a, "status") => \E i \in 2 .. Len(history) : history[i].at = a.at
               /\ Success(a, "assign") =>
                    \E i \in 1 .. Len(assignments) : assignments[i].at = a.at
    <3>1. CASE a \in audit
      BY <3>1 DEF LogFollowsRows
    <3>2. CASE a = row
      BY <2>2, <3>2 DEF Success
    <3> QED
      BY <2>6, <3>1, <3>2
  <2>8. ASSUME NEW a \in audit'
        PROVE  Success(a, "assign") => \E i \in 1 .. Len(assignments') : assignments'[i].at = a.at
    BY <2>4, <2>7
  <2>9. \A i \in 2 .. Len(history) :
          \E a \in audit' : Success(a, "status") /\ a.at = history[i].at
    BY <2>6 DEF LogFollowsRows
  <2>10. ASSUME NEW i \in 1 .. Len(assignments')
         PROVE  \E a \in audit' : Success(a, "assign") /\ a.at = assignments'[i].at
    <3>1. PICK a \in audit : Success(a, "assign") /\ a.at = assignments[i].at
      BY <2>4 DEF LogFollowsRows
    <3> QED
      BY <2>4, <2>6, <3>1
  <2>11. \A a, b \in audit' : a.outcome = "denied" /\ b.outcome = "success" => a.at # b.at
    BY <2>1, <2>6 DEF LogFollowsRows
  <2> QED
    BY <2>5, <2>7, <2>8, <2>9, <2>10, <2>11 DEF LogFollowsRows
<1> QED
  BY <1>1, <1>3, <1>4, <1>5, <1>6, QuietSteps DEF Write

\* Which rows of the trail the reporter's notifications tell of.
Told ==
  /\ \A n \in inbox : n.about # "assignment" =>
       /\ Reporter # NoUser
       /\ \E i \in 2 .. Len(history) :
            history[i].visible /\ history[i].to = n.about /\ history[i].at = n.at
  /\ Reporter # NoUser =>
       \A i \in 2 .. Len(history) :
         history[i].visible =>
           \E n \in inbox : n.about = history[i].to /\ n.at = history[i].at

\* A claim notifies its assignee of an assignment, and only a transition its
\* reporter of anything else.
LEMMA InboxUntouched ==
  ASSUME [Next]_vars, UNCHANGED report
  PROVE  \/ inbox' = inbox
         \/ \E w \in Workers : RecordTransition(w)
         \/ \E n : n.about = "assignment" /\ inbox' = inbox \cup {n}
<1>1. ASSUME NEW w \in Workers, RecordAssignment(w)
      PROVE  \/ inbox' = inbox
             \/ \E n : n.about = "assignment" /\ inbox' = inbox \cup {n}
  <2> DEFINE n == [to |-> job[w].req.assignee, about |-> "assignment", at |-> job[w].now]
  <2>1. n.about = "assignment"
    OBVIOUS
  <2>2. inbox' = inbox \/ inbox' = inbox \cup {n}
    BY <1>1 DEF RecordAssignment
  <2> HIDE DEF n
  <2> QED
    BY <2>1, <2>2
<1> QED
  BY <1>1 DEF Next, vars, rows, report, Receive, Authorise, RefuseCaller, AcceptTransition,
              RefuseTransition, RejectTransition, CheckAssignee, RefuseClosed,
              RejectAssignee, FindOwner, RefuseOwner, ConflictingAssignment,
              RecordRelease, Crash, Deactivate, Denied, Dropped

LEMMA RecordedVisible ==
  ASSUME TypeOK, NEW w \in Workers, RecordTransition(w)
  PROVE  history'[Len(history) + 1].visible = job[w].req.visible
<1> DEFINE row == [from |-> job[w].seen, to |-> job[w].req.target, by |-> job[w].req.user,
                   at |-> job[w].now, reason |-> job[w].req.reason,
                   visible |-> job[w].req.visible]
<1>1. row.visible = job[w].req.visible
  OBVIOUS
<1>2. history' = Append(history, row) /\ history \in Seq(HistoryRow)
  BY DEF RecordTransition, TypeOK
<1> HIDE DEF row
<1> QED
  BY <1>1, <1>2

LEMMA ToldStep == TypeOK /\ Stamped /\ history # <<>> /\ Told /\ [Next]_vars => Told'
<1> SUFFICES ASSUME TypeOK, Stamped, history # <<>>, Told, [Next]_vars
             PROVE  Told'
  OBVIOUS
<1>1. ASSUME NEW w \in Workers, RecordTransition(w)
      PROVE  Told'
  <2> DEFINE r == job[w].req
             n == [to |-> Reporter, about |-> r.target, at |-> job[w].now]
  <2>1. /\ Len(history) \in Nat /\ Len(history) >= 1
        /\ Len(history') = Len(history) + 1
        /\ \A i \in 1 .. Len(history) : history'[i] = history[i]
        /\ history'[Len(history) + 1].to = n.about
        /\ history'[Len(history) + 1].at = n.at
    BY <1>1, Recorded DEF TypeOK
  <2>2. history'[Len(history) + 1].visible = r.visible
    BY <1>1, RecordedVisible
  <2>3. inbox' = IF r.visible /\ Reporter # NoUser THEN inbox \cup {n} ELSE inbox
    BY <1>1 DEF RecordTransition, NotifyReporter
  <2> HIDE DEF n, r
  <2> QED
    BY <2>1, <2>2, <2>3 DEF Told
<1>2. CASE UNCHANGED report /\ inbox' = inbox
  BY <1>2 DEF Told, report
<1>3. CASE UNCHANGED report /\ \E n : n.about = "assignment" /\ inbox' = inbox \cup {n}
  BY <1>3 DEF Told, report
<1> QED
  BY <1>1, <1>2, <1>3, InboxUntouched, ReportUntouched

LogInv == StampsApart /\ LogFollowsRows /\ Told

LEMMA LogInvariant == Spec => []LogInv
<1>1. Init => LogInv
  BY DEF Init, LogInv, StampsApart, LogFollowsRows, Told, Carries, idle
<1>2. TrailInv /\ LogInv /\ [Next]_vars => LogInv'
  BY ApartStep, LogStep, ToldStep DEF LogInv, TrailInv, ReportFollowsTrail
<1> QED
  BY <1>1, <1>2, TrailInvariant, PTL DEF Spec

\* However requests interleave, die or are refused, the access log has its row for
\* every status row and every claim and for no other, and nothing is logged both as
\* done and as refused (CaseService._audited).
THEOREM EveryWriteIsAudited == Spec => []WritesAreAudited
<1>1. TypeOK /\ LogInv => WritesAreAudited
  <2> SUFFICES ASSUME TypeOK, LogFollowsRows
               PROVE  WritesAreAudited
    BY DEF LogInv
  <2> DEFINE done(kind) ==
               {a.at : a \in {x \in audit : x.action = kind /\ x.outcome = "success"}}
             refused == {a.at : a \in {x \in audit : x.outcome = "denied"}}
  <2>1. DOMAIN assignments = 1 .. Len(assignments)
    BY DEF TypeOK
  <2>2. done("status") = {history[i].at : i \in 2 .. Len(history)}
    BY DEF LogFollowsRows, Success
  <2>3. done("assign") = {assignments[i].at : i \in DOMAIN assignments}
    <3>1. done("assign") \subseteq {assignments[i].at : i \in DOMAIN assignments}
      <4>1. ASSUME NEW a \in audit, Success(a, "assign")
            PROVE  a.at \in {assignments[i].at : i \in DOMAIN assignments}
        <5>1. PICK i \in 1 .. Len(assignments) : assignments[i].at = a.at
          BY <4>1 DEF LogFollowsRows
        <5> QED
          BY <2>1, <5>1
      <4>2. ASSUME NEW t \in done("assign")
            PROVE  \E a \in audit : Success(a, "assign") /\ t = a.at
        BY <4>2 DEF Success
      <4> QED
        BY <4>1, <4>2
    <3>2. {assignments[i].at : i \in DOMAIN assignments} \subseteq done("assign")
      <4>1. ASSUME NEW i \in DOMAIN assignments
            PROVE  assignments[i].at \in done("assign")
        <5>1. PICK a \in audit : Success(a, "assign") /\ a.at = assignments[i].at
          BY <2>1, <4>1 DEF LogFollowsRows
        <5> QED
          BY <5>1 DEF Success
      <4> QED
        BY <4>1
    <3> QED
      BY <3>1, <3>2
  <2>4. refused \cap {a.at : a \in {x \in audit : x.outcome = "success"}} = {}
    BY DEF LogFollowsRows
  <2> QED
    BY <2>2, <2>3, <2>4 DEF WritesAreAudited
<1> QED
  BY <1>1, TypeCorrect, LogInvariant, PTL

\* The reporter of a case that names one has a notification of every row marked
\* visible and of no other; nobody has one of an anonymous case
\* (NotificationService.status_changed).
THEOREM ReporterIsToldWhatIsVisible == Spec => []ReporterToldWhatIsVisible
<1>1. TypeOK /\ LogInv => ReporterToldWhatIsVisible
  <2> SUFFICES ASSUME TypeOK, Told
               PROVE  ReporterToldWhatIsVisible
    BY DEF LogInv
  <2> DEFINE told == {[about |-> n.about, at |-> n.at] :
                        n \in {m \in inbox : m.about # "assignment"}}
             seen == {[about |-> history[i].to, at |-> history[i].at] :
                        i \in {k \in 2 .. Len(history) : history[k].visible}}
  <2>1. \A i \in 2 .. Len(history) : history[i].to # "assignment"
    <3>1. \A i \in 2 .. Len(history) : history[i] \in HistoryRow
      BY DEF TypeOK
    <3> QED
      BY <3>1 DEF HistoryRow, Statuses, Open, Terminal
  <2>2. CASE Reporter = NoUser
    BY <2>2 DEF Told, ReporterToldWhatIsVisible
  <2>3. CASE Reporter # NoUser
    <3>1. told \subseteq seen
      BY DEF Told
    <3>2. seen \subseteq told
      BY <2>1, <2>3 DEF Told
    <3> QED
      BY <2>3, <3>1, <3>2 DEF ReporterToldWhatIsVisible
  <2> QED
    BY <2>2, <2>3
<1> QED
  BY <1>1, TypeCorrect, LogInvariant, PTL

-----------------------------------------------------------------------------
(* What no step may do                                                     *)

Grows ==
  /\ Len(history') >= Len(history) /\ Len(assignments') >= Len(assignments)
  /\ \A i \in DOMAIN history : history'[i] = history[i]
  /\ \A i \in DOMAIN assignments :
       /\ assignments'[i].to = assignments[i].to
       /\ assignments'[i].active => assignments[i].active

\* A row kept or released has its owner still, and is active only if it was.
LEMMA KeptOrReleased ==
  ASSUME TypeOK, NEW i \in 0 .. Len(assignments), NEW k \in 1 .. Len(assignments)
  PROVE  /\ Release(i)[k].to = assignments[k].to
         /\ Release(i)[k].active => assignments[k].active
<1>1. assignments[k] \in AssignmentRow
  BY DEF TypeOK
<1> QED
  BY <1>1, ReleaseType, ReleasedRow DEF TypeOK

LEMMA GrowsStep ==
  ASSUME TypeOK, Stamped, [Next]_vars
  PROVE  Grows
<1>0. /\ DOMAIN history = 1 .. Len(history) /\ Len(history) \in Nat
      /\ DOMAIN assignments = 1 .. Len(assignments) /\ Len(assignments) \in Nat
  BY DEF TypeOK
<1>1. /\ Len(history') >= Len(history)
      /\ \A i \in DOMAIN history : history'[i] = history[i]
  <2>1. CASE UNCHANGED report
    BY <1>0, <2>1 DEF report
  <2>2. ASSUME NEW w \in Workers, RecordTransition(w)
        PROVE  /\ Len(history') >= Len(history)
               /\ \A i \in DOMAIN history : history'[i] = history[i]
    BY <1>0, <2>2, Recorded
  <2> QED
    BY <2>1, <2>2, ReportUntouched
<1>2. ASSUME NEW w \in Workers, RecordAssignment(w)
      PROVE  Grows
  <2> DEFINE row == [to |-> job[w].req.assignee, role |-> Role[job[w].req.assignee],
                     active |-> TRUE, at |-> job[w].now]
  <2>1. job[w].found \in 0 .. Len(assignments)
    BY <1>2, Busy, JobFields DEF RecordAssignment, At, Stages
  <2>2. /\ Release(job[w].found) \in Seq(AssignmentRow)
        /\ Len(Release(job[w].found)) = Len(assignments)
    BY <2>1, ReleaseType DEF TypeOK
  <2>3. assignments' = Append(Release(job[w].found), row)
    BY <1>2 DEF RecordAssignment
  <2> HIDE DEF row
  <2>4. /\ Len(assignments') >= Len(assignments)
        /\ \A k \in 1 .. Len(assignments) : assignments'[k] = Release(job[w].found)[k]
    BY <1>0, <2>2, <2>3
  <2> QED
    BY <1>0, <1>1, <2>1, <2>4, KeptOrReleased DEF Grows
<1>3. ASSUME NEW w \in Workers, RecordRelease(w)
      PROVE  Grows
  <2>1. job[w].found \in 0 .. Len(assignments) /\ assignments' = Release(job[w].found)
    BY <1>3, Busy, JobFields DEF RecordRelease, At, Stages
  <2>2. Len(assignments') = Len(assignments)
    BY <2>1, ReleaseType DEF TypeOK
  <2> QED
    BY <1>0, <1>1, <2>1, <2>2, KeptOrReleased DEF Grows
<1>4. CASE assignments' = assignments
  BY <1>0, <1>1, <1>4 DEF Grows
<1> QED
  BY <1>2, <1>3, <1>4, RowsUntouched

\* No step, of any handler or of the environment, rewrites or drops a row of
\* the trail, hands an ownership row to someone else or revives a released one.
THEOREM NothingIsRewritten == Spec => TrailOnlyGrows
<1>1. TrailInv /\ [Next]_vars => [Grows]_vars
  BY GrowsStep DEF TrailInv
<1>2. Spec => [][Grows]_vars
  BY <1>1, TrailInvariant, PTL DEF Spec
<1>3. TrailOnlyGrows <=> [][Grows]_vars
  BY PTL DEF TrailOnlyGrows, Grows
<1> QED
  BY <1>2, <1>3, PTL

-----------------------------------------------------------------------------
(* The contract.  A request acts on what it read.  While nobody else's write *)
(* is committed that is still so; afterwards it was so once.                 *)

Had == {history[i].to : i \in DOMAIN history}

\* What a request in flight knows, whoever writes in between.
WasSo(w) ==
  /\ job[w] # idle => job[w].seen \in Had
  /\ At(w, "ready", "status") /\ job[w].req.target \in REQUIRES_ACTIVE_ASSIGNMENT
       => assignments # <<>>
  /\ At(w, "ready", "assign") /\ job[w].found # 0
       => assignments[job[w].found].to # job[w].req.assignee

\* What it knows besides, until it is overtaken.
StillSo(w) ==
  /\ job[w] # idle => job[w].seen = status
  /\ At(w, "ready", "status") => OwnedIfRequired(job[w].req)
  /\ At(w, "checked", "assign") => status \notin Terminal
  /\ At(w, "ready", "assign") => status \notin Terminal
  /\ At(w, "ready", "unassign") => job[w].found \in ActiveRows

Informed == \A w \in Workers : WasSo(w) /\ (w \notin overtaken => StillSo(w))

ContractInv == TrailInv /\ OneOwner /\ Informed

\* A request that is in flight and not overtaken after a step was not before
\* it, and the step wrote nothing.
LEMMA Undisturbed ==
  ASSUME TypeOK, [Next]_vars, NEW v \in Workers, job'[v] # idle, v \notin overtaken'
  PROVE  v \notin overtaken /\ UNCHANGED <<report, assignments>>
<1>0. RaceOK /\ DOMAIN job = Workers
  BY DEF TypeOK
<1>1. ASSUME NEW w \in Workers
      PROVE  ~ Commit(w)
  BY <1>0, <1>1 DEF Commit
<1>2. UNCHANGED <<report, assignments>>
  BY <1>1, ReportUntouched, RowsUntouched
  DEF RecordTransition, RecordAssignment, RecordRelease
<1>3. ASSUME NEW w \in Workers, Finish(w)
      PROVE  v \notin overtaken
  BY <1>0, <1>3 DEF Finish
<1>4. UNCHANGED race => v \notin overtaken
  BY DEF race
<1>5. UNCHANGED race \/ \E w \in Workers : Finish(w) \/ Commit(w)
  BY DEF Next, vars, Receive, Authorise, RefuseCaller, AcceptTransition, RefuseTransition,
         RejectTransition, RecordTransition, CheckAssignee, RefuseClosed, RejectAssignee,
         FindOwner, RefuseOwner, RecordAssignment, ConflictingAssignment, RecordRelease,
         Crash, Deactivate, Denied, Dropped
<1> QED
  BY <1>1, <1>2, <1>3, <1>4, <1>5

\* What finding the owner finds.
LEMMA Found ==
  ASSUME TypeOK, OneOwner, NEW v \in Workers, FindOwner(v), UNCHANGED assignments
  PROVE  /\ job'[v].pc = "ready" /\ job[v] \in Jobs
         /\ job'[v].req = job[v].req /\ job'[v].seen = job[v].seen
         /\ job[v].req.kind = "assign" /\ job'[v].found # 0 =>
              assignments[job'[v].found].to # job[v].req.assignee
         /\ job[v].req.kind = "unassign" => job'[v].found \in ActiveRows
<1>1. job[v] \in Jobs
  BY Busy, JobFields DEF FindOwner, At, Stages
<1>2. PICK i \in IF ActiveRows = {} THEN {0} ELSE ActiveRows :
        /\ IF job[v].req.kind = "assign"
           THEN i # 0 => assignments[i].to # job[v].req.assignee
           ELSE i # 0
        /\ job' = [job EXCEPT ![v].pc = "ready", ![v].found = i]
  BY DEF FindOwner
<1>3. job'[v] = [job[v] EXCEPT !.pc = "ready", !.found = i]
  BY <1>2 DEF TypeOK
<1>4. /\ job'[v].pc = "ready" /\ job'[v].found = i
      /\ job'[v].req = job[v].req /\ job'[v].seen = job[v].seen
  BY <1>1, <1>3 DEF Jobs
<1> QED
  BY <1>1, <1>2, <1>4

\* A status the case has had it has had for good, and so has its ownership rows.
LEMMA Remembered ==
  ASSUME TypeOK, Stamped, [Next]_vars
  PROVE  /\ Had \subseteq Had'
         /\ assignments # <<>> => assignments' # <<>>
         /\ \A i \in 1 .. Len(assignments) : assignments'[i].to = assignments[i].to
<1>1. Grows /\ TypeOK'
  BY GrowsStep, TypeStep
<1>2. /\ DOMAIN history = 1 .. Len(history) /\ DOMAIN history' = 1 .. Len(history')
      /\ DOMAIN assignments = 1 .. Len(assignments)
      /\ Len(history) \in Nat /\ Len(history') \in Nat
  BY <1>1 DEF TypeOK
<1>3. Had \subseteq Had'
  BY <1>1, <1>2 DEF Grows, Had
<1>4. assignments # <<>> => assignments' # <<>>
  <2>1. assignments # <<>> => Len(assignments) > 0
    BY DEF TypeOK
  <2> QED
    BY <1>1, <2>1 DEF Grows, TypeOK
<1> QED
  BY <1>1, <1>2, <1>3, <1>4 DEF Grows

LEMMA WasSoStep ==
  ASSUME ContractInv, [Next]_vars, NEW v \in Workers
  PROVE  WasSo(v)'
<1> USE DEF ContractInv, TrailInv
<1>0. TypeOK' /\ WasSo(v)
  BY TypeStep DEF Informed
<1>1. CASE job'[v] = idle
  BY <1>1 DEF WasSo, At, idle
<1>2. CASE job'[v] = job[v] /\ job[v] # idle
  <2>1. job[v].found \in 0 .. Len(assignments)
    BY <1>2, JobFields
  <2>2. job[v].found # 0 => job[v].found \in 1 .. Len(assignments)
    BY <2>1 DEF TypeOK
  <2> QED
    BY <1>0, <1>2, <2>2, Remembered DEF WasSo, At
<1>3. ASSUME NEW r \in Requests, Receive(v, r)
      PROVE  WasSo(v)'
  <2>1. job'[v].pc = "loaded" /\ job'[v].seen = status
    BY <1>3 DEF Receive, TypeOK
  <2>2. status \in Had
    <3>1. Len(history) \in DOMAIN history
      <4>1. history # <<>> /\ history \in Seq(HistoryRow)
        BY DEF ReportFollowsTrail, TypeOK
      <4> QED
        BY <4>1
    <3> QED
      BY <3>1 DEF ReportFollowsTrail, Had
  <2> QED
    BY <2>1, <2>2, Remembered DEF WasSo, At
<1>4. ASSUME job'[v].req = job[v].req, job'[v].seen = job[v].seen, job[v] # idle
      PROVE  job'[v].seen \in Had'
  BY <1>0, <1>4, Remembered DEF WasSo
<1>5. CASE /\ Authorise(v) /\ job'[v].pc = "authorised"
           /\ job'[v].req = job[v].req /\ job'[v].seen = job[v].seen
  <2>1. job[v] # idle
    BY <1>5, Busy DEF Authorise, Stages
  <2> QED
    BY <1>4, <1>5, <2>1 DEF WasSo, At
<1>6. CASE AcceptTransition(v) /\ job'[v].req = job[v].req /\ job'[v].seen = job[v].seen
  <2>1. job[v] # idle /\ job'[v].req.kind = "status"
    BY <1>6, Busy DEF AcceptTransition, At, Stages
  <2>2. job[v].req.target \in REQUIRES_ACTIVE_ASSIGNMENT => assignments # <<>>
    BY <1>6 DEF AcceptTransition, OwnedIfRequired, ActiveRows
  <2> QED
    BY <1>4, <1>6, <2>1, <2>2, Remembered DEF WasSo, At
<1>7. CASE CheckAssignee(v) /\ job'[v].req = job[v].req /\ job'[v].seen = job[v].seen
  <2>1. job[v] # idle /\ job'[v].req.kind = "assign" /\ job[v] \in Jobs
    BY <1>7, Busy, JobFields DEF CheckAssignee, At, Stages
  <2>2. job'[v].pc = "checked"
    BY <1>7, <2>1 DEF CheckAssignee, MoveOn, TypeOK, Jobs
  <2> QED
    BY <1>4, <1>7, <2>1, <2>2 DEF WasSo, At
<1>8. CASE FindOwner(v)
  <2>1. assignments' = assignments
    BY <1>8 DEF FindOwner, rows
  <2>2. /\ job'[v].pc = "ready" /\ job[v] \in Jobs
        /\ job'[v].req = job[v].req /\ job'[v].seen = job[v].seen
        /\ job[v].req.kind = "assign" /\ job'[v].found # 0 =>
             assignments[job'[v].found].to # job[v].req.assignee
    BY <1>8, <2>1, Found
  <2>3. job[v] # idle /\ job'[v].req.kind # "status"
    BY <1>8, <2>2, Busy DEF FindOwner, At, Stages
  <2> QED
    BY <1>4, <2>1, <2>2, <2>3 DEF WasSo, At
<1> QED
  BY <1>1, <1>2, <1>3, <1>5, <1>6, <1>7, <1>8, WorkerStep

LEMMA StillSoStep ==
  ASSUME ContractInv, [Next]_vars, NEW v \in Workers, v \notin overtaken'
  PROVE  StillSo(v)'
<1> USE DEF ContractInv, TrailInv
<1>1. CASE job'[v] = idle
  BY <1>1 DEF StillSo, At, idle
<1>2. CASE job'[v] # idle
  <2>1. status' = status /\ assignments' = assignments /\ ActiveRows' = ActiveRows
    BY <1>2, Undisturbed DEF report, ActiveRows
  <2>2. StillSo(v)
    BY <1>2, Undisturbed DEF Informed
  <2>3. CASE job'[v] = job[v]
    BY <2>1, <2>2, <2>3 DEF StillSo, At, OwnedIfRequired
  <2>4. ASSUME NEW r \in Requests, Receive(v, r)
        PROVE  StillSo(v)'
    <3>1. job'[v].pc = "loaded" /\ job'[v].seen = status
      BY <2>4 DEF Receive, TypeOK
    <3> QED
      BY <2>1, <3>1 DEF StillSo, At
  <2>5. CASE Authorise(v) /\ job'[v].pc = "authorised" /\ job'[v].seen = job[v].seen
    <3>1. job[v] # idle
      BY <2>5, Busy DEF Authorise, Stages
    <3> QED
      BY <2>1, <2>2, <2>5, <3>1 DEF StillSo, At
  <2>6. CASE AcceptTransition(v) /\ job'[v].req = job[v].req /\ job'[v].seen = job[v].seen
    <3>1. job[v] # idle /\ job'[v].req.kind = "status"
      BY <2>6, Busy DEF AcceptTransition, At, Stages
    <3>2. OwnedIfRequired(job[v].req)'
      BY <2>1, <2>6 DEF AcceptTransition, OwnedIfRequired
    <3> QED
      BY <2>1, <2>2, <2>6, <3>1, <3>2 DEF StillSo, At
  <2>7. CASE CheckAssignee(v) /\ job'[v].req = job[v].req /\ job'[v].seen = job[v].seen
    <3>1. job[v] # idle /\ job'[v].req.kind = "assign" /\ job[v] \in Jobs
      BY <2>7, Busy, JobFields DEF CheckAssignee, At, Stages
    <3>2. job'[v].pc = "checked"
      BY <2>7, <3>1 DEF CheckAssignee, MoveOn, TypeOK, Jobs
    <3> QED
      BY <2>1, <2>2, <2>7, <3>1, <3>2 DEF StillSo, At, CheckAssignee
  <2>8. CASE FindOwner(v)
    <3>1. /\ job'[v].pc = "ready" /\ job[v] \in Jobs
          /\ job'[v].req = job[v].req /\ job'[v].seen = job[v].seen
          /\ job[v].req.kind = "unassign" => job'[v].found \in ActiveRows
      BY <2>1, <2>8, Found
    <3>2. job[v] # idle
      BY <2>8, Busy DEF FindOwner, At, Stages
    <3>3. \/ job[v].req.kind = "assign" /\ status \notin Terminal
          \/ job[v].req.kind = "unassign"
      BY <2>2, <2>8 DEF FindOwner, At, StillSo
    <3> QED
      BY <2>1, <2>2, <3>1, <3>2, <3>3 DEF StillSo, At
  <2> QED
    BY <1>2, <2>3, <2>4, <2>5, <2>6, <2>7, <2>8, WorkerStep
<1> QED
  BY <1>1, <1>2

LEMMA ContractInvariant == Spec => []ContractInv
<1>1. Init => OneOwner /\ Informed
  BY DEF Init, OneOwner, Informed, WasSo, StillSo, ActiveRows, At, idle
<1>2. ContractInv /\ [Next]_vars => Informed'
  BY WasSoStep, StillSoStep DEF Informed
<1>3. TypeOK /\ OneOwner /\ [Next]_vars => OneOwner'
  BY OneOwnerStep
<1>4. TrailInv => TypeOK
  BY DEF TrailInv
<1> QED
  BY <1>1, <1>2, <1>3, <1>4, TrailInvariant, PTL DEF Spec, ContractInv

\* Code and contract speak of the same graph.
LEMMA SameVocabulary ==
  /\ Contract!Statuses = Statuses /\ Contract!Terminal = Terminal
  /\ Contract!CASE_TRANSITIONS = CASE_TRANSITIONS
  /\ Contract!REQUIRES_ACTIVE_ASSIGNMENT = REQUIRES_ACTIVE_ASSIGNMENT
BY DEF Statuses, Open, Terminal, CASE_TRANSITIONS, REQUIRES_ACTIVE_ASSIGNMENT,
       Contract!Statuses, Contract!Open, Contract!Terminal, Contract!CASE_TRANSITIONS,
       Contract!REQUIRES_ACTIVE_ASSIGNMENT

\* The owner of a case is the holder of its active row, when there is one.
LEMMA OwnerIsHolder ==
  ASSUME TypeOK
  PROVE  /\ ActiveRows = {} => owner = NoUser
         /\ \A i : ActiveRows = {i} => owner = assignments[i].to
         /\ ActiveRows # {} => owner # NoUser
<1>1. ASSUME NEW i \in ActiveRows
      PROVE  assignments[i].to \in Users
  <2>1. assignments[i] \in AssignmentRow
    BY DEF TypeOK, ActiveRows
  <2> QED
    BY <2>1 DEF AssignmentRow
<1> QED
  BY <1>1, ConstantsAssumption DEF owner

\* A write is committed: whoever else is at work has been overtaken.
LEMMA CommitOvertakes ==
  ASSUME TypeOK, NEW w \in Workers, Commit(w)
  PROVE  overtaken \ {w} \subseteq overtaken' /\ w \notin overtaken'
BY DEF TypeOK, RaceOK, Commit

\* The trail after a transition, as the contract sees it.
LEMMA HadAfter ==
  ASSUME TypeOK, Stamped, history # <<>>, NEW w \in Workers, RecordTransition(w)
  PROVE  Had' = Had \cup {job[w].req.target}
<1>1. /\ Len(history) \in Nat /\ Len(history') = Len(history) + 1
      /\ DOMAIN history = 1 .. Len(history)
      /\ \A i \in 1 .. Len(history) : history'[i] = history[i]
      /\ history'[Len(history) + 1].to = job[w].req.target
  BY Recorded DEF TypeOK
<1>2. DOMAIN history' = 1 .. Len(history) + 1
  <2>1. history \in Seq(HistoryRow) /\ \E row : history' = Append(history, row)
    BY DEF TypeOK, RecordTransition
  <2> QED
    BY <1>1, <2>1
<1> QED
  BY <1>1, <1>2 DEF Had

LEMMA MoveKeepsContract ==
  ASSUME ContractInv, NEW w \in Workers, RecordTransition(w)
  PROVE  Contract!Move(w, job[w].req.target)
<1> USE DEF ContractInv, TrailInv
<1> DEFINE to == job[w].req.target
<1>1. job[w] # idle /\ At(w, "ready", "status") /\ LegalMove(w) /\ WasSo(w)
  BY Busy DEF RecordTransition, At, Stages, AcceptedIsLegal, Informed
<1>2. /\ owner' = owner /\ status' = to
      /\ (assignments # <<>>)' = (assignments # <<>>)
  BY DEF RecordTransition, owner, ActiveRows, SyncReportStatus
<1>3. Had' = Had \cup {to}
  BY HadAfter DEF ReportFollowsTrail
<1>4. CASE w \in overtaken
  <2>1. \E from \in Had : to \in CASE_TRANSITIONS[from]
    BY <1>1 DEF LegalMove, WasSo
  <2>2. to \in REQUIRES_ACTIVE_ASSIGNMENT => assignments # <<>>
    BY <1>1 DEF WasSo
  <2> QED
    BY <1>2, <1>3, <1>4, <2>1, <2>2, SameVocabulary DEF Contract!Move, Had
<1>5. CASE w \notin overtaken
  <2>1. StillSo(w)
    BY <1>5 DEF Informed
  <2>2. to \in CASE_TRANSITIONS[status]
    BY <1>1, <2>1 DEF LegalMove, StillSo
  <2>3. to \in REQUIRES_ACTIVE_ASSIGNMENT => owner # NoUser
    BY <1>1, <2>1, OwnerIsHolder DEF StillSo, OwnedIfRequired
  <2> QED
    BY <1>2, <1>3, <1>5, <2>2, <2>3, SameVocabulary DEF Contract!Move, Had
<1> QED
  BY <1>4, <1>5

LEMMA OwnKeepsContract ==
  ASSUME ContractInv, NEW w \in Workers, RecordAssignment(w)
  PROVE  Contract!Own(w, job[w].req.assignee) /\ job[w].req.assignee \in Users
<1> USE DEF ContractInv, TrailInv
<1> DEFINE u == job[w].req.assignee
           i == job[w].found
<1>1. job[w] # idle /\ At(w, "ready", "assign") /\ WasSo(w)
  BY Busy DEF RecordAssignment, At, Stages, Informed
<1>2. u \in Users /\ i \in 0 .. Len(assignments)
  BY <1>1, JobFields DEF At, AssignRequest
<1>3. u # owner
  <2>1. CASE ActiveRows = {}
    BY <1>2, <2>1, OwnerIsHolder, ConstantsAssumption
  <2>2. CASE ActiveRows # {}
    <3>1. ActiveRows = {i} /\ i # 0
      BY <2>2 DEF RecordAssignment, IndexAdmits, ActiveRows, TypeOK
    <3> QED
      BY <1>1, <3>1, OwnerIsHolder DEF WasSo
  <2> QED
    BY <2>1, <2>2
<1>4. owner' = u /\ assignments' # <<>>
  <2>1. ActiveRows' = {Len(assignments) + 1}
    BY ClaimIsAlone
  <2>2. assignments'[Len(assignments) + 1].to = u /\ assignments' # <<>>
    <3> DEFINE row == [to |-> u, role |-> Role[u], active |-> TRUE, at |-> job[w].now]
    <3>1. /\ assignments' = Append(Release(i), row)
          /\ Release(i) \in Seq(AssignmentRow) /\ Len(Release(i)) = Len(assignments)
      BY <1>2, ReleaseType DEF RecordAssignment, TypeOK
    <3>2. row.to = u
      OBVIOUS
    <3> HIDE DEF row
    <3> QED
      BY <3>1, <3>2
  <2> QED
    BY <2>1, <2>2 DEF owner
<1>5. w \in overtaken \/ status \notin Terminal
  BY <1>1 DEF Informed, StillSo
<1>6. status' = status /\ history' = history
  BY DEF RecordAssignment, report
<1> QED
  BY <1>2, <1>3, <1>4, <1>5, <1>6, SameVocabulary DEF Contract!Own

LEMMA ReleaseKeepsContract ==
  ASSUME ContractInv, NEW w \in Workers, RecordRelease(w)
  PROVE  Contract!Release(w)
<1> USE DEF ContractInv, TrailInv
<1> DEFINE i == job[w].found
<1>1. job[w] # idle /\ At(w, "ready", "unassign") /\ i \in 0 .. Len(assignments)
  BY Busy, JobFields DEF RecordRelease, At, Stages
<1>2. /\ assignments' = Release(i) /\ Len(assignments') = Len(assignments)
      /\ ActiveRows' \subseteq ActiveRows
  BY <1>1, ReleaseType, ReleaseActivatesNothing DEF RecordRelease, TypeOK
<1>3. (assignments # <<>>)' = (assignments # <<>>)
  <2>1. assignments' \in Seq(AssignmentRow)
    BY <1>1, <1>2, ReleaseType DEF TypeOK
  <2> QED
    BY <1>2, <2>1 DEF TypeOK
<1>4. status' = status /\ history' = history
  BY DEF RecordRelease, report
<1>5. CASE ActiveRows' = {}
  <2>1. owner' = NoUser
    BY <1>5 DEF owner
  <2>2. w \notin overtaken => owner # NoUser
    BY <1>1, OwnerIsHolder DEF Informed, StillSo
  <2> QED
    BY <1>3, <1>4, <2>1, <2>2 DEF Contract!Release
<1>6. CASE ActiveRows' # {}
  <2>1. PICK k : ActiveRows = {k} /\ ActiveRows' = {k} /\ k \in 1 .. Len(assignments)
    <3>1. PICK k : k \in ActiveRows'
      BY <1>6
    <3>2. ActiveRows = {k} /\ ActiveRows' = {k}
      BY <1>2, <3>1 DEF OneOwner
    <3>3. k \in 1 .. Len(assignments)
      BY <1>2, <3>1 DEF ActiveRows, TypeOK
    <3> QED
      BY <3>2, <3>3
  <2>2. owner = assignments[k].to /\ owner' = assignments'[k].to
    BY <2>1 DEF owner
  <2>3. assignments'[k].to = assignments[k].to /\ (assignments'[k].active => k # i)
    <3>1. assignments[k] \in AssignmentRow
      BY <2>1 DEF TypeOK
    <3> QED
      BY <1>1, <1>2, <2>1, <3>1, ReleaseType, ReleasedRow DEF TypeOK
  <2>4. assignments'[k].active
    BY <2>1 DEF ActiveRows
  <2>5. w \in overtaken
    BY <1>1, <2>1, <2>3, <2>4 DEF Informed, StillSo
  <2> QED
    BY <1>3, <1>4, <2>2, <2>3, <2>5 DEF Contract!Release
<1> QED
  BY <1>5, <1>6

\* Each step of the code is one step of the contract, or none.
LEMMA StepKeepsContract ==
  ContractInv /\ [Next]_vars => [Contract!Next]_(Contract!promise)
<1> SUFFICES ASSUME ContractInv, [Next]_vars
             PROVE  [Contract!Next]_(Contract!promise)
  OBVIOUS
<1>0. TypeOK
  BY DEF ContractInv, TrailInv
<1>1. ASSUME NEW w \in Workers, RecordTransition(w)
      PROVE  Contract!Next
  <2>1. job[w].req.target \in Contract!Statuses
    BY <1>0, <1>1, Busy, JobFields, SameVocabulary
    DEF RecordTransition, At, Stages, StatusRequest
  <2>2. Contract!Move(w, job[w].req.target)
    BY <1>1, MoveKeepsContract
  <2>3. overtaken \ {w} \subseteq overtaken' /\ w \notin overtaken'
    BY <1>0, <1>1, CommitOvertakes DEF RecordTransition
  <2>4. \E to \in Contract!Statuses : Contract!Move(w, to)
    BY <2>1, <2>2 DEF Contract!Move
  <2>5. Contract!Write(w)
    BY <2>3, <2>4 DEF Contract!Write
  <2> QED
    BY <2>5 DEF Contract!Next
<1>2. ASSUME NEW w \in Workers, RecordAssignment(w)
      PROVE  Contract!Next
  <2>1. Contract!Own(w, job[w].req.assignee) /\ job[w].req.assignee \in Users
    BY <1>2, OwnKeepsContract
  <2>2. overtaken \ {w} \subseteq overtaken' /\ w \notin overtaken'
    BY <1>0, <1>2, CommitOvertakes DEF RecordAssignment
  <2> QED
    BY <2>1, <2>2 DEF Contract!Next, Contract!Write
<1>3. ASSUME NEW w \in Workers, RecordRelease(w)
      PROVE  Contract!Next
  <2>1. Contract!Release(w)
    BY <1>3, ReleaseKeepsContract
  <2>2. overtaken \ {w} \subseteq overtaken' /\ w \notin overtaken'
    BY <1>0, <1>3, CommitOvertakes DEF RecordRelease
  <2> QED
    BY <2>1, <2>2 DEF Contract!Next, Contract!Write
<1>4. ASSUME NEW w \in Workers, Finish(w), UNCHANGED <<report, assignments>>
      PROVE  Contract!Next
  <2>1. /\ status' = status /\ owner' = owner /\ overtaken' = overtaken \ {w}
        /\ history' = history /\ assignments' = assignments
    BY <1>4 DEF Finish, report, owner, ActiveRows
  <2> QED
    BY <2>1 DEF Contract!Next, Contract!Leave
<1>5. CASE UNCHANGED <<report, assignments, race>>
  BY <1>5 DEF Contract!promise, report, owner, ActiveRows, race
<1>6. \/ UNCHANGED <<report, assignments, race>>
      \/ \E w \in Workers : \/ RecordTransition(w) \/ RecordAssignment(w) \/ RecordRelease(w)
                            \/ Finish(w) /\ UNCHANGED <<report, assignments>>
  <2>1. ASSUME NEW w \in Workers,
               \/ RefuseCaller(w) \/ RefuseTransition(w) \/ RejectTransition(w)
               \/ RefuseClosed(w) \/ RejectAssignee(w) \/ RefuseOwner(w)
               \/ ConflictingAssignment(w) \/ Crash(w)
        PROVE  Finish(w) /\ UNCHANGED <<report, assignments>>
    BY <2>1 DEF RefuseCaller, RefuseTransition, RejectTransition, RefuseClosed,
                RejectAssignee, RefuseOwner, ConflictingAssignment, Crash, Denied, Dropped,
                rows, report
  <2>2. ASSUME NEW w \in Workers,
               \/ \E r \in Requests : Receive(w, r)
               \/ Authorise(w) \/ AcceptTransition(w) \/ CheckAssignee(w) \/ FindOwner(w)
        PROVE  UNCHANGED <<report, assignments, race>>
    BY <2>2 DEF Receive, Authorise, AcceptTransition, CheckAssignee, FindOwner, rows
  <2>3. ASSUME (\E u \in Users : Deactivate(u)) \/ UNCHANGED vars
        PROVE  UNCHANGED <<report, assignments, race>>
    BY <2>3 DEF Deactivate, rows, report, vars
  <2> QED
    BY <2>1, <2>2, <2>3 DEF Next
<1> QED
  BY <1>1, <1>2, <1>3, <1>4, <1>5, <1>6

\* However many workers there are, a request that nobody overtook keeps the case's
\* promise: legal moves only, an owner where one is required, no successor of a
\* terminal status, no new owner of a closed case.  An overtaken one keeps the
\* weaker half of it (CaseService.change_status, assign, unassign).
THEOREM CaseIsKept == Spec => KeepsContract
<1>1. Init => Contract!Init
  <2> SUFFICES ASSUME Init
               PROVE  Contract!Init
    OBVIOUS
  <2>1. DOMAIN history = {1} /\ history[1].to = "submitted"
    BY DEF Init
  <2>2. owner = NoUser /\ assignments = <<>>
    BY DEF Init, owner, ActiveRows
  <2> QED
    BY <2>1, <2>2 DEF Init, Contract!Init
<1> QED
  BY <1>1, ContractInvariant, StepKeepsContract, PTL DEF Spec, KeepsContract, Contract!Spec

-----------------------------------------------------------------------------
(* The timeline.  A request that nobody overtook carries a later stamp than *)
(* every row committed so far.                                              *)

InOrder ==
  /\ \A i \in 1 .. Len(history) : history[i].at <= clock
  /\ history[Len(history)].at \notin belated =>
       \A i \in 1 .. Len(history) : i # Len(history) => history[i].at < history[Len(history)].at
  /\ \A w \in Workers :
       Carries(w) /\ w \notin overtaken =>
         \A i \in 1 .. Len(history) : history[i].at < job[w].now

\* A time once known as an overtaken request's stays known as one.
LEMMA BelatedGrows == ASSUME [Next]_vars PROVE belated \subseteq belated'
<1>1. UNCHANGED race \/ \E w \in Workers : Finish(w) \/ Commit(w)
  BY DEF Next, vars, Receive, Authorise, RefuseCaller, AcceptTransition, RefuseTransition,
         RejectTransition, RecordTransition, CheckAssignee, RefuseClosed, RejectAssignee,
         FindOwner, RefuseOwner, RecordAssignment, ConflictingAssignment, RecordRelease,
         Crash, Deactivate, Denied, Dropped
<1> QED
  BY <1>1 DEF race, Finish, Commit

LEMMA InOrderStep == TrailInv /\ StampsApart /\ InOrder /\ [Next]_vars => InOrder'
<1> SUFFICES ASSUME TrailInv, StampsApart, InOrder, [Next]_vars
             PROVE  InOrder'
  OBVIOUS
<1>0. /\ TypeOK /\ Stamped
      /\ clock \in Nat /\ Len(history) \in Nat
      /\ \A i \in 1 .. Len(history) : history[i].at \in Nat
  <2>1. \A i \in 1 .. Len(history) : history[i] \in HistoryRow
    BY DEF TrailInv, TypeOK
  <2> QED
    BY <2>1 DEF TrailInv, TypeOK, HistoryRow
<1>1. clock' \in {clock, clock + 1}
  BY <1>0, QuietSteps, RefusalEnds, WriteEnds DEF Ends
<1>2. CASE UNCHANGED history
  <2>1. ASSUME NEW v \in Workers, Carries(v)', v \notin overtaken',
               NEW i \in 1 .. Len(history)
        PROVE  history[i].at < job'[v].now
    <3>1. v \notin overtaken
      <4>1. job'[v] # idle
        BY <2>1 DEF Carries, idle
      <4> QED
        BY <1>0, <2>1, <4>1, Undisturbed
    <3>2. CASE Carries(v) /\ job'[v].now = job[v].now
      BY <3>1, <3>2, <1>0, <2>1 DEF InOrder
    <3>3. CASE job'[v].now = clock + 1
      BY <3>3, <1>0, <2>1 DEF InOrder
    <3> QED
      BY <1>0, <2>1, <3>2, <3>3, StampOf
  <2>2. \A i \in 1 .. Len(history) : history[i].at <= clock'
    BY <1>0, <1>1 DEF InOrder
  <2> QED
    BY <1>2, <2>1, <2>2, BelatedGrows DEF InOrder
<1>3. ASSUME NEW w \in Workers, RecordTransition(w)
      PROVE  InOrder'
  <2>1. Carries(w) /\ Commit(w) /\ clock' = clock
    BY <1>3 DEF RecordTransition, At, Carries
  <2>2. /\ job[w].now <= clock
        /\ w \notin overtaken => \A i \in 1 .. Len(history) : history[i].at < job[w].now
    BY <1>0, <2>1 DEF InOrder, StampsApart
  <2>3. /\ Len(history') = Len(history) + 1
        /\ \A i \in 1 .. Len(history) : history'[i] = history[i]
        /\ history'[Len(history) + 1].at = job[w].now
    BY <1>0, <1>3, Recorded
  <2>4. ASSUME NEW v \in Workers, Carries(v)'
        PROVE  v \in overtaken'
    <3>1. job'[v] # idle
      BY <2>4 DEF Carries, idle
    <3>2. v # w /\ job[v] # idle
      BY <1>0, <2>1, <3>1 DEF Commit, TypeOK
    <3> QED
      BY <2>1, <3>2 DEF Commit
  <2>5. \A i \in 1 .. Len(history') : i \in 1 .. Len(history) \/ i = Len(history) + 1
    BY <1>0, <2>3
  <2>6. \A i \in 1 .. Len(history') : history'[i].at <= clock'
    BY <1>0, <2>1, <2>2, <2>3, <2>5 DEF InOrder
  <2>7. ASSUME history'[Len(history')].at \notin belated',
               NEW i \in 1 .. Len(history'), i # Len(history')
        PROVE  history'[i].at < history'[Len(history')].at
    <3>1. w \notin overtaken
      BY <2>1, <2>3, <2>7 DEF Commit
    <3> QED
      BY <2>2, <2>3, <2>5, <2>7, <3>1
  <2> QED
    BY <2>4, <2>6, <2>7 DEF InOrder
<1> QED
  BY <1>2, <1>3, ReportUntouched DEF report

\* Whichever workers race, the timeline read in the order of its times ends in the
\* status of the report, unless the write that gave the report its status was
\* committed by a request that another write had overtaken (report_service.py sorts
\* by changed_at what case_service.py stamps before it reads).
THEOREM TimelineEndsRight == Spec => []TimelineEndsInStatus
<1>1. Init => InOrder
  BY DEF Init, InOrder, Carries, idle
<1>2. TrailInv /\ InOrder => TimelineEndsInStatus
  <2> SUFFICES ASSUME TrailInv, InOrder, history[Len(history)].at \notin belated,
                      NEW i \in DOMAIN history,
                      \A j \in DOMAIN history : history[j].at <= history[i].at
               PROVE  history[i].to = status
    BY DEF TimelineEndsInStatus
  <2>1. /\ history \in Seq(HistoryRow) /\ DOMAIN history = 1 .. Len(history)
        /\ Len(history) \in 1 .. Len(history)
    <3>1. history \in Seq(HistoryRow) /\ history # <<>>
      BY DEF TrailInv, TypeOK, ReportFollowsTrail
    <3> QED
      BY <3>1
  <2>2. \A j \in 1 .. Len(history) : history[j].at \in Nat
    <3>1. \A j \in 1 .. Len(history) : history[j] \in HistoryRow
      BY <2>1, ElementOfSeq
    <3> QED
      BY <3>1 DEF HistoryRow
  <2>3. i = Len(history)
    <3> SUFFICES ASSUME i # Len(history)
                 PROVE  FALSE
      OBVIOUS
    <3>1. history[Len(history)].at <= history[i].at
      BY <2>1
    <3>2. i \in 1 .. Len(history)
      BY <2>1
    <3>3. history[i].at < history[Len(history)].at
      BY <3>2 DEF InOrder
    <3>4. history[i].at \in Nat /\ history[Len(history)].at \in Nat
      BY <2>1, <2>2, <3>2
    <3> QED
      BY <3>1, <3>3, <3>4
  <2> QED
    BY <2>3 DEF TrailInv, ReportFollowsTrail
<1>3. TrailInv /\ StampsApart /\ InOrder /\ [Next]_vars => InOrder'
  BY InOrderStep
<1>4. LogInv => StampsApart
  BY DEF LogInv
<1> QED
  BY <1>1, <1>2, <1>3, <1>4, TrailInvariant, LogInvariant, PTL DEF Spec
=============================================================================
