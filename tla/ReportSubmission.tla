-------------------------- MODULE ReportSubmission --------------------------
(***************************************************************************)
(* Filing a report: POST /reports (the wizard: identified or anonymous, an *)
(* emergency or not) and POST /reports/emergency (SOS).                    *)
(*                                                                         *)
(* Everything a submission writes is invisible until its one commit, with  *)
(* one exception other sessions feel: the quota row, locked from the       *)
(* moment the counter is flushed.  `quota' maps a user and a UTC date to   *)
(* the committed counter, 0 where there is no row yet.                     *)
(***************************************************************************)
EXTENDS Naturals, Sequences, FiniteSets

CONSTANTS
  Workers,      \* concurrent request handlers
  Users,        \* accounts that file
  Responders,   \* active security and ICC accounts
  Limit,        \* daily_report_quota
  Window,       \* EMERGENCY_DEDUP_WINDOW, in ticks
  Margin,       \* EMERGENCY_OCCURRED_AT_MARGIN, in ticks
  DayLength,    \* ticks of a UTC day
  MaxTime,      \* bound: ticks
  MaxRequests   \* bound: requests taken up

ASSUME SubmissionAssumption ==
  /\ Limit \in Nat /\ Window \in Nat /\ Margin \in Nat /\ DayLength \in Nat \ {0}
  /\ MaxTime \in Nat /\ MaxRequests \in Nat

Request ==
  [user: Users, sos: {FALSE}, anonymous: BOOLEAN, emergency: BOOLEAN]
    \cup [user: Users, sos: {TRUE}, anonymous: {FALSE}, emergency: {TRUE}]

VARIABLES
  reports,      \* core.report rows, in commit order
  attribution,  \* identity.report_attribution rows: <<report, user>>
  tokens,       \* reports with a core.report_access_token row
  quota,        \* identity.submission_quota
  alerts,       \* notifications of an emergency: <<responder, report>>
  audit,        \* audit.access_log rows
  clock,        \* the time
  taken,        \* requests taken up
  job,          \* [Workers -> what the worker is in the middle of]
  filed,        \* history: who filed each report, and the `now' of the request
  overlapped    \* history: users who have had two requests running at once

stored == <<reports, attribution, tokens, quota, alerts, audit>>
history == <<filed, overlapped>>
vars == <<stored, clock, taken, job, history>>

Times == 0 .. MaxTime
DayOf(t) == t \div DayLength
Days == {DayOf(t) : t \in Times}

idle == [pc |-> "idle"]
Jobs == [pc: {"begun", "admitted", "counting", "counted", "assisted"}, req: Request,
         at: Times, nth: Nat, now: Times, read: Nat]

\* at, nth: submitted_at, the tick and the order within it.
ReportRow == [anonymous: BOOLEAN, emergency: BOOLEAN, sos: BOOLEAN, at: Times, nth: Nat]
AuditRow == [action: {"create", "emergency"}, about: Nat]

Init ==
  /\ reports = <<>> /\ attribution = {} /\ tokens = {} /\ alerts = {} /\ audit = {}
  /\ quota = [u \in Users |-> [d \in Days |-> 0]]
  /\ clock = 0 /\ taken = 0
  /\ job = [w \in Workers |-> idle]
  /\ filed = <<>> /\ overlapped = {}

At(w, stage) == job[w].pc = stage
MoveOn(w, stage) == job' = [job EXCEPT ![w].pc = stage]
Finish(w) == job' = [job EXCEPT ![w] = idle]

\* Rolled back.  No refusal of a submission is recorded in the access log.
Dropped(w) == Finish(w) /\ UNCHANGED <<stored, clock, taken, history>>

Busy(u) == {w \in Workers : job[w] # idle /\ job[w].req.user = u}

\* The transaction starts here: submitted_at defaults to its time.
Receive(w, r) ==
  /\ job[w] = idle
  /\ taken < MaxRequests
  /\ taken' = taken + 1
  /\ job' = [job EXCEPT ![w] = [pc |-> "begun", req |-> r, at |-> clock, nth |-> taken + 1,
                                now |-> 0, read |-> 0]]
  /\ overlapped' = IF Busy(r.user) = {} THEN overlapped ELSE overlapped \cup {r.user}
  /\ UNCHANGED <<stored, clock, filed>>

Admit(w) ==
  /\ job' = [job EXCEPT ![w].pc = "admitted", ![w].now = clock]
  /\ UNCHANGED <<stored, clock, taken, history>>

\* 400: a field is missing, unknown or out of range, or is the server's to set.
RefuseBody(w) == At(w, "begun") /\ Dropped(w)

-----------------------------------------------------------------------------
(* ReportService.submit and _enforce_quota                                 *)

QuotaLeft(u) == quota[u][DayOf(clock)] < Limit

AdmitReport(w) ==
  /\ At(w, "begun") /\ ~job[w].req.sos
  /\ job[w].req.emergency \/ QuotaLeft(job[w].req.user)
  /\ Admit(w)

\* 429.
RefuseQuota(w) ==
  /\ At(w, "begun") /\ ~job[w].req.emergency
  /\ ~QuotaLeft(job[w].req.user)
  /\ Dropped(w)

-----------------------------------------------------------------------------
(* ReportService.submit_sos: the duplicate-press window                    *)

\* list_for_reporter(limit=1): the latest report under the user's own name.
Recent(u) ==
  LET own == {i \in DOMAIN reports : <<i, u>> \in attribution}
  IN {i \in own : \A j \in own : reports[j].nth <= reports[i].nth}

\* Mutant: only a press at the very same time counts as a repeat.
RepeatOfThisInstant(i) == reports[i].emergency /\ reports[i].at = clock

Repeat(i) == reports[i].emergency /\ clock - reports[i].at < Window

AdmitSos(w) ==
  /\ At(w, "begun") /\ job[w].req.sos
  /\ \A i \in Recent(job[w].req.user) : ~Repeat(i)
  /\ Admit(w)

\* 201 with the report that is already there.
AnswerRepeat(w) ==
  /\ At(w, "begun") /\ job[w].req.sos
  /\ \E i \in Recent(job[w].req.user) :
       /\ Repeat(i)
       /\ audit' = audit \cup {[action |-> "emergency", about |-> i]}
  /\ Finish(w)
  /\ UNCHANGED <<reports, attribution, tokens, quota, alerts, clock, taken, history>>

-----------------------------------------------------------------------------
(* ReportService._create                                                   *)

\* 400: an unknown category or location, a future time, an image no longer there.
Reject(w) ==
  /\ At(w, "admitted") /\ ~job[w].req.sos
  /\ Dropped(w)

\* ck_report_occurred_not_future: an SOS says it occurred Margin before its `now'.
OccurredBefore(w) == job[w].req.sos => job[w].now <= job[w].at + Margin

\* 400, for an SOS that was looked at too long after its transaction began.
RefuseLateSos(w) ==
  /\ At(w, "admitted")
  /\ ~OccurredBefore(w)
  /\ Dropped(w)

\* increment_quota reads the counter again, whatever the check has seen.
ReadQuota(w) ==
  /\ At(w, "admitted")
  /\ OccurredBefore(w)
  /\ job' = [job EXCEPT ![w].pc = "counting",
                        ![w].read = quota[job[w].req.user][DayOf(job[w].now)]]
  /\ UNCHANGED <<stored, clock, taken, history>>

\* Two sessions that count on the same row; the lock is held until the commit.
SameRow(v, w) == job[v].req.user = job[w].req.user /\ DayOf(job[v].now) = DayOf(job[w].now)

RowLocked(w) ==
  \E v \in Workers \ {w} :
    job[v] # idle /\ job[v].pc \in {"counted", "assisted"} /\ SameRow(v, w)

\* A first INSERT of the day, meeting a row committed meanwhile.
RowExists(w) == job[w].read = 0 /\ quota[job[w].req.user][DayOf(job[w].now)] # 0

\* Mutant: the counter is committed on its own.
CountAtOnce(w) ==
  /\ At(w, "counting") /\ ~RowLocked(w) /\ ~RowExists(w)
  /\ quota' = [quota EXCEPT ![job[w].req.user][DayOf(job[w].now)] = job[w].read + 1]
  /\ MoveOn(w, "counted")
  /\ UNCHANGED <<reports, attribution, tokens, alerts, audit, clock, taken, history>>

WriteQuota(w) ==
  /\ At(w, "counting") /\ ~RowLocked(w) /\ ~RowExists(w)
  /\ MoveOn(w, "counted")
  /\ UNCHANGED <<stored, clock, taken, history>>

\* 409, for an emergency as for any other report.
ConflictingQuota(w) ==
  /\ At(w, "counting") /\ ~RowLocked(w) /\ RowExists(w)
  /\ Dropped(w)

\* run_for_report: whatever fails in Python is swallowed and the report stands.
Assist(w) ==
  /\ At(w, "counted")
  /\ MoveOn(w, "assisted")
  /\ UNCHANGED <<stored, clock, taken, history>>

\* What fails in the database has aborted the transaction: 500 or 503.
AssistAborts(w) ==
  /\ At(w, "counted")
  /\ Dropped(w)

\* Mutant: every report is attributed.
AttributeAll(r, i) == attribution' = attribution \cup {<<i, r.user>>} /\ tokens' = tokens

\* Anonymity is the absence of the attribution row.
Identify(r, i) ==
  IF r.anonymous THEN tokens' = tokens \cup {i} /\ attribution' = attribution
  ELSE attribution' = attribution \cup {<<i, r.user>>} /\ tokens' = tokens

\* Mutant: the counter of the day the request ends on, not of the day it was checked for.
CountToday(w) ==
  quota' = [quota EXCEPT ![job[w].req.user][DayOf(clock)] = job[w].read + 1]

CountReport(w) ==
  quota' = [quota EXCEPT ![job[w].req.user][DayOf(job[w].now)] = job[w].read + 1]

\* Mutant: the reporter is alerted too.
notify_everyone(r, i) ==
  alerts' = IF r.sos THEN alerts \cup ((Responders \cup {r.user}) \X {i}) ELSE alerts

notify_emergency(r, i) == alerts' = IF r.sos THEN alerts \cup (Responders \X {i}) ELSE alerts

Commit(w) ==
  LET r == job[w].req
      i == Len(reports) + 1
  IN /\ At(w, "assisted")
     /\ reports' = Append(reports, [anonymous |-> r.anonymous, emergency |-> r.emergency,
                                    sos |-> r.sos, at |-> job[w].at, nth |-> job[w].nth])
     /\ Identify(r, i)
     /\ CountReport(w)
     /\ notify_emergency(r, i)
     /\ audit' = audit \cup {[action |-> IF r.sos THEN "emergency" ELSE "create", about |-> i]}
     /\ filed' = Append(filed, [by |-> r.user, now |-> job[w].now])
     /\ Finish(w)
     /\ UNCHANGED <<clock, taken, overlapped>>

Crash(w) == job[w] # idle /\ Dropped(w)

Tick ==
  /\ clock < MaxTime
  /\ clock' = clock + 1
  /\ UNCHANGED <<stored, taken, job, history>>

Next ==
  \/ \E w \in Workers :
       \/ \E r \in Request : Receive(w, r)
       \/ RefuseBody(w) \/ AdmitReport(w) \/ RefuseQuota(w) \/ AdmitSos(w) \/ AnswerRepeat(w)
       \/ Reject(w) \/ RefuseLateSos(w) \/ ReadQuota(w) \/ WriteQuota(w) \/ ConflictingQuota(w)
       \/ Assist(w) \/ AssistAborts(w) \/ Commit(w) \/ Crash(w)
  \/ Tick

Spec == Init /\ [][Next]_vars
-----------------------------------------------------------------------------
(* What holds                                                              *)

FiledOn(u, d) == {i \in DOMAIN filed : filed[i].by = u /\ DayOf(filed[i].now) = d}

\* Types of the rows and of the submissions in flight.
TypeOK ==
  /\ reports \in Seq(ReportRow)
  /\ attribution \subseteq (DOMAIN reports) \X Users /\ tokens \subseteq DOMAIN reports
  /\ alerts \subseteq Responders \X DOMAIN reports /\ audit \subseteq AuditRow
  /\ quota \in [Users -> [Days -> Nat]]
  /\ clock \in Times /\ taken \in 0 .. MaxRequests
  /\ job \in [Workers -> {idle} \cup Jobs]
  /\ filed \in Seq([by: Users, now: Times]) /\ overlapped \subseteq Users

\* A report is committed with everything that belongs to it or not at all: an
\* anonymous one with a token and under nobody's name, an identified one under
\* its reporter's and nobody else's, each with its access-log row, an SOS with
\* an alert to every responder.
CompleteOrAbsent ==
  \A i \in DOMAIN reports :
    /\ (i \in tokens) = reports[i].anonymous
    /\ {u \in Users : <<i, u>> \in attribution}
         = IF reports[i].anonymous THEN {} ELSE {filed[i].by}
    /\ [action |-> IF reports[i].sos THEN "emergency" ELSE "create", about |-> i] \in audit
    /\ {p \in alerts : p[2] = i} = IF reports[i].sos THEN Responders \X {i} ELSE {}

\* Nobody is ever charged for a submission that failed, crashed or was refused.
NeverOvercharged ==
  \A u \in Users, d \in Days : quota[u][d] <= Cardinality(FiledOn(u, d))

\* Whatever other users do at the same time, a user whose own submissions never
\* overlapped has each of them counted, anonymous and emergency ones included,
\* and never got more ordinary ones through than a day allows.
CountedExactly ==
  \A u \in Users \ overlapped, d \in Days :
    /\ quota[u][d] = Cardinality(FiledOn(u, d))
    /\ Cardinality({i \in FiledOn(u, d) : ~reports[i].emergency}) <= Limit

\* A user whose own requests never overlapped raises a second SOS within the
\* window only after filing something else under their name in between.
SosOncePerWindow ==
  \A u \in Users \ overlapped : \A i, j \in DOMAIN reports :
    /\ i < j /\ filed[i].by = u /\ filed[j].by = u
    /\ reports[i].sos /\ reports[j].sos
    => \/ filed[j].now - reports[i].at >= Window
       \/ \E k \in i + 1 .. j - 1 : <<k, u>> \in attribution /\ ~reports[k].emergency

-----------------------------------------------------------------------------
(* What the code's comments promise                                        *)

\* NotificationService.notify_emergency: active security and ICC responders are
\* alerted when an emergency SOS is submitted.
SosAlertsResponders ==
  \A a \in audit : a.action = "emergency" => Responders \X {a.about} \subseteq alerts
=============================================================================
