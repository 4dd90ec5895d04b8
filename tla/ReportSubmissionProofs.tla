----------------------- MODULE ReportSubmissionProofs -----------------------
(***************************************************************************)
(* Theorems about ReportSubmission, for every set of workers and users,    *)
(* every limit, window, margin and length of the day.                      *)
(***************************************************************************)
EXTENDS ReportSubmission, SequenceTheorems, FiniteSetTheorems, TLAPS

\* The stages in which a submission has read the counter it will write.
Counting == {"counting", "counted", "assisted"}
Stages == {"begun", "admitted"} \cup Counting

\* The counter a submission is about to write.
Counter(w) == quota[job[w].req.user][DayOf(job[w].now)]

\* What a submission in flight carries.  It read no more than was filed; and
\* while its user's requests do not overlap it read what is there still, and
\* what it was admitted on is still so.
Warranted(w) ==
  /\ job[w].pc \in Counting =>
       job[w].read <= Cardinality(FiledOn(job[w].req.user, DayOf(job[w].now)))
  /\ job[w] # idle /\ job[w].req.user \notin overlapped =>
       /\ job[w].pc \in Counting => job[w].read = Counter(w)
       /\ job[w].pc # "begun" /\ ~job[w].req.emergency => Counter(w) < Limit

\* The submissions the limit is about.
OrdinaryOn(u, d) == {i \in FiledOn(u, d) : ~reports[i].emergency}

\* Users whose requests never overlapped have one at a time.
OneAtATime ==
  \A v, w \in Workers :
    v # w /\ job[v] # idle /\ job[w] # idle /\ job[v].req.user = job[w].req.user
      => job[v].req.user \in overlapped

\* The inductive invariant.
SubmissionInv ==
  /\ TypeOK
  /\ Len(filed) = Len(reports)
  /\ NeverOvercharged
  /\ CountedExactly
  /\ OneAtATime
  /\ \A w \in Workers : Warranted(w)

-----------------------------------------------------------------------------
(* Requests in flight                                                      *)

\* What the code maps a request in flight to.
LEMMA JobFields ==
  ASSUME TypeOK, NEW w \in Workers, job[w] # idle
  PROVE  /\ job[w] \in Jobs
         /\ job[w].req \in Request
         /\ job[w].req.user \in Users
         /\ job[w].now \in Times
         /\ DayOf(job[w].now) \in Days
         /\ job[w].pc \in Stages
<1>1. job[w] \in Jobs
  BY DEF TypeOK
<1>2. job[w].req \in Request /\ job[w].now \in Times /\ job[w].pc \in Stages
  BY <1>1 DEF Jobs, Stages, Counting
<1> QED
  BY <1>1, <1>2 DEF Request, Days

LEMMA BusyWorker ==
  ASSUME NEW w \in Workers, job[w].pc \in Stages
  PROVE  job[w] # idle
BY DEF idle, Stages, Counting

\* A request moved on to another stage is still one.
LEMMA JobUpdate ==
  ASSUME NEW j \in Jobs, NEW st \in Stages, NEW t \in Times, NEW n \in Nat
  PROVE  /\ [j EXCEPT !.pc = st] \in Jobs
         /\ [j EXCEPT !.pc = st, !.now = t] \in Jobs
         /\ [j EXCEPT !.pc = st, !.read = n] \in Jobs
<1>1. [j EXCEPT !.pc = st] \in Jobs
  BY DEF Jobs, Stages, Counting
<1>2. ASSUME NEW k \in Jobs
      PROVE  [k EXCEPT !.now = t] \in Jobs /\ [k EXCEPT !.read = n] \in Jobs
  BY DEF Jobs
<1> QED
  BY <1>1, <1>2

LEMMA AppendType ==
  ASSUME NEW S, NEW q \in Seq(S), NEW e \in S
  PROVE  /\ Append(q, e) \in Seq(S)
         /\ Len(Append(q, e)) = Len(q) + 1
         /\ DOMAIN Append(q, e) = 1 .. Len(q) + 1
         /\ Append(q, e)[Len(q) + 1] = e
         /\ \A i \in 1 .. Len(q) : Append(q, e)[i] = q[i]
OBVIOUS

\* What was filed is finite.
LEMMA FiledFinite ==
  ASSUME TypeOK, NEW u, NEW d
  PROVE  IsFiniteSet(FiledOn(u, d)) /\ Cardinality(FiledOn(u, d)) \in Nat
<1>1. DOMAIN filed = 1 .. Len(filed) /\ Len(filed) \in Nat
  BY LenProperties DEF TypeOK
<1>2. IsFiniteSet(1 .. Len(filed)) /\ FiledOn(u, d) \subseteq 1 .. Len(filed)
  BY <1>1, FS_Interval DEF FiledOn
<1>3. IsFiniteSet(FiledOn(u, d))
  BY <1>2, FS_Subset
<1> QED
  BY <1>3, FS_CardinalityType

-----------------------------------------------------------------------------
(* Steps that leave what was filed alone                                   *)

LEMMA SubmissionInit == Init => SubmissionInv
<1> SUFFICES ASSUME Init
             PROVE  SubmissionInv
  OBVIOUS
<1>1. 0 \in Times /\ 0 \in 0 .. MaxRequests
  BY SubmissionAssumption DEF Times
<1>2. /\ reports \in Seq(ReportRow) /\ filed \in Seq([by: Users, now: Times])
      /\ Len(filed) = 0 /\ Len(reports) = 0 /\ DOMAIN filed = {} /\ DOMAIN reports = {}
  BY DEF Init
<1>3. TypeOK
  BY <1>1, <1>2 DEF Init, TypeOK
<1>4. \A u \in Users, d \in Days : FiledOn(u, d) = {} /\ quota[u][d] = 0
  BY <1>2 DEF Init, FiledOn
<1>5. NeverOvercharged
  BY <1>4, FS_EmptySet DEF NeverOvercharged
<1>6. CountedExactly
  <2>1. SUFFICES ASSUME NEW u \in Users, NEW d \in Days
                 PROVE  /\ quota[u][d] = Cardinality(FiledOn(u, d))
                        /\ Cardinality({i \in FiledOn(u, d) : ~reports[i].emergency}) <= Limit
    BY DEF CountedExactly
  <2>2. {i \in FiledOn(u, d) : ~reports[i].emergency} = {}
    BY <1>4
  <2>3. Cardinality({}) = 0 /\ Limit \in Nat
    BY FS_EmptySet, SubmissionAssumption
  <2>4. quota[u][d] = Cardinality(FiledOn(u, d))
    BY <1>4, <2>3
  <2>5. Cardinality({i \in FiledOn(u, d) : ~reports[i].emergency}) <= Limit
    BY <2>2, <2>3
  <2> QED
    BY <2>4, <2>5
<1>7. OneAtATime /\ \A w \in Workers : Warranted(w)
  BY DEF Init, OneAtATime, Warranted, idle, Counting
<1> QED
  BY <1>2, <1>3, <1>5, <1>6, <1>7 DEF SubmissionInv

\* A step of one worker that leaves the reports and the counters alone, and
\* takes up no request, keeps the invariant when what the worker is left with
\* is warranted.
LEMMA RowsKept ==
  ASSUME SubmissionInv, NEW w \in Workers, job[w] # idle,
         NEW j \in {idle} \cup Jobs, j # idle => j.req = job[w].req,
         job' = [job EXCEPT ![w] = j],
         UNCHANGED <<reports, attribution, tokens, quota, alerts, clock, taken, history>>,
         audit' \subseteq AuditRow,
         Warranted(w)'
  PROVE  SubmissionInv'
<1>1. TypeOK' /\ (Len(filed) = Len(reports))'
  BY DEF SubmissionInv, TypeOK, history
<1>2. NeverOvercharged' /\ CountedExactly'
  <2>1. \A u, d : FiledOn(u, d)' = FiledOn(u, d) /\ OrdinaryOn(u, d)' = OrdinaryOn(u, d)
    BY DEF FiledOn, OrdinaryOn, history
  <2> QED
    BY <2>1 DEF SubmissionInv, NeverOvercharged, CountedExactly, OrdinaryOn, history
<1>3. \A v \in Workers : job'[v] = IF v = w THEN j ELSE job[v]
  BY DEF SubmissionInv, TypeOK
<1>4. OneAtATime'
  BY <1>3 DEF SubmissionInv, OneAtATime, history
<1>5. ASSUME NEW v \in Workers, v # w
      PROVE  Warranted(v)'
  <2>1. job'[v] = job[v] /\ Warranted(v)
    BY <1>3, <1>5 DEF SubmissionInv
  <2>2. FiledOn(job[v].req.user, DayOf(job[v].now))' = FiledOn(job[v].req.user, DayOf(job[v].now))
    BY <2>1 DEF FiledOn, DayOf, history
  <2>3. Counter(v)' = Counter(v)
    BY <2>1 DEF Counter, DayOf
  <2> QED
    BY <2>1, <2>2, <2>3 DEF Warranted, history
<1> QED
  BY <1>1, <1>2, <1>4, <1>5 DEF SubmissionInv

LEMMA RequestOver ==
  ASSUME SubmissionInv, NEW w \in Workers, job[w] # idle, Finish(w),
         UNCHANGED <<reports, attribution, tokens, quota, alerts, clock, taken, history>>,
         audit' \subseteq AuditRow
  PROVE  SubmissionInv'
<1>1. job' = [job EXCEPT ![w] = idle] /\ job'[w] = idle
  BY DEF Finish, SubmissionInv, TypeOK
<1>2. Warranted(w)'
  BY <1>1 DEF Warranted, idle, Counting
<1> QED
  BY <1>1, <1>2, RowsKept

\* Rolled back.
LEMMA DroppedStep ==
  ASSUME SubmissionInv, NEW w \in Workers, job[w] # idle, Dropped(w)
  PROVE  SubmissionInv'
<1>1. audit' \subseteq AuditRow
  BY DEF SubmissionInv, TypeOK, Dropped, stored
<1> QED
  BY <1>1, RequestOver DEF Dropped, stored
\* A new request makes its user overlapped when another of theirs is running.
LEMMA ReceiveStep ==
  ASSUME SubmissionInv, NEW w \in Workers, NEW r \in Request, Receive(w, r)
  PROVE  SubmissionInv'
<1> DEFINE j == [pc |-> "begun", req |-> r, at |-> clock, nth |-> taken + 1, now |-> 0, read |-> 0]
<1>1. TypeOK /\ 0 \in Times /\ taken + 1 \in 0 .. MaxRequests
  BY SubmissionAssumption DEF SubmissionInv, TypeOK, Receive, Times
<1>2. j \in Jobs /\ j.pc = "begun" /\ j.req = r /\ j # idle
  BY <1>1 DEF TypeOK, Jobs, idle
<1> HIDE DEF j
<1>3. /\ job' = [job EXCEPT ![w] = j] /\ job[w] = idle /\ taken' = taken + 1
      /\ UNCHANGED <<reports, attribution, tokens, quota, alerts, audit, clock, filed>>
      /\ overlapped' = IF Busy(r.user) = {} THEN overlapped ELSE overlapped \cup {r.user}
  BY DEF Receive, stored, j
<1>4. r.user \in Users
  BY DEF Request
<1>5. \A v \in Workers : job'[v] = IF v = w THEN j ELSE job[v]
  BY <1>1, <1>3 DEF TypeOK
<1>6. overlapped \subseteq overlapped' /\ overlapped' \subseteq Users
  BY <1>1, <1>3, <1>4 DEF TypeOK
<1>7. TypeOK' /\ (Len(filed) = Len(reports))'
  BY <1>1, <1>2, <1>3, <1>6 DEF SubmissionInv, TypeOK
<1>8. NeverOvercharged' /\ CountedExactly'
  <2>1. \A u, d : FiledOn(u, d)' = FiledOn(u, d) /\ OrdinaryOn(u, d)' = OrdinaryOn(u, d)
    BY <1>3 DEF FiledOn, OrdinaryOn
  <2>2. NeverOvercharged'
    BY <1>3, <2>1 DEF SubmissionInv, NeverOvercharged
  <2>3. \A u \in Users \ overlapped', d \in Days :
          /\ quota[u][d] = Cardinality(FiledOn(u, d))
          /\ Cardinality(OrdinaryOn(u, d)) <= Limit
    BY <1>6 DEF SubmissionInv, CountedExactly, OrdinaryOn
  <2>4. CountedExactly'
    BY <1>3, <2>1, <2>3 DEF CountedExactly, OrdinaryOn
  <2> QED
    BY <2>2, <2>4
<1>9. OneAtATime'
  <2>1. ASSUME NEW v \in Workers, v # w, job[v] # idle, job[v].req.user = r.user
        PROVE  r.user \in overlapped'
    BY <1>3, <2>1 DEF Busy
  <2> QED
    BY <1>2, <1>5, <1>6, <2>1 DEF SubmissionInv, OneAtATime
<1>10. ASSUME NEW v \in Workers
       PROVE  Warranted(v)'
  <2>1. CASE v = w
    BY <1>2, <1>5, <2>1 DEF Warranted, Counting
  <2>2. CASE v # w
    <3>1. job'[v] = job[v] /\ Warranted(v)
      BY <1>5, <2>2 DEF SubmissionInv
    <3>2. FiledOn(job[v].req.user, DayOf(job[v].now))' = FiledOn(job[v].req.user, DayOf(job[v].now))
      BY <1>3, <3>1 DEF FiledOn, DayOf
    <3>3. Counter(v)' = Counter(v)
      BY <1>3, <3>1 DEF Counter, DayOf
    <3> QED
      BY <1>6, <3>1, <3>2, <3>3 DEF Warranted
  <2> QED
    BY <2>1, <2>2
<1> QED
  BY <1>7, <1>8, <1>9, <1>10 DEF SubmissionInv

LEMMA TickStep ==
  ASSUME SubmissionInv, Tick
  PROVE  SubmissionInv'
<1>1. TypeOK' /\ (Len(filed) = Len(reports))'
  BY SubmissionAssumption DEF SubmissionInv, TypeOK, Tick, stored, history, Times
<1>2. NeverOvercharged' /\ CountedExactly'
  <2>1. \A u, d : FiledOn(u, d)' = FiledOn(u, d) /\ OrdinaryOn(u, d)' = OrdinaryOn(u, d)
    BY DEF FiledOn, OrdinaryOn, Tick, stored, history
  <2> QED
    BY <2>1 DEF SubmissionInv, NeverOvercharged, CountedExactly, OrdinaryOn, Tick, stored, history
<1>3. OneAtATime'
  BY DEF SubmissionInv, OneAtATime, Tick, history
<1>4. ASSUME NEW v \in Workers
      PROVE  Warranted(v)'
  <2>1. job' = job /\ quota' = quota /\ filed' = filed /\ overlapped' = overlapped /\ Warranted(v)
    BY DEF SubmissionInv, Tick, stored, history
  <2>2. FiledOn(job[v].req.user, DayOf(job[v].now))' = FiledOn(job[v].req.user, DayOf(job[v].now))
    BY <2>1 DEF FiledOn, DayOf
  <2>3. Counter(v)' = Counter(v)
    BY <2>1 DEF Counter, DayOf
  <2> QED
    BY <2>1, <2>2, <2>3 DEF Warranted
<1> QED
  BY <1>1, <1>2, <1>3, <1>4 DEF SubmissionInv

\* An ordinary report is admitted on the counter of the day it is stamped with.
LEMMA AdmitStep ==
  ASSUME SubmissionInv, NEW w \in Workers, AdmitReport(w) \/ AdmitSos(w)
  PROVE  SubmissionInv'
<1> DEFINE j == [job[w] EXCEPT !.pc = "admitted", !.now = clock]
<1>1. TypeOK /\ job[w] # idle /\ Admit(w)
  BY BusyWorker DEF SubmissionInv, AdmitReport, AdmitSos, At, Stages
<1>2. job[w] \in Jobs /\ clock \in Times /\ audit \subseteq AuditRow
  BY <1>1, JobFields DEF TypeOK
<1>3. j \in Jobs
  BY <1>2, JobUpdate DEF Stages
<1>4. j.pc = "admitted" /\ j.now = clock /\ j.req = job[w].req /\ j # idle
  BY <1>2 DEF Jobs, idle
<1> HIDE DEF j
<1>5. job' = [job EXCEPT ![w] = j] /\ job'[w] = j
      /\ UNCHANGED <<stored, clock, taken, history>>
  BY <1>1 DEF Admit, j, TypeOK
<1>6. job[w].req.emergency \/ quota[job[w].req.user][DayOf(clock)] < Limit
  <2>1. CASE AdmitReport(w)
    BY <2>1 DEF AdmitReport, QuotaLeft
  <2>2. CASE AdmitSos(w)
    <3>1. job[w].req \in Request /\ job[w].req.sos
      BY <1>1, <2>2, JobFields DEF AdmitSos
    <3> QED
      BY <3>1 DEF Request
  <2> QED
    BY <2>1, <2>2
<1>7. Counter(w)' = quota[job[w].req.user][DayOf(clock)]
  BY <1>4, <1>5 DEF Counter, stored, DayOf
<1>8. Warranted(w)'
  BY <1>4, <1>5, <1>6, <1>7 DEF Warranted, Counting
<1> QED
  BY <1>1, <1>2, <1>3, <1>4, <1>5, <1>8, RowsKept DEF stored

\* What is read is no more than what was filed, and is there still.
LEMMA ReadStep ==
  ASSUME SubmissionInv, NEW w \in Workers, ReadQuota(w)
  PROVE  SubmissionInv'
<1> DEFINE j == [job[w] EXCEPT !.pc = "counting", !.read = Counter(w)]
<1>1. TypeOK /\ job[w] # idle /\ Warranted(w) /\ job[w].pc = "admitted"
  BY BusyWorker DEF SubmissionInv, ReadQuota, At, Stages
<1>2. job[w] \in Jobs /\ job[w].req.user \in Users /\ DayOf(job[w].now) \in Days
  BY <1>1, JobFields
<1>3. Counter(w) \in Nat
  BY <1>1, <1>2 DEF Counter, TypeOK
<1>4. j \in Jobs
  <2>1. 0 \in Times /\ "counting" \in Stages
    BY SubmissionAssumption DEF Times, Stages, Counting
  <2> QED
    BY <1>2, <1>3, <2>1, JobUpdate
<1>5. j.pc = "counting" /\ j.read = Counter(w) /\ j.now = job[w].now
      /\ j.req = job[w].req /\ j # idle
  BY <1>2 DEF Jobs, idle
<1>6. Counter(w) <= Cardinality(FiledOn(job[w].req.user, DayOf(job[w].now)))
  BY <1>2 DEF SubmissionInv, NeverOvercharged, Counter
<1> HIDE DEF j
<1>7. job' = [job EXCEPT ![w] = j] /\ job'[w] = j
      /\ UNCHANGED <<stored, clock, taken, history>> /\ audit' \subseteq AuditRow
  BY <1>1 DEF ReadQuota, j, TypeOK, Counter, stored
<1>8. /\ Counter(w)' = Counter(w)
      /\ FiledOn(job[w].req.user, DayOf(job[w].now))' = FiledOn(job[w].req.user, DayOf(job[w].now))
  BY <1>5, <1>7 DEF Counter, FiledOn, DayOf, stored, history
<1>9. Warranted(w)'
  BY <1>1, <1>5, <1>6, <1>7, <1>8 DEF Warranted, history
<1> QED
  BY <1>1, <1>4, <1>5, <1>7, <1>9, RowsKept DEF stored

\* The stages after that leave the finding as it is.
LEMMA MoveOnStep ==
  ASSUME SubmissionInv, NEW w \in Workers, WriteQuota(w) \/ Assist(w)
  PROVE  SubmissionInv'
<1>1. TypeOK /\ job[w] # idle /\ Warranted(w) /\ job[w].pc \in Counting
  BY BusyWorker DEF SubmissionInv, WriteQuota, Assist, At, Stages, Counting
<1>2. PICK st \in Counting : MoveOn(w, st) /\ UNCHANGED <<stored, clock, taken, history>>
  BY DEF WriteQuota, Assist, Counting
<1> DEFINE j == [job[w] EXCEPT !.pc = st]
<1>3. job[w] \in Jobs /\ 0 \in Times
  BY <1>1, JobFields, SubmissionAssumption DEF Times
<1>4. j \in Jobs
  BY <1>3, JobUpdate DEF Stages
<1>5. j.pc = st /\ j.read = job[w].read /\ j.now = job[w].now /\ j.req = job[w].req /\ j # idle
  BY <1>3 DEF Jobs, idle, Counting
<1> HIDE DEF j
<1>6. job' = [job EXCEPT ![w] = j] /\ job'[w] = j /\ audit' \subseteq AuditRow
  BY <1>1, <1>2 DEF MoveOn, j, TypeOK, stored
<1>7. /\ Counter(w)' = Counter(w)
      /\ FiledOn(job[w].req.user, DayOf(job[w].now))' = FiledOn(job[w].req.user, DayOf(job[w].now))
  BY <1>2, <1>5, <1>6 DEF Counter, FiledOn, DayOf, stored, history
<1>8. Warranted(w)'
  BY <1>1, <1>2, <1>5, <1>6, <1>7 DEF Warranted, history, Counting
<1> QED
  BY <1>1, <1>2, <1>4, <1>5, <1>6, <1>8, RowsKept DEF stored

\* A repeated SOS is answered with the report that is there.
LEMMA AnswerStep ==
  ASSUME SubmissionInv, NEW w \in Workers, AnswerRepeat(w)
  PROVE  SubmissionInv'
<1>1. TypeOK /\ job[w] # idle
  BY BusyWorker DEF SubmissionInv, AnswerRepeat, At, Stages
<1>2. PICK i \in Recent(job[w].req.user) :
        audit' = audit \cup {[action |-> "emergency", about |-> i]}
  BY DEF AnswerRepeat
<1>3. i \in Nat
  BY <1>1, <1>2, LenProperties DEF Recent, TypeOK
<1>4. audit' \subseteq AuditRow
  BY <1>1, <1>2, <1>3 DEF TypeOK, AuditRow
<1> QED
  BY <1>1, <1>4, RequestOver DEF AnswerRepeat, history
-----------------------------------------------------------------------------
(* The commit                                                              *)

CommittedReport(w) ==
  [anonymous |-> job[w].req.anonymous, emergency |-> job[w].req.emergency,
   sos |-> job[w].req.sos, at |-> job[w].at, nth |-> job[w].nth]

\* What a commit adds: one report, one entry of the history.
LEMMA CommitRows ==
  ASSUME SubmissionInv, NEW w \in Workers, Commit(w)
  PROVE  LET n == Len(reports) + 1 IN
         /\ Len(filed) = Len(reports) /\ Len(reports) \in Nat
         /\ DOMAIN reports = 1 .. Len(reports) /\ DOMAIN filed = DOMAIN reports
         /\ reports' \in Seq(ReportRow) /\ filed' \in Seq([by: Users, now: Times])
         /\ Len(reports') = n /\ Len(filed') = n
         /\ DOMAIN reports' = 1 .. n /\ DOMAIN filed' = 1 .. n
         /\ reports'[n] = CommittedReport(w)
         /\ filed'[n].by = job[w].req.user /\ filed'[n].now = job[w].now
         /\ \A i \in 1 .. Len(reports) : reports'[i] = reports[i] /\ filed'[i] = filed[i]
<1> DEFINE f == [by |-> job[w].req.user, now |-> job[w].now]
<1>1. TypeOK /\ job[w] # idle
  BY BusyWorker DEF SubmissionInv, Commit, At, Stages, Counting
<1>2. job[w] \in Jobs /\ job[w].req \in Request /\ job[w].req.user \in Users /\ job[w].now \in Times
  BY <1>1, JobFields
<1>3. CommittedReport(w) \in ReportRow
  <2>1. job[w].req.anonymous \in BOOLEAN /\ job[w].req.emergency \in BOOLEAN
        /\ job[w].req.sos \in BOOLEAN
    BY <1>2 DEF Request
  <2>2. job[w].at \in Times /\ job[w].nth \in Nat
    BY <1>2 DEF Jobs
  <2> QED
    BY <2>1, <2>2 DEF CommittedReport, ReportRow
<1>4. f \in [by: Users, now: Times] /\ f.by = job[w].req.user /\ f.now = job[w].now
  BY <1>2
<1>5. reports' = Append(reports, CommittedReport(w)) /\ filed' = Append(filed, f)
  BY DEF Commit, CommittedReport
<1> HIDE DEF f
<1>6. Len(filed) = Len(reports) /\ reports \in Seq(ReportRow) /\ filed \in Seq([by: Users, now: Times])
  BY <1>1 DEF SubmissionInv, TypeOK
<1>7. Len(reports) \in Nat /\ DOMAIN reports = 1 .. Len(reports) /\ DOMAIN filed = DOMAIN reports
  BY <1>6, LenProperties
<1>8. /\ reports' \in Seq(ReportRow) /\ Len(reports') = Len(reports) + 1
      /\ DOMAIN reports' = 1 .. Len(reports) + 1
      /\ reports'[Len(reports) + 1] = CommittedReport(w)
      /\ \A i \in 1 .. Len(reports) : reports'[i] = reports[i]
  BY <1>3, <1>5, <1>6, AppendType
<1>9. /\ filed' \in Seq([by: Users, now: Times]) /\ Len(filed') = Len(filed) + 1
      /\ DOMAIN filed' = 1 .. Len(filed) + 1
      /\ filed'[Len(filed) + 1] = f
      /\ \A i \in 1 .. Len(filed) : filed'[i] = filed[i]
  BY <1>4, <1>5, <1>6, AppendType
<1> QED
  BY <1>4, <1>6, <1>7, <1>8, <1>9

\* The report is one more of its user and day, and of no other.
LEMMA CommitCounts ==
  ASSUME SubmissionInv, NEW w \in Workers, Commit(w), NEW u, NEW d
  PROVE  LET mine == u = job[w].req.user /\ d = DayOf(job[w].now)
             more(b) == IF b THEN 1 ELSE 0
         IN /\ Cardinality(FiledOn(u, d)) \in Nat /\ Cardinality(OrdinaryOn(u, d)) \in Nat
            /\ Cardinality(OrdinaryOn(u, d)) <= Cardinality(FiledOn(u, d))
            /\ Cardinality(FiledOn(u, d)') = Cardinality(FiledOn(u, d)) + more(mine)
            /\ Cardinality(OrdinaryOn(u, d)')
                 = Cardinality(OrdinaryOn(u, d)) + more(mine /\ ~job[w].req.emergency)
<1> DEFINE k == Len(reports)
           n == k + 1
           mine == u = job[w].req.user /\ d = DayOf(job[w].now)
<1>1. k \in Nat /\ DOMAIN filed = 1 .. k /\ DOMAIN filed' = 1 .. n
      /\ filed'[n].by = job[w].req.user /\ filed'[n].now = job[w].now
      /\ reports'[n] = CommittedReport(w)
      /\ \A i \in 1 .. k : reports'[i] = reports[i] /\ filed'[i] = filed[i]
  BY CommitRows
<1>2. reports'[n].emergency = job[w].req.emergency
  BY <1>1 DEF CommittedReport
<1> HIDE DEF k
<1>3. FiledOn(u, d) \subseteq 1 .. k /\ n \notin FiledOn(u, d)
  BY <1>1 DEF FiledOn
<1>4. FiledOn(u, d)' = IF mine THEN FiledOn(u, d) \cup {n} ELSE FiledOn(u, d)
  <2>1. \A i : i \in 1 .. n <=> i \in 1 .. k \/ i = n
    BY <1>1
  <2>2. \A i : i \in FiledOn(u, d)' <=> i \in FiledOn(u, d) \/ (i = n /\ mine)
    BY <1>1, <2>1 DEF FiledOn, DayOf
  <2> QED
    BY <2>2
<1>5. OrdinaryOn(u, d) \subseteq FiledOn(u, d) /\ n \notin OrdinaryOn(u, d)
  BY <1>3 DEF OrdinaryOn
<1>6. OrdinaryOn(u, d)' = IF mine /\ ~job[w].req.emergency THEN OrdinaryOn(u, d) \cup {n}
                          ELSE OrdinaryOn(u, d)
  <2>1. \A i \in FiledOn(u, d) : reports'[i] = reports[i]
    BY <1>1, <1>3
  <2>2. \A i : i \in OrdinaryOn(u, d)'
              <=> i \in OrdinaryOn(u, d) \/ (i = n /\ mine /\ ~job[w].req.emergency)
    BY <1>1, <1>2, <1>3, <1>4, <2>1 DEF OrdinaryOn
  <2> QED
    BY <2>2
<1>7. IsFiniteSet(FiledOn(u, d)) /\ IsFiniteSet(OrdinaryOn(u, d))
      /\ Cardinality(FiledOn(u, d)) \in Nat /\ Cardinality(OrdinaryOn(u, d)) \in Nat
      /\ Cardinality(OrdinaryOn(u, d)) <= Cardinality(FiledOn(u, d))
  BY <1>5, FiledFinite, FS_Subset, FS_CardinalityType DEF SubmissionInv
<1>8. /\ Cardinality(FiledOn(u, d) \cup {n}) = Cardinality(FiledOn(u, d)) + 1
      /\ Cardinality(OrdinaryOn(u, d) \cup {n}) = Cardinality(OrdinaryOn(u, d)) + 1
  BY <1>3, <1>5, <1>7, FS_AddElement
<1>9. Cardinality(FiledOn(u, d)') = Cardinality(FiledOn(u, d)) + IF mine THEN 1 ELSE 0
  BY <1>4, <1>7, <1>8
<1>10. Cardinality(OrdinaryOn(u, d)')
        = Cardinality(OrdinaryOn(u, d)) + IF mine /\ ~job[w].req.emergency THEN 1 ELSE 0
  BY <1>6, <1>7, <1>8
<1> QED
  BY <1>7, <1>9, <1>10
\* The report and what belongs to it are well typed.
LEMMA CommitType ==
  ASSUME SubmissionInv, NEW w \in Workers, Commit(w)
  PROVE  TypeOK'
<1> DEFINE n == Len(reports) + 1
           r == job[w].req
<1>1. TypeOK /\ job[w] # idle
  BY BusyWorker DEF SubmissionInv, Commit, At, Stages, Counting
<1>2. r.user \in Users /\ DayOf(job[w].now) \in Days /\ job[w].read \in Nat
  BY <1>1, JobFields DEF Jobs
<1>3. n \in Nat /\ DOMAIN reports' = 1 .. n /\ DOMAIN reports = 1 .. Len(reports)
  BY CommitRows
<1>4. n \in DOMAIN reports' /\ DOMAIN reports \subseteq DOMAIN reports'
  BY <1>3, CommitRows
<1> HIDE DEF n, r
<1>5. Identify(r, n) /\ notify_emergency(r, n) /\ CountReport(w)
      /\ audit' = audit \cup {[action |-> IF r.sos THEN "emergency" ELSE "create", about |-> n]}
      /\ job' = [job EXCEPT ![w] = idle] /\ UNCHANGED <<clock, taken, overlapped>>
  BY DEF Commit, Finish, n, r
<1>6. attribution' \subseteq (DOMAIN reports') \X Users /\ tokens' \subseteq DOMAIN reports'
  BY <1>1, <1>2, <1>4, <1>5 DEF Identify, TypeOK, r
<1>7. alerts' \subseteq Responders \X DOMAIN reports'
  BY <1>1, <1>4, <1>5 DEF notify_emergency, TypeOK
<1>8. audit' \subseteq AuditRow
  BY <1>1, <1>3, <1>5 DEF TypeOK, AuditRow
<1>9. quota' \in [Users -> [Days -> Nat]]
  <2>1. [quota[job[w].req.user] EXCEPT ![DayOf(job[w].now)] = job[w].read + 1] \in [Days -> Nat]
    BY <1>1, <1>2 DEF TypeOK, r
  <2> QED
    BY <1>1, <1>2, <1>5, <2>1 DEF CountReport, TypeOK, r
<1>10. job' \in [Workers -> {idle} \cup Jobs]
  BY <1>1, <1>5 DEF TypeOK
<1> QED
  BY <1>1, <1>5, <1>6, <1>7, <1>8, <1>9, <1>10, CommitRows DEF TypeOK

LEMMA CommitStep ==
  ASSUME SubmissionInv, NEW w \in Workers, Commit(w)
  PROVE  SubmissionInv'
<1> DEFINE user == job[w].req.user
           day == DayOf(job[w].now)
<1>1. TypeOK /\ job[w] # idle /\ Warranted(w) /\ job[w].pc \in Counting
      /\ job[w].pc # "begun"
  BY BusyWorker DEF SubmissionInv, Commit, At, Stages, Counting
<1>2. user \in Users /\ day \in Days /\ job[w].read \in Nat
  BY <1>1, JobFields DEF Jobs
<1>3. /\ quota' = [quota EXCEPT ![user][day] = job[w].read + 1]
      /\ job' = [job EXCEPT ![w] = idle]
      /\ overlapped' = overlapped
  BY DEF Commit, CountReport, Finish
<1>4. \A u \in Users, d \in Days :
        quota'[u][d] = IF u = user /\ d = day THEN job[w].read + 1 ELSE quota[u][d]
  BY <1>1, <1>2, <1>3 DEF TypeOK
<1>5. \A v \in Workers : job'[v] = IF v = w THEN idle ELSE job[v]
  BY <1>1, <1>3 DEF TypeOK
<1>6. /\ job[w].read <= Cardinality(FiledOn(user, day))
      /\ user \notin overlapped =>
           /\ job[w].read = quota[user][day]
           /\ ~job[w].req.emergency => quota[user][day] < Limit
  BY <1>1 DEF Warranted, Counter
<1>7. \A u \in Users, d \in Days : quota[u][d] \in Nat
  BY <1>1 DEF TypeOK
<1>8. NeverOvercharged'
  <2>1. ASSUME NEW u \in Users, NEW d \in Days
        PROVE  quota'[u][d] <= Cardinality(FiledOn(u, d)')
    <3>1. quota[u][d] <= Cardinality(FiledOn(u, d))
      BY DEF SubmissionInv, NeverOvercharged
    <3>2. CASE u = user /\ d = day
      BY <1>2, <1>4, <1>6, <3>2, CommitCounts
    <3>3. CASE ~(u = user /\ d = day)
      BY <1>4, <3>1, <3>3, CommitCounts
    <3> QED
      BY <3>2, <3>3
  <2> QED
    BY <2>1 DEF NeverOvercharged
<1>9. CountedExactly'
  <2>1. ASSUME NEW u \in Users \ overlapped, NEW d \in Days
        PROVE  /\ quota'[u][d] = Cardinality(FiledOn(u, d)')
               /\ Cardinality(OrdinaryOn(u, d)') <= Limit
    <3>1. quota[u][d] = Cardinality(FiledOn(u, d)) /\ Cardinality(OrdinaryOn(u, d)) <= Limit
      BY DEF SubmissionInv, CountedExactly, OrdinaryOn
    <3>2. Limit \in Nat
      BY SubmissionAssumption
    <3>3. CASE u = user /\ d = day
      <4>1. /\ Cardinality(FiledOn(u, d)) \in Nat /\ Cardinality(OrdinaryOn(u, d)) \in Nat
            /\ Cardinality(OrdinaryOn(u, d)) <= Cardinality(FiledOn(u, d))
            /\ Cardinality(FiledOn(u, d)') = Cardinality(FiledOn(u, d)) + 1
        BY <3>3, CommitCounts
      <4>2. quota'[u][d] = Cardinality(FiledOn(u, d)')
        BY <1>4, <1>6, <3>1, <3>3, <4>1
      <4>3. CASE job[w].req.emergency
        <5>1. Cardinality(OrdinaryOn(u, d)') = Cardinality(OrdinaryOn(u, d)) + 0
          BY <4>3, CommitCounts
        <5> QED
          BY <3>1, <4>1, <4>2, <5>1
      <4>4. CASE ~job[w].req.emergency
        <5>1. Cardinality(OrdinaryOn(u, d)') = Cardinality(OrdinaryOn(u, d)) + 1
          BY <3>3, <4>4, CommitCounts
        <5>2. Cardinality(FiledOn(u, d)) < Limit
          BY <1>6, <3>1, <3>3, <4>4
        <5> QED
          BY <3>2, <4>1, <4>2, <5>1, <5>2
      <4> QED
        BY <4>2, <4>3, <4>4
    <3>4. CASE ~(u = user /\ d = day)
      BY <1>4, <3>1, <3>4, CommitCounts
    <3> QED
      BY <3>3, <3>4
  <2> QED
    BY <1>3, <2>1 DEF CountedExactly, OrdinaryOn
<1>10. OneAtATime'
  BY <1>3, <1>5 DEF SubmissionInv, OneAtATime
<1>11. ASSUME NEW v \in Workers
       PROVE  Warranted(v)'
  <2>1. CASE v = w
    BY <1>5, <2>1 DEF Warranted, idle, Counting
  <2>2. CASE v # w /\ job[v] = idle
    BY <1>5, <2>2 DEF Warranted, idle, Counting
  <2>3. CASE v # w /\ job[v] # idle
    <3>1. job'[v] = job[v] /\ Warranted(v)
      BY <1>5, <2>3 DEF SubmissionInv
    <3>2. PICK u \in Users, d \in Days : u = job[v].req.user /\ d = DayOf(job[v].now)
      BY <1>1, <2>3, JobFields
    <3>3. u \notin overlapped => u # user
      BY <1>1, <2>3, <3>2 DEF SubmissionInv, OneAtATime
    <3>4. u \notin overlapped => Counter(v)' = Counter(v)
      BY <1>4, <3>1, <3>2, <3>3 DEF Counter, DayOf
    <3>5. /\ Cardinality(FiledOn(u, d)) \in Nat
          /\ \/ Cardinality(FiledOn(u, d)') = Cardinality(FiledOn(u, d))
             \/ Cardinality(FiledOn(u, d)') = Cardinality(FiledOn(u, d)) + 1
      BY CommitCounts
    <3>6. job[v].read \in Nat
      BY <1>1, <2>3, JobFields DEF Jobs
    <3>7. FiledOn(job[v].req.user, DayOf(job[v].now))' = FiledOn(u, d)'
      BY <3>1, <3>2 DEF FiledOn, DayOf
    <3>8. job[v].pc \in Counting => job[v].read <= Cardinality(FiledOn(u, d)')
      BY <3>1, <3>2, <3>5, <3>6 DEF Warranted
    <3>9. job'[v] # idle /\ job'[v].req.user \notin overlapped' =>
            /\ job'[v].pc \in Counting => job'[v].read = Counter(v)'
            /\ job'[v].pc # "begun" /\ ~job'[v].req.emergency => Counter(v)' < Limit
      BY <1>3, <3>1, <3>2, <3>4 DEF Warranted
    <3> QED
      BY <3>1, <3>7, <3>8, <3>9 DEF Warranted
  <2> QED
    BY <2>1, <2>2, <2>3
<1>12. (Len(filed) = Len(reports))'
  BY CommitRows
<1> QED
  BY <1>8, <1>9, <1>10, <1>11, <1>12, CommitType DEF SubmissionInv
-----------------------------------------------------------------------------
LEMMA SubmissionStep == SubmissionInv /\ [Next]_vars => SubmissionInv'
<1> SUFFICES ASSUME SubmissionInv, [Next]_vars
             PROVE  SubmissionInv'
  OBVIOUS
<1>1. ASSUME NEW w \in Workers, NEW r \in Request, Receive(w, r)
      PROVE  SubmissionInv'
  BY <1>1, ReceiveStep
<1>2. ASSUME NEW w \in Workers, AdmitReport(w) \/ AdmitSos(w)
      PROVE  SubmissionInv'
  BY <1>2, AdmitStep
<1>3. ASSUME NEW w \in Workers, AnswerRepeat(w)
      PROVE  SubmissionInv'
  BY <1>3, AnswerStep
<1>4. ASSUME NEW w \in Workers, ReadQuota(w)
      PROVE  SubmissionInv'
  BY <1>4, ReadStep
<1>5. ASSUME NEW w \in Workers, WriteQuota(w) \/ Assist(w)
      PROVE  SubmissionInv'
  BY <1>5, MoveOnStep
<1>6. ASSUME NEW w \in Workers, Commit(w)
      PROVE  SubmissionInv'
  BY <1>6, CommitStep
<1>7. ASSUME NEW w \in Workers,
             \/ RefuseBody(w) \/ RefuseQuota(w) \/ Reject(w) \/ RefuseLateSos(w)
             \/ ConflictingQuota(w) \/ AssistAborts(w) \/ Crash(w)
      PROVE  SubmissionInv'
  <2>1. Dropped(w) /\ job[w] # idle
    BY <1>7, BusyWorker DEF RefuseBody, RefuseQuota, Reject, RefuseLateSos, ConflictingQuota, AssistAborts,
                            Crash, At, Stages, Counting
  <2> QED
    BY <2>1, DroppedStep
<1>8. ASSUME Tick
      PROVE  SubmissionInv'
  BY <1>8, TickStep
<1>9. CASE UNCHANGED vars
  <2>1. \A u, d : FiledOn(u, d)' = FiledOn(u, d) /\ OrdinaryOn(u, d)' = OrdinaryOn(u, d)
    BY <1>9 DEF FiledOn, OrdinaryOn, vars, stored, history
  <2>2. TypeOK' /\ (Len(filed) = Len(reports))' /\ OneAtATime'
    BY <1>9 DEF SubmissionInv, TypeOK, OneAtATime, vars, stored, history
  <2>3. NeverOvercharged' /\ CountedExactly'
    BY <1>9, <2>1 DEF SubmissionInv, NeverOvercharged, CountedExactly, OrdinaryOn,
                      vars, stored, history
  <2>4. ASSUME NEW v \in Workers
        PROVE  Warranted(v)'
    <3>1. job' = job /\ quota' = quota /\ filed' = filed /\ overlapped' = overlapped
          /\ Warranted(v)
      BY <1>9 DEF SubmissionInv, vars, stored, history
    <3>2. FiledOn(job[v].req.user, DayOf(job[v].now))' = FiledOn(job[v].req.user, DayOf(job[v].now))
      BY <3>1 DEF FiledOn, DayOf
    <3>3. Counter(v)' = Counter(v)
      BY <3>1 DEF Counter, DayOf
    <3> QED
      BY <3>1, <3>2, <3>3 DEF Warranted
  <2> QED
    BY <2>2, <2>3, <2>4 DEF SubmissionInv
<1> QED
  BY <1>1, <1>2, <1>3, <1>4, <1>5, <1>6, <1>7, <1>8, <1>9 DEF Next

LEMMA SubmissionInvariant == Spec => []SubmissionInv
BY SubmissionInit, SubmissionStep, PTL DEF Spec

\* Rows, counters, access log and submissions in flight keep their types.
THEOREM TypeCorrect == Spec => []TypeOK
<1>1. SubmissionInv => TypeOK
  BY DEF SubmissionInv
<1> QED
  BY <1>1, SubmissionInvariant, PTL

\* Whatever fails, crashes or overlaps, nobody's counter exceeds what they filed.
THEOREM NobodyOvercharged == Spec => []NeverOvercharged
<1>1. SubmissionInv => NeverOvercharged
  BY DEF SubmissionInv
<1> QED
  BY <1>1, SubmissionInvariant, PTL

\* A user whose requests never overlapped is counted exactly and held to the
\* limit, whatever everybody else does at the same time.
THEOREM QuotaExactAlone == Spec => []CountedExactly
<1>1. SubmissionInv => CountedExactly
  BY DEF SubmissionInv
<1> QED
  BY <1>1, SubmissionInvariant, PTL

-----------------------------------------------------------------------------
(* All or nothing                                                          *)

\* CompleteOrAbsent, of report i.
CompleteAt(i) ==
  /\ (i \in tokens) = reports[i].anonymous
  /\ {u \in Users : <<i, u>> \in attribution}
       = IF reports[i].anonymous THEN {} ELSE {filed[i].by}
  /\ [action |-> IF reports[i].sos THEN "emergency" ELSE "create", about |-> i] \in audit
  /\ {p \in alerts : p[2] = i} = IF reports[i].sos THEN Responders \X {i} ELSE {}

LEMMA CommitIsComplete ==
  ASSUME SubmissionInv, CompleteOrAbsent, NEW w \in Workers, Commit(w)
  PROVE  CompleteOrAbsent'
<1>0. PICK k \in Nat : k = Len(reports)
  BY CommitRows
<1> DEFINE n == k + 1
           r == job[w].req
<1>1. TypeOK /\ job[w] # idle
  BY BusyWorker DEF SubmissionInv, Commit, At, Stages, Counting
<1>2. r \in Request /\ r.user \in Users /\ r.anonymous \in BOOLEAN
  BY <1>1, JobFields DEF Request
<1>3. /\ k \in Nat /\ DOMAIN reports = 1 .. k /\ DOMAIN reports' = 1 .. n
      /\ reports'[n] = CommittedReport(w) /\ filed'[n].by = r.user
      /\ \A i \in 1 .. k : reports'[i] = reports[i] /\ filed'[i] = filed[i]
  BY <1>0, CommitRows
<1>4. reports'[n].anonymous = r.anonymous /\ reports'[n].sos = r.sos
  BY <1>3 DEF CommittedReport
<1>5. Identify(r, n) /\ notify_emergency(r, n)
      /\ audit' = audit \cup {[action |-> IF r.sos THEN "emergency" ELSE "create", about |-> n]}
  BY <1>0 DEF Commit
<1> HIDE DEF r
<1>6. \A i \in 1 .. n : i \in 1 .. k \/ i = n
  BY <1>3
<1>7. n \notin 1 .. k
  BY <1>3
<1>8. n \notin tokens /\ (\A u : <<n, u>> \notin attribution) /\ (\A p \in alerts : p[2] # n)
  BY <1>1, <1>3, <1>7 DEF TypeOK
<1>9. ASSUME NEW i \in 1 .. k
      PROVE  CompleteAt(i)'
  <2>1. CompleteAt(i) /\ reports'[i] = reports[i] /\ filed'[i] = filed[i] /\ i # n
    BY <1>3, <1>7 DEF CompleteOrAbsent, CompleteAt
  <2>2. (i \in tokens' <=> i \in tokens)
        /\ \A u : <<i, u>> \in attribution' <=> <<i, u>> \in attribution
    BY <1>5, <2>1 DEF Identify
  <2>3. {p \in alerts' : p[2] = i} = {p \in alerts : p[2] = i}
    BY <1>5, <2>1 DEF notify_emergency
  <2> QED
    BY <1>5, <2>1, <2>2, <2>3 DEF CompleteAt
<1>10. CompleteAt(n)'
  <2>1. (n \in tokens') = r.anonymous
    BY <1>2, <1>5, <1>8 DEF Identify
  <2>2. {u \in Users : <<n, u>> \in attribution'} = IF r.anonymous THEN {} ELSE {r.user}
    BY <1>2, <1>5, <1>8 DEF Identify
  <2>3. {p \in alerts' : p[2] = n} = IF r.sos THEN Responders \X {n} ELSE {}
    BY <1>5, <1>8 DEF notify_emergency
  <2> QED
    BY <1>3, <1>4, <1>5, <2>1, <2>2, <2>3 DEF CompleteAt
<1> QED
  <2>1. \A i \in 1 .. n : CompleteAt(i)'
    BY <1>6, <1>9, <1>10
  <2> QED
    BY <1>3, <2>1 DEF CompleteOrAbsent, CompleteAt

\* A report is committed with everything that belongs to it or not at all.
THEOREM AllOrNothing == Spec => []CompleteOrAbsent
<1>1. Init => CompleteOrAbsent
  BY DEF Init, CompleteOrAbsent
<1>2. ASSUME SubmissionInv, CompleteOrAbsent, [Next]_vars
      PROVE  CompleteOrAbsent'
  <2>1. ASSUME NEW w \in Workers, Commit(w)
        PROVE  CompleteOrAbsent'
    BY <1>2, <2>1, CommitIsComplete
  <2>2. CASE UNCHANGED <<reports, attribution, tokens, alerts, filed>> /\ audit \subseteq audit'
    BY <1>2, <2>2 DEF CompleteOrAbsent
  <2>3. Next => \/ \E w \in Workers : Commit(w)
                \/ UNCHANGED <<reports, attribution, tokens, alerts, filed>> /\ audit \subseteq audit'
    BY DEF Next, Receive, RefuseBody, AdmitReport, RefuseQuota, AdmitSos, AnswerRepeat, Reject, RefuseLateSos,
           ReadQuota, WriteQuota, ConflictingQuota, Assist, AssistAborts, Crash, Tick, Admit,
           Dropped, stored, history
  <2> QED
    BY <1>2, <2>1, <2>2, <2>3 DEF vars, stored, history
<1> QED
  BY <1>1, <1>2, SubmissionInvariant, PTL DEF Spec

-----------------------------------------------------------------------------
(* One SOS per window.  The check looks at the latest report under the       *)
(* user's name alone, so what it proves of that one has to carry over to     *)
(* the SOS reports before it: while a user's requests do not overlap their   *)
(* reports are committed in the order in which they began.                   *)

Mine(u) == {i \in DOMAIN reports : filed[i].by = u}

\* What excuses an SOS that comes within the window of report i.
Since(i, u) ==
  \E k \in DOMAIN reports : k > i /\ <<k, u>> \in attribution /\ ~reports[k].emergency

Pressed(w) ==
  /\ job[w].nth <= taken /\ job[w].at <= clock
  /\ \A u \in Users \ overlapped : u = job[w].req.user =>
       /\ \A i \in Mine(u) : reports[i].nth < job[w].nth /\ reports[i].at <= job[w].at
       /\ job[w].pc # "begun" /\ job[w].req.sos =>
            \A i \in Mine(u) :
              reports[i].sos => job[w].now - reports[i].at >= Window \/ Since(i, u)

InTurn ==
  \A u \in Users \ overlapped : \A i, j \in Mine(u) :
    i < j => reports[i].nth < reports[j].nth /\ reports[i].at <= reports[j].at

SosInv ==
  /\ \A i \in DOMAIN reports :
       /\ reports[i].nth <= taken /\ reports[i].at <= clock
       /\ reports[i].sos => reports[i].emergency /\ ~reports[i].anonymous
  /\ \A u \in Users, i \in DOMAIN reports : <<i, u>> \in attribution => Recent(u) # {}
  /\ InTurn
  /\ \A w \in Workers : job[w] # idle => Pressed(w)
  /\ SosOncePerWindow

\* Times and ranks are numbers.
LEMMA Numbers ==
  ASSUME TypeOK
  PROVE  /\ clock \in Nat /\ taken \in Nat /\ Window \in Nat
         /\ DOMAIN reports = 1 .. Len(reports) /\ Len(reports) \in Nat
         /\ \A i \in DOMAIN reports : reports[i].nth \in Nat /\ reports[i].at \in Nat
         /\ \A w \in Workers : job[w] # idle =>
              job[w].nth \in Nat /\ job[w].at \in Nat /\ job[w].now \in Nat
<1>1. MaxTime \in Nat /\ MaxRequests \in Nat /\ Window \in Nat
  BY SubmissionAssumption
<1>2. \A i \in DOMAIN reports : reports[i] \in ReportRow
  BY DEF TypeOK
<1>3. \A w \in Workers : job[w] # idle => job[w] \in Jobs
  BY DEF TypeOK
<1>4. DOMAIN reports = 1 .. Len(reports) /\ Len(reports) \in Nat
  BY LenProperties DEF TypeOK
<1>5. \A t \in Times : t \in Nat
  BY <1>1 DEF Times
<1> QED
  BY <1>1, <1>2, <1>3, <1>4, <1>5 DEF TypeOK, ReportRow, Jobs

\* A step that commits nothing.
Still ==
  /\ UNCHANGED <<reports, attribution, filed>>
  /\ clock' \in {clock, clock + 1} /\ taken' \in {taken, taken + 1}
  /\ overlapped \subseteq overlapped'

\* It leaves what a worker may count on to a worker that goes on as it was.
LEMMA PressedStill ==
  ASSUME TypeOK, Still, NEW w \in Workers, job[w] # idle, Pressed(w),
         job'[w].req = job[w].req, job'[w].at = job[w].at, job'[w].nth = job[w].nth,
         \/ ~job[w].req.sos
         \/ job'[w].now = job[w].now /\ (job'[w].pc = "begun" \/ job[w].pc # "begun")
  PROVE  Pressed(w)'
<1>1. /\ \A u : Mine(u)' = Mine(u) /\ \A i : Since(i, u)' = Since(i, u)
      /\ \A u : Mine(u) \subseteq DOMAIN reports
  BY DEF Still, Mine, Since
<1>2. job[w].nth <= taken' /\ job[w].at <= clock'
  <2>1. /\ clock \in Nat /\ taken \in Nat /\ job[w].nth \in Nat /\ job[w].at \in Nat
        /\ job[w].nth <= taken /\ job[w].at <= clock
    BY Numbers DEF Pressed
  <2> QED
    BY <2>1 DEF Still
<1>3. ASSUME NEW u \in Users \ overlapped', u = job'[w].req.user
      PROVE  /\ \A i \in Mine(u)' : reports'[i].nth < job'[w].nth /\ reports'[i].at <= job'[w].at
             /\ job'[w].pc # "begun" /\ job'[w].req.sos =>
                  \A i \in Mine(u)' :
                    reports'[i].sos => job'[w].now - reports'[i].at >= Window \/ Since(i, u)'
  <2>1. u \in Users \ overlapped /\ u = job[w].req.user /\ reports' = reports
    BY <1>3 DEF Still
  <2>2. Mine(u)' = Mine(u) /\ \A i : Since(i, u)' = Since(i, u)
    BY <1>1
  <2>3. \A i \in Mine(u) : reports[i].nth < job[w].nth /\ reports[i].at <= job[w].at
    BY <2>1 DEF Pressed
  <2>4. job[w].pc # "begun" /\ job[w].req.sos =>
          \A i \in Mine(u) : reports[i].sos => job[w].now - reports[i].at >= Window \/ Since(i, u)
    BY <2>1 DEF Pressed
  <2> QED
    BY <2>1, <2>2, <2>3, <2>4
<1> QED
  BY <1>2, <1>3 DEF Pressed

LEMMA RowsStill ==
  ASSUME TypeOK, SosInv, Still,
         \A w \in Workers : job'[w] # idle => Pressed(w)'
  PROVE  SosInv'
<1>1. \A u : Mine(u)' = Mine(u) /\ Recent(u)' = Recent(u)
  BY DEF Still, Mine, Recent
<1>2. /\ clock \in Nat /\ taken \in Nat
      /\ \A i \in DOMAIN reports : reports[i].nth \in Nat /\ reports[i].at \in Nat
  BY Numbers
<1>3. \A i \in DOMAIN reports' : reports'[i].nth <= taken' /\ reports'[i].at <= clock'
  BY <1>2 DEF SosInv, Still
<1>4. InTurn'
  BY <1>1 DEF SosInv, InTurn, Still
<1>5. SosOncePerWindow'
  BY DEF SosInv, SosOncePerWindow, Still
<1> QED
  BY <1>1, <1>3, <1>4, <1>5 DEF SosInv, Still

\* A press that is admitted comes a window after the latest report under its
\* user's name, or that report is no emergency.
LEMMA AdmittedPress ==
  ASSUME TypeOK, CompleteOrAbsent, SosInv, NEW u \in Users \ overlapped,
         \A i \in Recent(u) : ~Repeat(i),
         NEW i \in Mine(u), reports[i].sos
  PROVE  clock - reports[i].at >= Window \/ Since(i, u)
<1>1. /\ clock \in Nat /\ Window \in Nat
      /\ \A k \in DOMAIN reports : reports[k].nth \in Nat /\ reports[k].at \in Nat
      /\ DOMAIN reports \subseteq Nat
  BY Numbers
<1>2. reports[i].emergency /\ ~reports[i].anonymous /\ i \in DOMAIN reports
  BY DEF SosInv, Mine
<1>3. <<i, u>> \in attribution
  BY <1>2 DEF CompleteOrAbsent, Mine
<1>4. PICK m \in Recent(u) : TRUE
  BY <1>2, <1>3 DEF SosInv
<1>5. /\ m \in DOMAIN reports /\ <<m, u>> \in attribution
      /\ reports[i].nth <= reports[m].nth
  BY <1>2, <1>3, <1>4 DEF Recent
<1>6. m \in Mine(u)
  <2>1. u \in {v \in Users : <<m, v>> \in attribution}
    BY <1>5
  <2>2. {v \in Users : <<m, v>> \in attribution}
          = IF reports[m].anonymous THEN {} ELSE {filed[m].by}
    BY <1>5 DEF CompleteOrAbsent
  <2>3. filed[m].by = u
    BY <2>1, <2>2
  <2> QED
    BY <1>5, <2>3 DEF Mine
<1>7. ~(m < i)
  BY <1>1, <1>2, <1>5, <1>6 DEF SosInv, InTurn
<1>8. ~reports[m].emergency \/ clock - reports[m].at >= Window
  BY <1>1, <1>4, <1>5 DEF Repeat
<1>9. CASE m = i
  BY <1>2, <1>8, <1>9
<1>10. CASE m # i
  <2>1. i < m
    BY <1>1, <1>2, <1>5, <1>7, <1>10
  <2>2. reports[i].at <= reports[m].at
    BY <1>6, <2>1 DEF SosInv, InTurn
  <2>3. CASE ~reports[m].emergency
    BY <1>5, <2>1, <2>3 DEF Since
  <2>4. CASE clock - reports[m].at >= Window
    BY <1>1, <1>2, <1>5, <2>2, <2>4
  <2> QED
    BY <1>8, <2>3, <2>4
<1> QED
  BY <1>9, <1>10

\* The commit of a request adds the report the request was warranted for.
LEMMA CommitPress ==
  ASSUME SubmissionInv, SosInv, NEW w \in Workers, Commit(w)
  PROVE  SosInv'
<1>0. PICK k \in Nat : k = Len(reports)
  BY CommitRows
<1> DEFINE n == k + 1
           r == job[w].req
           u == job[w].req.user
<1>1. TypeOK /\ job[w] # idle /\ job[w].pc # "begun" /\ Pressed(w)
  BY BusyWorker DEF SubmissionInv, SosInv, Commit, At, Stages, Counting
<1>2. r \in Request /\ u \in Users
  BY <1>1, JobFields
<1>3. /\ DOMAIN reports = 1 .. k /\ DOMAIN reports' = 1 .. n
      /\ reports'[n] = CommittedReport(w) /\ filed'[n].by = u /\ filed'[n].now = job[w].now
      /\ \A i \in 1 .. k : reports'[i] = reports[i] /\ filed'[i] = filed[i]
  BY <1>0, CommitRows
<1>4. /\ reports'[n].anonymous = r.anonymous /\ reports'[n].emergency = r.emergency
      /\ reports'[n].sos = r.sos /\ reports'[n].at = job[w].at /\ reports'[n].nth = job[w].nth
  BY <1>3 DEF CommittedReport
<1>5. r.sos => r.emergency /\ ~r.anonymous
  BY <1>2 DEF Request
<1>6. /\ attribution' = IF r.anonymous THEN attribution ELSE attribution \cup {<<n, u>>}
      /\ UNCHANGED <<clock, taken, overlapped>>
  BY <1>0 DEF Commit, Identify
<1>7. \A v \in Workers : job'[v] = IF v = w THEN idle ELSE job[v]
  BY <1>1 DEF Commit, Finish, TypeOK
<1>8. /\ clock \in Nat /\ taken \in Nat /\ Window \in Nat
      /\ \A i \in 1 .. k : reports[i].nth \in Nat /\ reports[i].at \in Nat
      /\ \A v \in Workers : job[v] # idle =>
           job[v].nth \in Nat /\ job[v].at \in Nat /\ job[v].now \in Nat
  BY <1>1, <1>3, Numbers
<1> HIDE DEF r, u
<1>9. \A i \in 1 .. n : i \in 1 .. k \/ i = n
  OBVIOUS
<1>10. \A x \in Users : Mine(x)' = IF x = u THEN Mine(x) \cup {n} ELSE Mine(x)
  BY <1>3, <1>9 DEF Mine
<1>11. \A i, x : Since(i, x) => Since(i, x)'
  BY <1>3, <1>6 DEF Since
<1>12. \A x : Mine(x) \subseteq 1 .. k
  BY <1>3 DEF Mine
<1>13. \A i \in DOMAIN reports' :
         /\ reports'[i].nth <= taken' /\ reports'[i].at <= clock'
         /\ reports'[i].sos => reports'[i].emergency /\ ~reports'[i].anonymous
  BY <1>1, <1>3, <1>4, <1>5, <1>6, <1>9 DEF SosInv, Pressed
<1>14. ASSUME NEW x \in Users, NEW i \in DOMAIN reports', <<i, x>> \in attribution'
       PROVE  Recent(x)' # {}
  <2> DEFINE own == {j \in DOMAIN reports : <<j, x>> \in attribution}
  <2>1. n \notin DOMAIN reports /\ \A j \in 1 .. k : j # n
    BY <1>3
  <2>2. \A y : <<n, y>> \notin attribution
    BY <1>1, <2>1 DEF TypeOK
  <2>3. \A j \in 1 .. k : <<j, x>> \in attribution' <=> <<j, x>> \in attribution
    BY <1>6, <2>1
  <2>4. CASE <<n, x>> \in attribution'
    <3>1. CASE own = {}
      <4>1. n \in Recent(x)'
        BY <1>3, <1>9, <2>3, <2>4, <3>1, <1>4, <1>8, <1>1 DEF Recent
      <4> QED
        BY <4>1
    <3>2. CASE own # {}
      <4>1. PICK m \in Recent(x) : TRUE
        BY <3>2 DEF SosInv
      <4>2. m \in 1 .. k /\ <<m, x>> \in attribution
            /\ \A j \in own : reports[j].nth <= reports[m].nth
        BY <1>3, <4>1 DEF Recent
      <4>3. reports[m].nth \in Nat /\ job[w].nth \in Nat
        BY <1>1, <1>8, <4>2
      <4>4. CASE reports[m].nth <= job[w].nth
        <5>1. ASSUME NEW j \in 1 .. n, <<j, x>> \in attribution'
              PROVE  reports'[j].nth <= reports'[n].nth
          <6>1. CASE j = n
            BY <1>4, <4>3, <6>1
          <6>2. CASE j \in 1 .. k
            <7>1. reports[j].nth <= reports[m].nth /\ reports[j].nth \in Nat
              BY <1>3, <1>8, <2>3, <4>2, <5>1, <6>2
            <7>2. reports'[j].nth = reports[j].nth /\ reports'[n].nth = job[w].nth
              BY <1>3, <1>4, <6>2
            <7> QED
              BY <4>3, <4>4, <7>1, <7>2
          <6> QED
            BY <1>9, <6>1, <6>2
        <5> QED
          BY <1>3, <2>4, <5>1 DEF Recent
      <4>5. CASE job[w].nth <= reports[m].nth
        <5>1. \A j \in 1 .. n : <<j, x>> \in attribution' => reports'[j].nth <= reports'[m].nth
          BY <1>3, <1>4, <1>9, <2>3, <4>2, <4>5
        <5>2. m \in 1 .. n
          BY <4>2
        <5> QED
          BY <1>3, <2>3, <4>2, <5>1, <5>2 DEF Recent
      <4> QED
        BY <4>3, <4>4, <4>5
    <3> QED
      BY <3>1, <3>2
  <2>5. CASE <<n, x>> \notin attribution'
    <3>1. i \in 1 .. k /\ <<i, x>> \in attribution
      BY <1>3, <1>9, <1>14, <2>3, <2>5
    <3>2. PICK m \in Recent(x) : TRUE
      BY <1>3, <3>1 DEF SosInv
    <3>3. m \in 1 .. k /\ m \in 1 .. n /\ <<m, x>> \in attribution
          /\ \A j \in own : reports[j].nth <= reports[m].nth
      BY <1>3, <3>2 DEF Recent
    <3>4. \A j \in 1 .. n : <<j, x>> \in attribution' => reports'[j].nth <= reports'[m].nth
      BY <1>3, <1>9, <2>3, <2>5, <3>3
    <3> QED
      BY <1>3, <2>3, <3>3, <3>4 DEF Recent
  <2> QED
    BY <2>4, <2>5
<1>15. InTurn'
  <2>1. ASSUME NEW x \in Users \ overlapped, NEW i \in Mine(x)', NEW j \in Mine(x)', i < j
        PROVE  reports'[i].nth < reports'[j].nth /\ reports'[i].at <= reports'[j].at
    <3>1. CASE i \in Mine(x) /\ j \in Mine(x)
      BY <1>3, <1>12, <2>1, <3>1 DEF SosInv, InTurn
    <3>2. CASE j = n /\ x = u
      <4>1. i \in Mine(x)
        BY <1>10, <2>1, <3>2
      <4> QED
        BY <1>1, <1>3, <1>4, <1>12, <3>2, <4>1 DEF Pressed, u
    <3>3. CASE i = n
      BY <1>10, <1>12, <2>1, <3>3
    <3> QED
      BY <1>10, <2>1, <3>1, <3>2, <3>3
  <2> QED
    BY <1>6, <2>1 DEF InTurn
<1>16. ASSUME NEW v \in Workers, job'[v] # idle
       PROVE  Pressed(v)'
  <2>1. v # w /\ job'[v] = job[v] /\ job[v] # idle /\ Pressed(v)
    BY <1>7, <1>16 DEF SosInv
  <2>2. ASSUME NEW x \in Users \ overlapped', x = job'[v].req.user
        PROVE  /\ \A i \in Mine(x)' : reports'[i].nth < job'[v].nth /\ reports'[i].at <= job'[v].at
               /\ job'[v].pc # "begun" /\ job'[v].req.sos =>
                    \A i \in Mine(x)' :
                      reports'[i].sos => job'[v].now - reports'[i].at >= Window \/ Since(i, x)'
    <3>1. x \in Users \ overlapped /\ x = job[v].req.user
      BY <1>6, <2>1, <2>2
    <3>2. x # u
      BY <1>1, <2>1, <3>1 DEF SubmissionInv, OneAtATime, u
    <3>3. Mine(x)' = Mine(x)
      BY <1>10, <3>1, <3>2
    <3>4. \A i \in Mine(x) : reports'[i] = reports[i]
      BY <1>3, <1>12
    <3>5. \A i \in Mine(x) : reports[i].nth < job[v].nth /\ reports[i].at <= job[v].at
      BY <2>1, <3>1 DEF Pressed
    <3>6. job[v].pc # "begun" /\ job[v].req.sos =>
            \A i \in Mine(x) : reports[i].sos => job[v].now - reports[i].at >= Window \/ Since(i, x)
      BY <2>1, <3>1 DEF Pressed
    <3> QED
      BY <1>11, <2>1, <3>3, <3>4, <3>5, <3>6
  <2>3. job'[v].nth <= taken' /\ job'[v].at <= clock'
    BY <1>6, <2>1 DEF Pressed
  <2> QED
    BY <2>2, <2>3 DEF Pressed
<1>17. SosOncePerWindow'
  <2>1. ASSUME NEW x \in Users \ overlapped, NEW i \in 1 .. n, NEW j \in 1 .. n,
               i < j, filed'[i].by = x, filed'[j].by = x, reports'[i].sos, reports'[j].sos
        PROVE  \/ filed'[j].now - reports'[i].at >= Window
               \/ \E l \in i + 1 .. j - 1 : <<l, x>> \in attribution' /\ ~reports'[l].emergency
    <3>1. i \in 1 .. k
      BY <2>1
    <3>2. CASE j \in 1 .. k
      <4>1. \/ filed[j].now - reports[i].at >= Window
            \/ \E l \in i + 1 .. j - 1 : <<l, x>> \in attribution /\ ~reports[l].emergency
        <5>1. /\ i \in DOMAIN reports /\ j \in DOMAIN reports
              /\ filed[i].by = x /\ filed[j].by = x /\ reports[i].sos /\ reports[j].sos
          BY <1>3, <2>1, <3>1, <3>2
        <5>2. SosOncePerWindow
          BY DEF SosInv
        <5> QED
          BY <2>1, <5>1, <5>2 DEF SosOncePerWindow
      <4>2. \A l \in i + 1 .. j - 1 : l \in 1 .. k
        BY <3>1, <3>2
      <4>3. reports'[i] = reports[i] /\ filed'[j] = filed[j] /\ attribution \subseteq attribution'
        BY <1>3, <1>6, <3>1, <3>2
      <4>4. CASE filed[j].now - reports[i].at >= Window
        BY <4>3, <4>4
      <4>5. ASSUME NEW l \in i + 1 .. j - 1, <<l, x>> \in attribution, ~reports[l].emergency
            PROVE  <<l, x>> \in attribution' /\ ~reports'[l].emergency
        BY <1>3, <4>2, <4>3, <4>5
      <4> QED
        BY <4>1, <4>4, <4>5
    <3>3. CASE j = n
      <4>1. x = u /\ r.sos /\ i \in Mine(x) /\ reports[i].sos
        BY <1>3, <1>4, <2>1, <3>1, <3>3 DEF Mine
      <4>2. job[w].now - reports[i].at >= Window \/ Since(i, x)
        BY <1>1, <2>1, <4>1 DEF Pressed, u, r
      <4>3. CASE Since(i, x)
        <5>1. PICK l \in 1 .. k : l > i /\ <<l, x>> \in attribution /\ ~reports[l].emergency
          BY <1>3, <4>3 DEF Since
        <5>2. l \in i + 1 .. j - 1
          BY <3>1, <3>3, <5>1
        <5> QED
          BY <1>3, <1>6, <5>1, <5>2
      <4> QED
        BY <1>3, <3>1, <3>3, <4>2, <4>3
    <3> QED
      BY <1>9, <3>2, <3>3
  <2> QED
    BY <1>3, <1>6, <2>1 DEF SosOncePerWindow
<1> QED
  BY <1>13, <1>14, <1>15, <1>16, <1>17 DEF SosInv

\* A step of one worker that commits nothing.
LEMMA OneWorkerStill ==
  ASSUME TypeOK, SosInv, Still, NEW w \in Workers,
         \A v \in Workers : v # w => job'[v] = job[v],
         job'[w] # idle => Pressed(w)'
  PROVE  SosInv'
<1>1. ASSUME NEW v \in Workers, v # w, job'[v] # idle
      PROVE  Pressed(v)'
  <2>1. job'[v] = job[v] /\ job[v] # idle /\ Pressed(v)
    BY <1>1 DEF SosInv
  <2> QED
    BY <2>1, PressedStill
<1> QED
  BY <1>1, RowsStill

\* A request taken up is younger than every report its user has.
LEMMA ReceivedPress ==
  ASSUME SubmissionInv, SosInv, NEW w \in Workers, NEW q \in Request, Receive(w, q)
  PROVE  SosInv'
<1>1. /\ TypeOK /\ Still
      /\ \A v \in Workers : v # w => job'[v] = job[v]
      /\ job'[w] = [pc |-> "begun", req |-> q, at |-> clock, nth |-> taken + 1,
                    now |-> 0, read |-> 0]
  BY DEF SubmissionInv, TypeOK, Receive, Still, stored
<1>2. job'[w].pc = "begun" /\ job'[w].at = clock /\ job'[w].nth = taken + 1
  BY <1>1
<1>3. /\ clock \in Nat /\ taken \in Nat
      /\ \A i \in DOMAIN reports : reports[i].nth \in Nat /\ reports[i].at \in Nat
  BY <1>1, Numbers
<1>4. taken' = taken + 1 /\ clock' = clock /\ reports' = reports
  BY DEF Receive, stored
<1>5. \A i \in DOMAIN reports' : reports'[i].nth < taken + 1 /\ reports'[i].at <= clock
  BY <1>3, <1>4 DEF SosInv
<1>6. \A u : Mine(u)' \subseteq DOMAIN reports'
  BY DEF Mine
<1>7. Pressed(w)'
  BY <1>2, <1>3, <1>4, <1>5, <1>6 DEF Pressed
<1> QED
  BY <1>1, <1>7, OneWorkerStill

\* A press that is let through.
LEMMA AdmittedSos ==
  ASSUME SubmissionInv, CompleteOrAbsent, SosInv, NEW w \in Workers, AdmitSos(w)
  PROVE  SosInv'
<1>1. /\ TypeOK /\ Still /\ job[w] # idle /\ job[w] \in Jobs
      /\ \A v \in Workers : v # w => job'[v] = job[v]
      /\ job'[w] = [job[w] EXCEPT !.pc = "admitted", !.now = clock]
  <2>1. TypeOK /\ job[w] # idle /\ job[w] \in Jobs
    BY BusyWorker, JobFields DEF SubmissionInv, AdmitSos, At, Stages
  <2> QED
    BY <2>1 DEF TypeOK, AdmitSos, Admit, Still, stored, history
<1>2. /\ job'[w].req = job[w].req /\ job'[w].at = job[w].at /\ job'[w].nth = job[w].nth
      /\ job'[w].now = clock
  BY <1>1 DEF Jobs
<1>3. /\ UNCHANGED <<reports, attribution, clock, taken, filed, overlapped>>
      /\ Pressed(w)
  BY <1>1 DEF AdmitSos, Admit, stored, history, SosInv
<1>4. ASSUME NEW u \in Users \ overlapped', u = job'[w].req.user
      PROVE  /\ \A i \in Mine(u)' : reports'[i].nth < job'[w].nth /\ reports'[i].at <= job'[w].at
             /\ \A i \in Mine(u)' :
                  reports'[i].sos => job'[w].now - reports'[i].at >= Window \/ Since(i, u)'
  <2>1. u \in Users \ overlapped /\ u = job[w].req.user
    BY <1>2, <1>3, <1>4
  <2>2. Mine(u)' = Mine(u) /\ \A i : Since(i, u)' = Since(i, u)
    BY <1>3 DEF Mine, Since
  <2>3. \A i \in Mine(u) : reports[i].nth < job[w].nth /\ reports[i].at <= job[w].at
    BY <1>3, <2>1 DEF Pressed
  <2>4. \A i \in Recent(u) : ~Repeat(i)
    BY <2>1 DEF AdmitSos
  <2>5. \A i \in Mine(u) : reports[i].sos => clock - reports[i].at >= Window \/ Since(i, u)
    BY <1>1, <2>1, <2>4, AdmittedPress
  <2> QED
    BY <1>2, <1>3, <2>2, <2>3, <2>5
<1>5. Pressed(w)'
  BY <1>2, <1>3, <1>4 DEF Pressed
<1> QED
  BY <1>1, <1>5, OneWorkerStill

\* A wizard's report that is let through, and what a worker does before its commit.
LEMMA WorkedOn ==
  ASSUME SubmissionInv, SosInv, NEW w \in Workers,
         AdmitReport(w) \/ ReadQuota(w) \/ WriteQuota(w) \/ Assist(w)
  PROVE  SosInv'
<1>1. TypeOK /\ job[w] # idle /\ job[w] \in Jobs /\ Still
      /\ \A v \in Workers : v # w => job'[v] = job[v]
  <2>1. TypeOK /\ job[w] # idle /\ job[w] \in Jobs
    BY BusyWorker, JobFields
       DEF SubmissionInv, AdmitReport, ReadQuota, WriteQuota, Assist, At, Stages, Counting
  <2> QED
    BY <2>1 DEF TypeOK, AdmitReport, ReadQuota, WriteQuota, Assist, Admit, MoveOn, Still, stored, history
<1>2. /\ job'[w].req = job[w].req /\ job'[w].at = job[w].at /\ job'[w].nth = job[w].nth
      /\ \/ ~job[w].req.sos
         \/ job'[w].now = job[w].now /\ job[w].pc # "begun"
  <2>1. CASE AdmitReport(w)
    <3>1. job'[w] = [job[w] EXCEPT !.pc = "admitted", !.now = clock] /\ ~job[w].req.sos
      BY <1>1, <2>1 DEF TypeOK, AdmitReport, Admit
    <3> QED
      BY <1>1, <3>1 DEF Jobs
  <2>2. CASE ReadQuota(w)
    <3>1. /\ job'[w] = [job[w] EXCEPT !.pc = "counting",
                                      !.read = quota[job[w].req.user][DayOf(job[w].now)]]
          /\ job[w].pc = "admitted"
      BY <1>1, <2>2 DEF TypeOK, ReadQuota, At
    <3> QED
      BY <1>1, <3>1 DEF Jobs
  <2>3. CASE WriteQuota(w) \/ Assist(w)
    <3>1. PICK st \in {"counted", "assisted"} : job'[w] = [job[w] EXCEPT !.pc = st]
      BY <1>1, <2>3 DEF TypeOK, WriteQuota, Assist, MoveOn
    <3>2. job[w].pc # "begun"
      BY <2>3 DEF WriteQuota, Assist, At
    <3> QED
      BY <1>1, <3>1, <3>2 DEF Jobs
  <2> QED
    BY <2>1, <2>2, <2>3
<1>3. Pressed(w)'
  BY <1>1, <1>2, PressedStill DEF SosInv
<1> QED
  BY <1>1, <1>3, OneWorkerStill

LEMMA SosStep == SubmissionInv /\ CompleteOrAbsent /\ SosInv /\ [Next]_vars => SosInv'
<1> SUFFICES ASSUME SubmissionInv, CompleteOrAbsent, SosInv, [Next]_vars
             PROVE  SosInv'
  OBVIOUS
<1>1. TypeOK
  BY DEF SubmissionInv
<1>2. ASSUME NEW w \in Workers, NEW q \in Request, Receive(w, q)
      PROVE  SosInv'
  BY <1>2, ReceivedPress
<1>3. ASSUME NEW w \in Workers, AdmitSos(w)
      PROVE  SosInv'
  BY <1>3, AdmittedSos
<1>4. ASSUME NEW w \in Workers, AdmitReport(w) \/ ReadQuota(w) \/ WriteQuota(w) \/ Assist(w)
      PROVE  SosInv'
  BY <1>4, WorkedOn
<1>5. ASSUME NEW w \in Workers, Commit(w)
      PROVE  SosInv'
  BY <1>5, CommitPress
<1>6. ASSUME NEW w \in Workers, Dropped(w) \/ AnswerRepeat(w)
      PROVE  SosInv'
  <2>1. Still /\ job'[w] = idle /\ \A v \in Workers : v # w => job'[v] = job[v]
    BY <1>1, <1>6 DEF TypeOK, Dropped, AnswerRepeat, Finish, Still, stored, history
  <2> QED
    BY <1>1, <2>1, OneWorkerStill
<1>7. CASE Tick \/ UNCHANGED vars
  <2>1. Still /\ job' = job
    BY <1>7 DEF Tick, Still, vars, stored, history
  <2>2. ASSUME NEW w \in Workers, job'[w] # idle
        PROVE  Pressed(w)'
    <3>1. job'[w] = job[w] /\ job[w] # idle /\ Pressed(w)
      BY <2>1, <2>2 DEF SosInv
    <3> QED
      BY <1>1, <2>1, <3>1, PressedStill
  <2> QED
    BY <1>1, <2>1, <2>2, RowsStill
<1> QED
  BY <1>2, <1>3, <1>4, <1>5, <1>6, <1>7
     DEF Next, RefuseBody, RefuseQuota, Reject, RefuseLateSos, ConflictingQuota, AssistAborts, Crash

\* A user whose requests never overlapped raises a second SOS within the window
\* only after filing something else under their own name (submit_sos).
THEOREM OneSosPerWindow == Spec => []SosOncePerWindow
<1>1. Init => SosInv
  BY DEF Init, SosInv, InTurn, SosOncePerWindow, Mine, idle
<1>2. SosInv => SosOncePerWindow
  BY DEF SosInv
<1> QED
  BY <1>1, <1>2, SosStep, SubmissionInvariant, AllOrNothing, PTL DEF Spec
=============================================================================
