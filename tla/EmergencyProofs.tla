---------------------------- MODULE EmergencyProofs ----------------------------
(***************************************************************************)
(* Theorems about EmergencyDispatch, for every set of workers, every cast  *)
(* and every set of requests, and about ResponderQueue, for any reports,   *)
(* statuses, filters and orders of answers: no tone over one that was not  *)
(* interrupted, and one alarm for each emergency that arrives.             *)
(***************************************************************************)
EXTENDS EmergencyDispatch, ResponderQueue, SequenceTheorems, TLAPS

\* What a request in flight carries.  It was stamped with a time the clock has
\* reached, and an advance that was accepted is for the one row there is, to a
\* state whose predecessor's stamp is on that row: stamps are never taken back,
\* so this survives whatever other advances commit meanwhile.
Warranted(w) ==
  /\ job[w].pc \in {"authorised", "ready"} => job[w].now \in 1 .. clock
  /\ At(w, "ready", "advance") =>
       /\ job[w].found \in DOMAIN dispatches
       /\ job[w].req.target \in States \ {"pending"}
       /\ job[w].req.target = "dispatched" => dispatches[job[w].found].at["acknowledged"] # 0
       /\ job[w].req.target = "on_scene" => dispatches[job[w].found].at["dispatched"] # 0
       /\ job[w].req.target = "closed" => dispatches[job[w].found].at["on_scene"] # 0

\* The inductive invariant.
DispatchInv ==
  /\ TypeOK
  /\ OneDispatch
  /\ StepsInOrder
  /\ StateHasItsStamp
  /\ \A w \in Workers : Warranted(w)

-----------------------------------------------------------------------------
(* Requests, stamps and rows                                               *)

\* A request in flight is one of the requests clients may send, with the
\* fields of its kind.
LEMMA JobFields ==
  ASSUME TypeOK, NEW w \in Workers, job[w] # idle
  PROVE  /\ job[w] \in Jobs
         /\ job[w].req \in DispatchRequest
         /\ job[w].req.user \in Callers
         /\ job[w].req.kind = "advance" => job[w].req.target \in States
<1>1. job[w] \in Jobs
  BY DEF TypeOK
<1>2. job[w].req \in DispatchRequest
  BY <1>1, DispatchAssumption DEF Jobs
<1> QED
  BY <1>1, <1>2 DEF DispatchRequest

\* The stage of a worker that is in the middle of a request.
LEMMA BusyWorker ==
  ASSUME NEW w \in Workers, job[w].pc \in {"loaded", "authorised", "ready"}
  PROVE  job[w] # idle
BY DEF idle

\* A request moved on to its next stage is still one.
LEMMA JobUpdate ==
  ASSUME NEW j \in Jobs, NEW st \in {"loaded", "authorised", "ready"}, NEW n \in Nat
  PROVE  /\ [j EXCEPT !.pc = st] \in Jobs
         /\ [j EXCEPT !.pc = st, !.now = n] \in Jobs
         /\ [j EXCEPT !.pc = st, !.found = n] \in Jobs
<1>1. [j EXCEPT !.pc = st] \in Jobs
  BY DEF Jobs
<1>2. ASSUME NEW k \in Jobs
      PROVE  [k EXCEPT !.now = n] \in Jobs /\ [k EXCEPT !.found = n] \in Jobs
  BY DEF Jobs
<1> QED
  BY <1>1, <1>2

\* Every state owns one of the columns, and only pending owns the first.
LEMMA StampOfState ==
  ASSUME NEW s \in States
  PROVE  /\ StampOf(s) \in Stamps
         /\ s # "pending" => StampOf(s) # "raised"
         /\ s # "pending" => (StampOf(s) = "acknowledged") = (s = "acknowledged")
         /\ s # "pending" => (StampOf(s) = "dispatched") = (s = "dispatched")
         /\ s # "pending" => (StampOf(s) = "on_scene") = (s = "on_scene")
BY DEF States, Stamps, StampOf

\* What the legal transitions say of the state they start from.
LEMMA LegalTargets ==
  ASSUME NEW s \in States, NEW t \in DISPATCH_TRANSITIONS[s]
  PROVE  /\ t \in States \ {"pending"}
         /\ t = "dispatched" => s = "acknowledged"
         /\ t = "on_scene" => s = "dispatched"
         /\ t = "closed" => s = "on_scene"
BY DEF States, DISPATCH_TRANSITIONS

\* An advance writes the state and the one column the state owns.
LEMMA AdvancedRow ==
  ASSUME NEW row \in DispatchRow, NEW now \in Nat, NEW r,
         r.user \in Callers, r.target \in States
  PROVE  /\ Advanced(row, r, now) \in DispatchRow
         /\ Advanced(row, r, now).state = r.target
         /\ Advanced(row, r, now).at = [row.at EXCEPT ![StampOf(r.target)] = now]
<1>1. [row.at EXCEPT ![StampOf(r.target)] = now] \in [Stamps -> Nat]
  BY StampOfState DEF DispatchRow
<1> QED
  BY <1>1 DEF Advanced, DispatchRow

\* An appended row is a row.
LEMMA AppendType ==
  ASSUME NEW S, NEW q \in Seq(S), NEW e \in S
  PROVE  /\ Append(q, e) \in Seq(S)
         /\ Len(Append(q, e)) = Len(q) + 1
         /\ Append(q, e)[Len(q) + 1] = e
         /\ \A i \in 1 .. Len(q) : Append(q, e)[i] = q[i]
OBVIOUS

\* A sequence of at most one row that has an i-th one has exactly one.
LEMMA OnlyRow ==
  ASSUME NEW S, NEW q \in Seq(S), Len(q) <= 1, NEW i \in DOMAIN q
  PROVE  Len(q) = 1 /\ i = 1 /\ q[i] \in S
<1>1. i \in 1 .. Len(q) /\ Len(q) \in Nat
  BY LenProperties
<1>2. \A n \in Nat : n <= 1 => \A k \in 1 .. n : n = 1 /\ k = 1
  OBVIOUS
<1>3. Len(q) = 1 /\ i = 1
  BY <1>1, <1>2
<1>4. q[i] \in S
  BY <1>1, ElementOfSeq
<1> QED
  BY <1>3, <1>4

\* Replacing it.
LEMMA OnlyRowReplaced ==
  ASSUME NEW S, NEW q \in Seq(S), Len(q) = 1, NEW e \in S
  PROVE  LET s == [q EXCEPT ![1] = e]
         IN s \in Seq(S) /\ Len(s) = 1 /\ s[1] = e
<1>1. 1 \in 1 .. Len(q)
  OBVIOUS
<1> QED
  BY <1>1, ExceptSeq

\* With at most one row, the operative dispatch is that one.
LEMMA CurrentRow ==
  ASSUME TypeOK, OneDispatch, Current # 0
  PROVE  Current = 1 /\ DOMAIN dispatches = {1}
<1>1. dispatches # <<>> /\ dispatches \in Seq(DispatchRow)
  BY DEF Current, TypeOK
<1>2. Len(dispatches) \in Nat \ {0}
  BY <1>1, EmptySeq
<1>3. Len(dispatches) = 1
  BY <1>2 DEF OneDispatch
<1>4. DOMAIN dispatches = {1} /\ dispatches[1] \in DispatchRow
  BY <1>1, <1>3
<1>5. dispatches[1].at["raised"] \in Nat
  BY <1>4 DEF DispatchRow, Stamps
<1>6. Current \in DOMAIN dispatches
  BY <1>1, <1>4, <1>5 DEF Current
<1> QED
  BY <1>4, <1>6

-----------------------------------------------------------------------------
(* The invariant holds initially and every step keeps it                   *)

LEMMA DispatchInit == Init => DispatchInv
<1> SUFFICES ASSUME Init
             PROVE  DispatchInv
  OBVIOUS
<1>1. dispatches \in Seq(DispatchRow) /\ Len(dispatches) = 0 /\ DOMAIN dispatches = {}
  BY DEF Init
<1>2. TypeOK /\ OneDispatch
  BY <1>1 DEF Init, TypeOK, OneDispatch
<1>3. StepsInOrder /\ StateHasItsStamp
  BY <1>1 DEF StepsInOrder, StateHasItsStamp
<1>4. \A w \in Workers : Warranted(w)
  BY DEF Init, Warranted, At, idle
<1> QED
  BY <1>2, <1>3, <1>4 DEF DispatchInv

\* A step that leaves the rows alone keeps it when what the one worker is left
\* with is warranted.
LEMMA RowsKept ==
  ASSUME DispatchInv, NEW w \in Workers, NEW j \in {idle} \cup Jobs,
         job' = [job EXCEPT ![w] = j],
         dispatches' = dispatches, clock' \in {clock, clock + 1}, audit' \subseteq AuditRow,
         Warranted(w)'
  PROVE  DispatchInv'
<1>1. TypeOK'
  BY DEF DispatchInv, TypeOK
<1>2. OneDispatch' /\ StepsInOrder' /\ StateHasItsStamp'
  BY DEF DispatchInv, OneDispatch, StepsInOrder, StateHasItsStamp
<1>3. ASSUME NEW v \in Workers, v # w
      PROVE  Warranted(v)'
  <2>1. job'[v] = job[v] /\ Warranted(v) /\ clock \in Nat
    BY <1>3 DEF DispatchInv, TypeOK
  <2> QED
    BY <2>1 DEF Warranted, At
<1> QED
  BY <1>1, <1>2, <1>3 DEF DispatchInv

\* In particular when its request is over.
LEMMA RequestOver ==
  ASSUME DispatchInv, NEW w \in Workers, Finish(w),
         dispatches' = dispatches, clock' \in {clock, clock + 1}, audit' \subseteq AuditRow
  PROVE  DispatchInv'
<1>1. job' = [job EXCEPT ![w] = idle]
  BY DEF Finish
<1>2. Warranted(w)'
  BY <1>1 DEF DispatchInv, TypeOK, Warranted, At, idle
<1> QED
  BY <1>1, <1>2, RowsKept

\* An access_log row about a request in flight is well formed.
LEMMA AuditType ==
  ASSUME TypeOK, NEW w \in Workers, job[w] # idle,
         NEW action \in {"raise", "refused"} \cup States, AuditRecord(w, action)
  PROVE  audit' \subseteq AuditRow
<1>1. job[w].now \in Nat /\ job[w].req.user \in Callers
  BY JobFields DEF Jobs
<1> QED
  BY <1>1 DEF TypeOK, AuditRecord, AuditRow

LEMMA RaiseStep ==
  ASSUME DispatchInv, NEW w \in Workers, RecordRaise(w)
  PROVE  DispatchInv'
<1> DEFINE row == [state |-> "pending", by |-> "nobody",
                   at |-> [c \in Stamps |-> IF c = "raised" THEN job[w].now ELSE 0]]
<1>1. job[w] # idle /\ TypeOK /\ dispatches = <<>>
  BY BusyWorker DEF RecordRaise, At, DispatchInv, UniqueAdmits
<1>2. job[w].now \in 1 .. clock /\ clock \in Nat
  BY <1>1 DEF DispatchInv, Warranted, RecordRaise, At, TypeOK
<1>3. row \in DispatchRow
  BY <1>2 DEF DispatchRow, States, Stamps
<1>4. row.state = "pending" /\ row.at["raised"] = job[w].now
      /\ \A c \in Stamps \ {"raised"} : row.at[c] = 0
  BY DEF Stamps
<1> HIDE DEF row
<1>5. dispatches' = Append(<<>>, row) /\ <<>> \in Seq(DispatchRow)
  BY <1>1 DEF RecordRaise, row
<1>6. dispatches' \in Seq(DispatchRow) /\ Len(dispatches') = 1 /\ dispatches'[1] = row
  BY <1>3, <1>5, AppendType
<1>7. DOMAIN dispatches' = {1}
  BY <1>6
<1>8. TypeOK'
  <2>1. audit' \subseteq AuditRow
    BY <1>1, AuditType DEF RecordRaise
  <2> QED
    BY <1>1, <1>6, <2>1 DEF TypeOK, RecordRaise, Finish
<1>9. OneDispatch'
  BY <1>6 DEF OneDispatch
<1>10. StepsInOrder'
  BY <1>2, <1>4, <1>6, <1>7 DEF StepsInOrder, Stamps
<1>11. StateHasItsStamp'
  BY <1>2, <1>4, <1>6, <1>7 DEF StateHasItsStamp, StampOf
<1>12. ASSUME NEW v \in Workers
       PROVE  Warranted(v)'
  <2>1. clock' = clock /\ job' = [job EXCEPT ![w] = idle]
    BY DEF RecordRaise, Finish
  <2>2. CASE v = w
    BY <2>1, <2>2, <1>1 DEF Warranted, At, idle, TypeOK
  <2>3. CASE v # w
    <3>1. job'[v] = job[v] /\ Warranted(v)
      BY <2>1, <2>3, <1>1 DEF DispatchInv, TypeOK
    <3>2. ~At(v, "ready", "advance")
      BY <3>1, <1>1 DEF Warranted
    <3> QED
      BY <2>1, <3>1, <3>2 DEF Warranted, At
  <2> QED
    BY <2>2, <2>3
<1> QED
  BY <1>8, <1>9, <1>10, <1>11, <1>12 DEF DispatchInv

LEMMA AdvanceStep ==
  ASSUME DispatchInv, NEW w \in Workers, RecordAdvance(w)
  PROVE  DispatchInv'
<1> DEFINE f == job[w].found
           target == job[w].req.target
           now == job[w].now
           old == dispatches[f]
           row == NewRow(w)
<1>1. job[w] # idle /\ TypeOK
  BY BusyWorker DEF RecordAdvance, At, DispatchInv
<1>2. At(w, "ready", "advance") /\ Warranted(w) /\ clock \in Nat
  BY <1>1 DEF DispatchInv, RecordAdvance, TypeOK
<1>3. /\ now \in Nat /\ now # 0
      /\ target \in States \ {"pending"}
      /\ target = "dispatched" => old.at["acknowledged"] # 0
      /\ target = "on_scene" => old.at["dispatched"] # 0
      /\ target = "closed" => old.at["on_scene"] # 0
  BY <1>2 DEF Warranted, At
<1>4. dispatches \in Seq(DispatchRow) /\ Len(dispatches) = 1 /\ f = 1 /\ old \in DispatchRow
  <2>1. dispatches \in Seq(DispatchRow) /\ f \in DOMAIN dispatches /\ Len(dispatches) <= 1
    BY <1>1, <1>2 DEF Warranted, TypeOK, DispatchInv, OneDispatch
  <2> HIDE DEF f
  <2> QED
    BY <2>1, OnlyRow
<1>5. row \in DispatchRow /\ row.state = target /\ row.at = [old.at EXCEPT ![StampOf(target)] = now]
  <2>1. job[w].req.user \in Callers /\ job[w].req.target \in States
    BY <1>1, <1>3, JobFields
  <2>2. now \in Nat /\ old \in DispatchRow /\ row = Advanced(old, job[w].req, now)
    BY <1>3, <1>4 DEF NewRow
  <2> HIDE DEF now, old, row
  <2> QED
    BY <2>1, <2>2, AdvancedRow
<1>6. \A c \in Stamps : row.at[c] = IF c = StampOf(target) THEN now ELSE old.at[c]
  BY <1>4, <1>5 DEF DispatchRow
<1>7. dispatches' = [dispatches EXCEPT ![f] = row] /\ ChecksAdmit(row.at)
  BY DEF RecordAdvance
<1> HIDE DEF row
<1>8. dispatches' \in Seq(DispatchRow) /\ Len(dispatches') = 1 /\ dispatches'[1] = row
  BY <1>4, <1>5, <1>7, OnlyRowReplaced
<1>9. DOMAIN dispatches' = {1} /\ DOMAIN dispatches = {1}
  BY <1>4, <1>8
<1>10. TypeOK'
  <2>1. audit' \subseteq AuditRow
    BY <1>1, <1>3, AuditType DEF RecordAdvance
  <2> QED
    BY <1>1, <1>8, <2>1 DEF TypeOK, RecordAdvance, Finish
<1>11. OneDispatch'
  BY <1>8 DEF OneDispatch
<1>12. StepsInOrder'
  <2>1. /\ old.at["raised"] # 0
        /\ old.at["dispatched"] # 0 => old.at["acknowledged"] # 0
        /\ old.at["on_scene"] # 0 => old.at["dispatched"] # 0
    BY <1>4, <1>9 DEF DispatchInv, StepsInOrder
  <2>2. /\ StampOf(target) # "raised"
        /\ (StampOf(target) = "dispatched") = (target = "dispatched")
        /\ (StampOf(target) = "on_scene") = (target = "on_scene")
    BY <1>3, StampOfState
  <2>3. row.at["raised"] # 0
    BY <1>6, <2>1, <2>2 DEF Stamps
  <2>4. row.at["dispatched"] # 0 => row.at["acknowledged"] # 0
    BY <1>3, <1>6, <2>1, <2>2 DEF Stamps
  <2>5. row.at["on_scene"] # 0 => row.at["dispatched"] # 0
    BY <1>3, <1>6, <2>1, <2>2 DEF Stamps
  <2>6. row.state = "closed" => row.at["on_scene"] # 0
    BY <1>3, <1>5, <1>6 DEF Stamps
  <2> QED
    BY <1>7, <1>8, <1>9, <2>3, <2>4, <2>5, <2>6 DEF StepsInOrder, ChecksAdmit, InOrder
<1>13. StateHasItsStamp'
  <2>1. StampOf(target) \in Stamps
    BY <1>3, StampOfState
  <2>2. row.at[StampOf(row.state)] # 0
    BY <1>3, <1>5, <1>6, <2>1
  <2> QED
    BY <1>8, <1>9, <2>2 DEF StateHasItsStamp
<1>14. ASSUME NEW v \in Workers
       PROVE  Warranted(v)'
  <2>1. clock' = clock /\ job' = [job EXCEPT ![w] = idle]
    BY DEF RecordAdvance, Finish
  <2>2. CASE v = w
    BY <2>1, <2>2, <1>1 DEF Warranted, At, idle, TypeOK
  <2>3. CASE v # w
    <3>1. job'[v] = job[v] /\ Warranted(v)
      BY <2>1, <2>3, <1>1 DEF DispatchInv, TypeOK
    <3>2. \A c \in Stamps : old.at[c] # 0 => dispatches'[1].at[c] # 0
      BY <1>3, <1>6, <1>8
    <3>3. At(v, "ready", "advance") => job[v].found = 1
      BY <3>1, <1>9 DEF Warranted
    <3> QED
      BY <2>1, <3>1, <3>2, <3>3, <1>4, <1>9 DEF Warranted, At, Stamps
  <2> QED
    BY <2>2, <2>3
<1> QED
  BY <1>10, <1>11, <1>12, <1>13, <1>14 DEF DispatchInv
-----------------------------------------------------------------------------
LEMMA DispatchStep == DispatchInv /\ [Next]_vars => DispatchInv'
<1> SUFFICES ASSUME DispatchInv, [Next]_vars
             PROVE  DispatchInv'
  OBVIOUS
<1> TypeOK /\ clock \in Nat
  BY DEF DispatchInv, TypeOK
<1>1. ASSUME NEW w \in Workers, NEW r \in Requests, Receive(w, r)
      PROVE  DispatchInv'
  <2> DEFINE j == [pc |-> "loaded", req |-> r, now |-> 0, found |-> 0]
  <2>1. j \in Jobs /\ j.pc = "loaded"
    BY DEF Jobs
  <2> HIDE DEF j
  <2>2. job' = [job EXCEPT ![w] = j] /\ audit' \subseteq AuditRow
    BY <1>1 DEF Receive, TypeOK, j
  <2>3. Warranted(w)'
    BY <2>1, <2>2 DEF Warranted, At, TypeOK
  <2> QED
    BY <1>1, <2>1, <2>2, <2>3, RowsKept DEF Receive
<1>2. ASSUME NEW w \in Workers, Authorise(w)
      PROVE  DispatchInv'
  <2> DEFINE j == [job[w] EXCEPT !.pc = "authorised", !.now = clock + 1]
  <2>1. job[w] \in Jobs
    BY <1>2, BusyWorker, JobFields DEF Authorise
  <2>2. j \in Jobs /\ j.pc = "authorised" /\ j.now = clock + 1
    <3>1. clock + 1 \in Nat
      OBVIOUS
    <3>2. j \in Jobs
      BY <2>1, <3>1, JobUpdate
    <3> QED
      BY <2>1, <3>2 DEF Jobs
  <2> HIDE DEF j
  <2>3. job' = [job EXCEPT ![w] = j] /\ clock' = clock + 1 /\ audit' \subseteq AuditRow
    BY <1>2 DEF Authorise, TypeOK, j
  <2>4. Warranted(w)'
    BY <2>2, <2>3 DEF Warranted, At, TypeOK
  <2> QED
    BY <1>2, <2>2, <2>3, <2>4, RowsKept DEF Authorise
<1>3. ASSUME NEW w \in Workers, RefuseCaller(w)
      PROVE  DispatchInv'
  <2>1. job[w].req.user \in Callers
    BY <1>3, BusyWorker, JobFields DEF RefuseCaller
  <2>2. audit' \subseteq AuditRow
    BY <1>3, <2>1 DEF RefuseCaller, TypeOK, AuditRow
  <2> QED
    BY <1>3, <2>2, RequestOver DEF RefuseCaller
<1>4. ASSUME NEW w \in Workers, AcceptRaise(w)
      PROVE  DispatchInv'
  <2> DEFINE j == [job[w] EXCEPT !.pc = "ready"]
  <2>1. job[w] \in Jobs /\ Warranted(w) /\ job[w].pc = "authorised" /\ job[w].req.kind = "raise"
    BY <1>4, BusyWorker, JobFields DEF AcceptRaise, At, DispatchInv
  <2>2. j \in Jobs /\ j.now = job[w].now /\ j.req.kind = "raise"
    BY <2>1, JobUpdate DEF Jobs
  <2> HIDE DEF j
  <2>3. job' = [job EXCEPT ![w] = j] /\ clock' = clock /\ audit' \subseteq AuditRow
    BY <1>4 DEF AcceptRaise, TypeOK, j
  <2>4. Warranted(w)'
    BY <2>1, <2>2, <2>3 DEF Warranted, At, TypeOK
  <2> QED
    BY <1>4, <2>2, <2>3, <2>4, RowsKept DEF AcceptRaise
<1>5. ASSUME NEW w \in Workers, AcceptAdvance(w)
      PROVE  DispatchInv'
  <2> DEFINE j == [job[w] EXCEPT !.pc = "ready", !.found = Current]
             t == job[w].req.target
  <2>1. /\ job[w] \in Jobs /\ Warranted(w)
        /\ job[w].pc = "authorised"
        /\ Current = 1 /\ DOMAIN dispatches = {1}
    BY <1>5, BusyWorker, JobFields, CurrentRow DEF AcceptAdvance, At, DispatchInv
  <2>2. j \in Jobs /\ j.now = job[w].now /\ j.req = job[w].req /\ j.found = 1
    <3>1. j \in Jobs
      BY <2>1, JobUpdate
    <3> QED
      BY <2>1, <3>1 DEF Jobs
  <2>3. dispatches[1] \in DispatchRow
    <3>1. dispatches \in Seq(DispatchRow) /\ 1 \in DOMAIN dispatches
      BY <2>1 DEF TypeOK
    <3> QED
      BY <3>1
  <2>4. /\ t \in States \ {"pending"}
        /\ t = "dispatched" => dispatches[1].state = "acknowledged"
        /\ t = "on_scene" => dispatches[1].state = "dispatched"
        /\ t = "closed" => dispatches[1].state = "on_scene"
    <3>1. dispatches[1].state \in States /\ t \in DISPATCH_TRANSITIONS[dispatches[1].state]
      BY <1>5, <2>1, <2>3 DEF AcceptAdvance, Allowed, DispatchRow
    <3> QED
      BY <3>1, LegalTargets
  <2>5. dispatches[1].at[StampOf(dispatches[1].state)] # 0
    BY <2>1 DEF DispatchInv, StateHasItsStamp
  <2>6. /\ t = "dispatched" => dispatches[1].at["acknowledged"] # 0
        /\ t = "on_scene" => dispatches[1].at["dispatched"] # 0
        /\ t = "closed" => dispatches[1].at["on_scene"] # 0
    BY <2>4, <2>5 DEF StampOf
  <2> HIDE DEF j
  <2>7. job' = [job EXCEPT ![w] = j] /\ dispatches' = dispatches /\ clock' = clock
        /\ audit' \subseteq AuditRow
    BY <1>5 DEF AcceptAdvance, TypeOK, j
  <2>8. Warranted(w)'
    <3>1. job'[w] = j
      BY <2>7 DEF TypeOK
    <3> QED
      BY <2>1, <2>2, <2>4, <2>6, <2>7, <3>1 DEF Warranted, At
  <2> QED
    BY <2>2, <2>7, <2>8, RowsKept
<1>6. ASSUME NEW w \in Workers, RecordRaise(w)
      PROVE  DispatchInv'
  BY <1>6, RaiseStep
<1>7. ASSUME NEW w \in Workers, RecordAdvance(w)
      PROVE  DispatchInv'
  BY <1>7, AdvanceStep
<1>8. ASSUME NEW w \in Workers, RefuseRaise(w) \/ RefuseAdvance(w)
      PROVE  DispatchInv'
  <2>1. job[w] # idle
    BY <1>8, BusyWorker DEF RefuseRaise, RefuseAdvance, At
  <2>2. AuditRecord(w, "refused") /\ Finish(w) /\ UNCHANGED <<dispatches, clock>>
    BY <1>8 DEF RefuseRaise, RefuseAdvance, Denied
  <2>3. audit' \subseteq AuditRow
    BY <2>1, <2>2, AuditType
  <2> QED
    BY <2>2, <2>3, RequestOver
<1>9. ASSUME NEW w \in Workers, ConflictingRaise(w) \/ RefusedByCheck(w) \/ Crash(w)
      PROVE  DispatchInv'
  <2>1. Finish(w) /\ UNCHANGED <<dispatches, audit, clock>> /\ audit' \subseteq AuditRow
    BY <1>9 DEF ConflictingRaise, RefusedByCheck, Crash, Dropped, TypeOK
  <2> QED
    BY <2>1, RequestOver
<1>10. CASE UNCHANGED vars
  BY <1>10 DEF vars, DispatchInv, TypeOK, OneDispatch, StepsInOrder, StateHasItsStamp,
               Warranted, At
<1> QED
  BY <1>1, <1>2, <1>3, <1>4, <1>5, <1>6, <1>7, <1>8, <1>9, <1>10 DEF Next

LEMMA DispatchInvariant == Spec => []DispatchInv
BY DispatchInit, DispatchStep, PTL DEF Spec

-----------------------------------------------------------------------------
\* Rows, access log and requests in flight keep their types.
THEOREM TypeCorrect == Spec => []TypeOK
<1>1. DispatchInv => TypeOK
  BY DEF DispatchInv
<1> QED
  BY <1>1, DispatchInvariant, PTL

\* However many responders raise a dispatch for one report, one is raised.
THEOREM RaisedOnce == Spec => []OneDispatch
<1>1. DispatchInv => OneDispatch
  BY DEF DispatchInv
<1> QED
  BY <1>1, DispatchInvariant, PTL

\* However raises race and stale advances commit, one dispatch is raised; no step up
\* to the arrival is recorded without the one before it or timed before it, and a
\* dispatch that is closed has arrived.
THEOREM JourneyIsInOrder == Spec => []OneJourneyInOrder
<1>1. DispatchInv => OneJourneyInOrder
  BY DEF DispatchInv, OneJourneyInOrder
<1> QED
  BY <1>1, DispatchInvariant, PTL

\* A dispatch is never in a state whose time nobody recorded, although the
\* state may have been overwritten by a request that never saw it.
THEOREM StateNeverWithoutStamp == Spec => []StateHasItsStamp
<1>1. DispatchInv => StateHasItsStamp
  BY DEF DispatchInv
<1> QED
  BY <1>1, DispatchInvariant, PTL

-----------------------------------------------------------------------------
(* The record against the access log                                       *)

\* AnswererIsOnRecord is inductive beside DispatchInv: the access log only grows,
\* and the two columns it relates are written by one step together with its row.
LEMMA AnswererStep ==
  ASSUME DispatchInv, AnswererIsOnRecord, [Next]_vars
  PROVE  AnswererIsOnRecord'
<1> TypeOK
  BY DEF DispatchInv
<1>1. audit \subseteq audit'
  <2>1. CASE UNCHANGED vars
    BY <2>1 DEF vars
  <2>2. CASE Next
    BY <2>2 DEF Next, Receive, Authorise, RefuseCaller, AcceptRaise, RefuseRaise, RecordRaise,
                ConflictingRaise, AcceptAdvance, RefuseAdvance, RecordAdvance, RefusedByCheck,
                Crash, Denied, Dropped, AuditRecord
  <2> QED
    BY <2>1, <2>2
<1>2. CASE dispatches' = dispatches
  BY <1>1, <1>2 DEF AnswererIsOnRecord
<1>3. ASSUME NEW w \in Workers, RecordRaise(w)
      PROVE  AnswererIsOnRecord'
  <2> DEFINE row == [state |-> "pending", by |-> "nobody",
                     at |-> [c \in Stamps |-> IF c = "raised" THEN job[w].now ELSE 0]]
  <2>1. row.by = "nobody" /\ row.at["acknowledged"] = 0
    BY DEF Stamps
  <2> HIDE DEF row
  <2>2. dispatches' = <<row>>
    BY <1>3 DEF RecordRaise, UniqueAdmits, row
  <2>3. DOMAIN dispatches' = {1} /\ dispatches'[1] = row
    BY <2>2
  <2> QED
    BY <2>1, <2>3 DEF AnswererIsOnRecord
<1>4. ASSUME NEW w \in Workers, RecordAdvance(w)
      PROVE  AnswererIsOnRecord'
  <2> DEFINE f == job[w].found
             r == job[w].req
             old == dispatches[f]
             row == NewRow(w)
  <2>1. job[w] # idle /\ At(w, "ready", "advance") /\ Warranted(w) /\ clock \in Nat
    BY <1>4, BusyWorker DEF RecordAdvance, At, DispatchInv, TypeOK
  <2>2. job[w].now \in Nat /\ job[w].now # 0 /\ f \in DOMAIN dispatches
        /\ r.target \in States \ {"pending"} /\ r.user \in Callers
    BY <2>1, JobFields DEF Warranted, At
  <2>3. old \in DispatchRow
    BY <2>2 DEF TypeOK
  <2>4. /\ row.at = [old.at EXCEPT ![StampOf(r.target)] = job[w].now]
        /\ row.by = IF r.target = "acknowledged" THEN r.user ELSE old.by
    <3>1. row = Advanced(old, r, job[w].now)
      BY DEF NewRow
    <3> QED
      BY <2>2, <2>3, <3>1, AdvancedRow DEF Advanced, DispatchRow
  <2>5. row.at["acknowledged"] = IF r.target = "acknowledged" THEN job[w].now
                                 ELSE old.at["acknowledged"]
    BY <2>2, <2>3, <2>4, StampOfState DEF DispatchRow, Stamps
  <2>6. dispatches' = [dispatches EXCEPT ![f] = row] /\ AuditRecord(w, r.target)
    BY <1>4 DEF RecordAdvance
  <2> HIDE DEF row
  <2>7. DOMAIN dispatches' = DOMAIN dispatches
        /\ \A i \in DOMAIN dispatches : dispatches'[i] = IF i = f THEN row ELSE dispatches[i]
    BY <2>6
  <2>8. r.target = "acknowledged" =>
          [action |-> "acknowledged", user |-> r.user, at |-> job[w].now] \in audit'
    BY <2>6 DEF AuditRecord
  <2>9. ASSUME NEW i \in DOMAIN dispatches, i # f
        PROVE  IF dispatches'[i].at["acknowledged"] = 0 THEN dispatches'[i].by = "nobody"
               ELSE [action |-> "acknowledged", user |-> dispatches'[i].by,
                     at |-> dispatches'[i].at["acknowledged"]] \in audit'
    BY <1>1, <2>7, <2>9 DEF AnswererIsOnRecord
  <2>10. IF row.at["acknowledged"] = 0 THEN row.by = "nobody"
         ELSE [action |-> "acknowledged", user |-> row.by,
               at |-> row.at["acknowledged"]] \in audit'
    <3>1. CASE r.target = "acknowledged"
      BY <2>2, <2>4, <2>5, <2>8, <3>1
    <3>2. CASE r.target # "acknowledged"
      BY <1>1, <2>2, <2>4, <2>5, <3>2 DEF AnswererIsOnRecord
    <3> QED
      BY <3>1, <3>2
  <2> QED
    BY <2>7, <2>9, <2>10 DEF AnswererIsOnRecord
<1>5. Next => dispatches' = dispatches \/ \E w \in Workers : RecordRaise(w) \/ RecordAdvance(w)
  BY DEF Next, Receive, Authorise, RefuseCaller, AcceptRaise, RefuseRaise, ConflictingRaise,
         AcceptAdvance, RefuseAdvance, RefusedByCheck, Crash, Denied, Dropped
<1> QED
  BY <1>2, <1>3, <1>4, <1>5 DEF vars

\* The responder named on a dispatch made the acknowledgement timed beside the
\* name, also when two acknowledge at once.
THEOREM AnswererAcknowledged == Spec => []AnswererIsOnRecord
<1>1. Init => AnswererIsOnRecord
  BY DEF Init, AnswererIsOnRecord
<1> QED
  BY <1>1, DispatchInvariant, AnswererStep, PTL DEF Spec

Column(action) == IF action = "raise" THEN "raised" ELSE StampOf(action)

\* Beside DispatchInv each stamp has its audit row and each audit row its stamp: a
\* later request for the same step writes both anew, none takes a stamp back.
LEMMA StampsStep ==
  ASSUME DispatchInv, StampsAreAudited, [Next]_vars
  PROVE  StampsAreAudited'
<1> TypeOK
  BY DEF DispatchInv
<1>1. CASE UNCHANGED <<dispatches, audit>>
  BY <1>1 DEF StampsAreAudited
<1>2. ASSUME NEW a, a.action = "refused", audit' = audit \cup {a}, dispatches' = dispatches
      PROVE  StampsAreAudited'
  BY <1>2 DEF StampsAreAudited
<1>3. ASSUME NEW w \in Workers, RecordRaise(w)
      PROVE  StampsAreAudited'
  <2> DEFINE row == [state |-> "pending", by |-> "nobody",
                     at |-> [c \in Stamps |-> IF c = "raised" THEN job[w].now ELSE 0]]
             entry == [action |-> "raise", user |-> job[w].req.user, at |-> job[w].now]
  <2>1. job[w] # idle /\ Warranted(w) /\ job[w].pc = "ready" /\ clock \in Nat
    BY <1>3, BusyWorker DEF RecordRaise, At, DispatchInv, TypeOK
  <2>2. job[w].now # 0
    BY <2>1 DEF Warranted
  <2>3. /\ row.at["raised"] = job[w].now
        /\ \A c \in Stamps : row.at[c] # 0 => c = "raised"
        /\ entry.action = "raise" /\ entry.at = job[w].now
    BY DEF Stamps
  <2> HIDE DEF row, entry
  <2>4. dispatches' = <<row>> /\ dispatches = <<>> /\ audit' = audit \cup {entry}
    BY <1>3 DEF RecordRaise, UniqueAdmits, AuditRecord, row, entry
  <2>5. DOMAIN dispatches' = {1} /\ dispatches'[1] = row /\ DOMAIN dispatches = {}
    BY <2>4
  <2>6. \A a \in audit : a.action = "refused"
    BY <2>5 DEF StampsAreAudited
  <2>7. \A i \in DOMAIN dispatches', c \in Stamps :
          dispatches'[i].at[c] # 0 =>
            c = "raised" /\ entry \in audit' /\ entry.at = dispatches'[i].at[c]
    BY <2>3, <2>4, <2>5
  <2>8. ASSUME NEW a \in audit', a.action # "refused"
        PROVE  dispatches'[1].at[Column(a.action)] # 0
    <3>1. a = entry
      BY <2>4, <2>6, <2>8
    <3> QED
      BY <2>2, <2>3, <2>5, <3>1 DEF Column
  <2> QED
    BY <2>3, <2>5, <2>7, <2>8 DEF StampsAreAudited, Column
<1>4. ASSUME NEW w \in Workers, RecordAdvance(w)
      PROVE  StampsAreAudited'
  <2> DEFINE f == job[w].found
             r == job[w].req
             now == job[w].now
             old == dispatches[f]
             row == NewRow(w)
             entry == [action |-> r.target, user |-> r.user, at |-> now]
  <2>1. job[w] # idle /\ At(w, "ready", "advance") /\ Warranted(w) /\ clock \in Nat
    BY <1>4, BusyWorker DEF RecordAdvance, At, DispatchInv, TypeOK
  <2>2. now \in Nat /\ now # 0 /\ f \in DOMAIN dispatches
        /\ r.target \in States \ {"pending"} /\ r.user \in Callers
    BY <2>1, JobFields DEF Warranted, At
  <2>3. old \in DispatchRow
    BY <2>2 DEF TypeOK
  <2>4. \A c \in Stamps : row.at[c] = IF c = StampOf(r.target) THEN now ELSE old.at[c]
    <3>1. row.at = [old.at EXCEPT ![StampOf(r.target)] = now]
      BY <2>2, <2>3, AdvancedRow DEF NewRow
    <3> QED
      BY <2>3, <3>1 DEF DispatchRow
  <2>5. /\ entry.action = r.target /\ entry.at = now
        /\ r.target # "refused" /\ r.target # "raise"
        /\ StampOf(r.target) \in Stamps
    BY <2>2, StampOfState DEF States
  <2>6. dispatches' = [dispatches EXCEPT ![f] = row] /\ audit' = audit \cup {entry}
    BY <1>4 DEF RecordAdvance, AuditRecord
  <2> HIDE DEF row, entry
  <2>7. DOMAIN dispatches' = DOMAIN dispatches
        /\ \A i \in DOMAIN dispatches : dispatches'[i] = IF i = f THEN row ELSE dispatches[i]
    BY <2>6
  <2>8. ASSUME NEW i \in DOMAIN dispatches', NEW c \in Stamps, dispatches'[i].at[c] # 0
        PROVE  \E a \in audit' :
                 /\ a.at = dispatches'[i].at[c]
                 /\ IF a.action = "raise" THEN c = "raised"
                    ELSE a.action # "refused" /\ c = StampOf(a.action)
    <3>1. CASE i = f /\ c = StampOf(r.target)
      BY <2>2, <2>4, <2>5, <2>6, <2>7, <3>1
    <3>2. CASE ~(i = f /\ c = StampOf(r.target))
      <4>1. dispatches'[i].at[c] = dispatches[i].at[c]
        BY <2>2, <2>4, <2>7, <2>8, <3>2
      <4> QED
        BY <2>6, <2>7, <2>8, <4>1 DEF StampsAreAudited
    <3> QED
      BY <3>1, <3>2
  <2>9. ASSUME NEW a \in audit', a.action # "refused"
        PROVE  \E i \in DOMAIN dispatches' : dispatches'[i].at[Column(a.action)] # 0
    <3>1. CASE a = entry
      BY <2>2, <2>4, <2>5, <2>7, <3>1 DEF Column
    <3>2. CASE a \in audit
      <4>1. PICK i \in DOMAIN dispatches : dispatches[i].at[Column(a.action)] # 0
        BY <2>9, <3>2 DEF StampsAreAudited, Column
      <4>2. Column(a.action) \in Stamps
        BY <2>9, <3>2, StampOfState DEF Column, TypeOK, AuditRow, Stamps
      <4> QED
        BY <2>2, <2>4, <2>7, <4>1, <4>2
    <3> QED
      BY <2>6, <3>1, <3>2
  <2> QED
    BY <2>8, <2>9 DEF StampsAreAudited, Column
<1>5. ASSUME NEW w \in Workers, RefuseCaller(w) \/ RefuseRaise(w) \/ RefuseAdvance(w)
      PROVE  \E a : a.action = "refused" /\ audit' = audit \cup {a} /\ dispatches' = dispatches
  <2>1. ASSUME NEW t
        PROVE  [action |-> "refused", user |-> job[w].req.user, at |-> t].action = "refused"
    OBVIOUS
  <2>2. \E t : /\ audit' = audit \cup {[action |-> "refused", user |-> job[w].req.user, at |-> t]}
               /\ dispatches' = dispatches
    BY <1>5 DEF RefuseCaller, RefuseRaise, RefuseAdvance, Denied, AuditRecord
  <2> QED
    BY <2>1, <2>2
<1>6. \/ UNCHANGED <<dispatches, audit>>
      \/ \E w \in Workers :
           \/ RefuseCaller(w) \/ RefuseRaise(w) \/ RefuseAdvance(w)
           \/ RecordRaise(w) \/ RecordAdvance(w)
  BY DEF Next, vars, Receive, Authorise, AcceptRaise, ConflictingRaise, AcceptAdvance,
         RefusedByCheck, Crash, Dropped
<1> QED
  BY <1>1, <1>2, <1>3, <1>4, <1>5, <1>6

\* Whatever stale requests commit, each time on the record is that of an audited
\* request for that very step, and each step audited as done left its time.
THEOREM EveryStampIsAudited == Spec => []StampsAreAudited
<1>1. Init => StampsAreAudited
  BY DEF Init, StampsAreAudited
<1> QED
  BY <1>1, DispatchInvariant, StampsStep, PTL DEF Spec

-----------------------------------------------------------------------------
(* The sound                                                               *)

\* A tone that a suspension did not interrupt is the one whose promise is open.
SoundInv ==
  /\ tones \in Nat /\ frozen \in Nat
  /\ tones = frozen \/ (isPlaying /\ tones = frozen + 1)
  /\ isPlaying => tones > 0

LEMMA SoundKeeps ==
  ASSUME SoundInv, NEW refs, NEW rest, Sound(refs, rest)
  PROVE  SoundInv'
<1>1. CASE isPlaying
  BY <1>1 DEF SoundInv, Sound, sound
<1>2. CASE ~isPlaying
  BY <1>2 DEF SoundInv, Sound, StartTone
<1> QED
  BY <1>1, <1>2

LEMMA BeepKeeps ==
  ASSUME SoundInv, NEW refs, NEW rest, Beep(refs, rest)
  PROVE  SoundInv'
<1>1. CASE \E r, c : Sound(r, c)
  BY <1>1, SoundKeeps
<1>2. CASE UNCHANGED sound
  BY <1>2 DEF SoundInv, sound
<1> QED
  BY <1>1, <1>2 DEF Beep, GiveUp, Wait

LEMMA AudioKeeps ==
  ASSUME SoundInv, AudioStep
  PROVE  SoundInv'
<1>1. ASSUME UNCHANGED sound
      PROVE  SoundInv'
  BY <1>1 DEF SoundInv, sound
<1>2. ASSUME NEW c \in calls, Enabled(c)
      PROVE  SoundInv'
  BY <1>1, <1>2, SoundKeeps DEF Enabled
<1>3. ASSUME NEW c \in calls, Resumed(c)
      PROVE  SoundInv'
  BY <1>3, SoundKeeps DEF Resumed
<1>4. ASSUME NEW c \in calls, Rejected(c)
      PROVE  SoundInv'
  BY <1>1, <1>4 DEF Rejected, GiveUp
<1>5. ASSUME NEW c \in calls, Echo(c)
      PROVE  SoundInv'
  BY <1>5, BeepKeeps DEF Echo
<1>6. CASE ToneEnds
  <2>1. /\ tones > 0 /\ tones' = tones - 1
        /\ frozen' = IF frozen > 0 THEN frozen - 1 ELSE 0
    BY <1>6 DEF ToneEnds
  <2>2. CASE isPlaying /\ tones = 1
    <3>1. ~isPlaying'
      BY <1>6, <2>2 DEF ToneEnds, Resolve
    <3> QED
      BY <2>1, <2>2, <3>1 DEF SoundInv
  <2>3. CASE ~(isPlaying /\ tones = 1)
    <3>1. UNCHANGED isPlaying
      BY <1>6, <2>3 DEF ToneEnds
    <3> QED
      BY <2>1, <2>3, <3>1 DEF SoundInv
  <2> QED
    BY <2>2, <2>3
<1>7. CASE TimerFires
  BY <1>7 DEF TimerFires, Resolve, SoundInv
<1>8. CASE Suspend
  BY <1>8 DEF Suspend, SoundInv
<1>9. CASE Gesture \/ EnableButton \/ MuteButton \/ TestButton
  BY <1>1, <1>9 DEF Gesture, EnableButton, MuteButton, TestButton
<1> QED
  BY <1>2, <1>3, <1>4, <1>5, <1>6, <1>7, <1>8, <1>9 DEF AudioStep

LEMMA StepKeepsSound == SoundInv /\ [QueueNext]_queueVars => SoundInv'
<1> SUFFICES ASSUME SoundInv, [QueueNext]_queueVars
             PROVE  SoundInv'
  OBVIOUS
<1>1. CASE UNCHANGED audio
  BY <1>1 DEF audio, sound, SoundInv
<1>2. ASSUME NEW items \in answers, Deliver(items)
      PROVE  SoundInv'
  <2>1. UNCHANGED audio \/ \E refs : Beep(refs, calls)
    BY <1>2 DEF Deliver
  <2> QED
    BY <2>1, <1>1, BeepKeeps
<1>3. CASE AudioStep
  BY <1>3, AudioKeeps
<1> QED
  BY <1>1, <1>2, <1>3 DEF QueueNext, queueVars, Poll, Fail, Restart, CaseStep

\* However the calls that waited for the browser come back (playEmergencyBeep looks at
\* isPlaying after its last wait), a tone sounds beside older ones only if a
\* suspension of the context had stopped those in the middle.
THEOREM NoOverlap == QueueSpec => []OneToneAtATime
<1>1. QueueInit => SoundInv
  <2>1. QueueInit => ~isPlaying /\ tones = 0 /\ frozen = 0
    BY DEF QueueInit, AudioInit
  <2> QED
    BY <2>1 DEF SoundInv
<1>2. SoundInv => OneToneAtATime
  BY DEF SoundInv, OneToneAtATime
<1> QED
  BY <1>1, <1>2, StepKeepsSound, PTL DEF QueueSpec

-----------------------------------------------------------------------------
(* The alarm                                                               *)

\* Every emergency that has been seen was there from the start or has raised the
\* alarm, and what has not been seen has done neither.
Accounted ==
  /\ alarms \in [Reports -> {0, 1}]
  /\ incidents \subseteq seen /\ seeded \subseteq seen
  /\ ~loaded => seen = {}
  /\ \A r \in Reports :
       /\ alarms[r] = 1 => r \in seen \ seeded
       /\ r \in Emergencies \cap seen => r \in seeded \/ alarms[r] = 1

LEMMA StepAccounts == Accounted /\ [QueueNext]_queueVars => Accounted'
<1> SUFFICES ASSUME Accounted, [QueueNext]_queueVars
             PROVE  Accounted'
  OBVIOUS
<1>1. ASSUME NEW items \in answers, Deliver(items)
      PROVE  Accounted'
  <2> DEFINE new == (items \ seen) \cap Emergencies
  <2>1. /\ incidents' = items /\ seen' = seen \cup items /\ loaded' = TRUE
        /\ seeded' = IF loaded THEN seeded ELSE items
        /\ IF ~loaded \/ new = {} THEN UNCHANGED alarms
           ELSE alarms' = [r \in Reports |->
                  IF r \in new THEN alarms[r] + 1 ELSE alarms[r]]
    BY <1>1 DEF Deliver
  <2>2. new \cap seen = {} /\ new \subseteq Reports
    BY QueueAssumption DEF QueueAssumption
  <2>3. CASE ~loaded
    BY <2>1, <2>3 DEF Accounted
  <2>4. CASE loaded /\ new = {}
    BY <2>1, <2>4 DEF Accounted
  <2>5. CASE loaded /\ new # {}
    <3>1. \A r \in Reports : alarms'[r] = IF r \in new THEN 1 ELSE alarms[r]
      BY <2>1, <2>2, <2>5 DEF Accounted
    <3>2. alarms' \in [Reports -> {0, 1}]
      BY <3>1, <2>1, <2>5 DEF Accounted
    <3> QED
      BY <3>1, <3>2, <2>1, <2>2, <2>5 DEF Accounted
  <2> QED
    BY <2>3, <2>4, <2>5
<1>2. ASSUME NEW items \in answers, Fail(items)
      PROVE  Accounted'
  BY <1>2 DEF Fail, Accounted
<1>3. CASE UNCHANGED <<incidents, seen, loaded, seeded, alarms>>
  BY <1>3 DEF Accounted
<1> QED
  BY <1>1, <1>2, <1>3 DEF QueueNext, queueVars, page, Poll, Restart, CaseStep

\* Whatever the order in which answers, failures and filters come in, an emergency
\* that arrives raises one alarm, one the first answer held none, and none is on
\* display without (the .then of fetchQueue and seenIncidentRefs).
THEOREM OneAlarmEach == QueueSpec => []ArrivalsAlarmOnce
<1>1. QueueInit => Accounted
  BY DEF QueueInit, Accounted
<1>2. Accounted => ArrivalsAlarmOnce
  BY DEF Accounted, ArrivalsAlarmOnce
<1> QED
  BY <1>1, <1>2, StepAccounts, PTL DEF QueueSpec
================================================================================
