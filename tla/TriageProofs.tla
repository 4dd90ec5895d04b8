---------------------------- MODULE TriageProofs ----------------------------
(***************************************************************************)
(* Theorems about Triage, for every set of workers, officers, reports and  *)
(* requests, every policy of routing and every likeness of narratives.     *)
(***************************************************************************)
EXTENDS Triage, FiniteSetTheorems, TLAPS

-----------------------------------------------------------------------------
(* Requests in flight                                                      *)

FilingStages == {"filing", "related", "assisted"}
HumanStages == {"received", "authorised", "sighted", "read", "answered"}
HumanRequest == ViewRequest \cup OverrideRequest \cup ReviewRequest

Filing(j) == \E d : j \in [pc: FilingStages, req: FileRequest, draft: {d}]
Human(j) == \E s, x : j \in [pc: HumanStages, req: HumanRequest, sees: {s}, read: {x}]

Entitled(u, r) == RoleOf[u] \notin {"none", "student"} /\ r \in Stored /\ MayOpen(u, r)

\* What a worker may count on: an officer's request sees nothing the officer could
\* not open, and judges a link only from an end of it with the other in sight.
Served(w) ==
  \/ job[w] = idle
  \/ Filing(job[w])
  \/ /\ Human(job[w])
     /\ \A s \in job[w].sees : MayOpen(job[w].req.user, s)
     /\ job[w].pc # "received" => Entitled(job[w].req.user, job[w].req.report)
     /\ job[w].pc = "read" =>
          /\ job[w].req.kind \in {"override", "review"}
          /\ job[w].req.kind = "review" => OtherSideVisible(w)

LoggedWithinReach ==
  \A a \in audit : (a.outcome = "success" /\ a.on \in Pairs) =>
    \A s \in a.on : MayOpen(a.by, s)

AccessInv ==
  /\ job = [w \in Workers |-> job[w]]
  /\ status \in [Reports -> Statuses \cup {"absent"}]
  /\ \A w \in Workers : Served(w)
  /\ LoggedWithinReach

\* A report a responder finds in their queue is one they may open: the query and
\* the predicate state one rule, but for the cases that have ended.
LEMMA VisibleIsViewable ==
  ASSUME NEW u \in Users, RoleOf[u] \notin {"none", "student"},
         NEW r \in Reports, NEW st, visible_to(RoleOf[u], access_context(r), st)
  PROVE  MayOpen(u, r)
<1>1. RoleOf[u] \in {"security", "icc", "admin"}
  BY TriageAssumption DEF Roles
<1> QED
  BY <1>1 DEF MayOpen, visible_to, can_view_report, Reaches, Routed, access_context

LEMMA FilingFields ==
  ASSUME NEW j, Filing(j)
  PROVE  /\ j # idle /\ j.pc \in FilingStages /\ j.req \in FileRequest
         /\ j.req.kind = "file" /\ j.req.report \in Reports
<1>1. PICK d : j \in [pc: FilingStages, req: FileRequest, draft: {d}]
  BY DEF Filing
<1>2. j.pc \in FilingStages /\ j.req \in FileRequest
  BY <1>1
<1> QED
  BY <1>2 DEF FileRequest, FilingStages, idle

LEMMA HumanFields ==
  ASSUME NEW j, Human(j)
  PROVE  /\ j # idle /\ j.pc \in HumanStages
         /\ j.req \in HumanRequest /\ j.req.kind \in {"view", "override", "review"}
         /\ j.req.user \in Users /\ j.req.report \in Reports
         /\ j.req.kind = "review" => j.req.link \in Pairs
<1>1. PICK s, x : j \in [pc: HumanStages, req: HumanRequest, sees: {s}, read: {x}]
  BY DEF Human
<1>2. j.pc \in HumanStages /\ j.req \in HumanRequest
  BY <1>1
<1>3. j # idle
  BY <1>2 DEF idle, HumanStages
<1> HIDE <1>1
<1>4. \A q \in HumanRequest :
        /\ q.kind \in {"view", "override", "review"} /\ q.user \in Users /\ q.report \in Reports
        /\ q.kind = "review" => q.link \in Pairs
  BY DEF HumanRequest, ViewRequest, OverrideRequest, ReviewRequest
<1> QED
  BY <1>2, <1>3, <1>4

\* A step of a submission, and of an officer's request.
LEMMA StageUpdate ==
  ASSUME NEW j, Filing(j), NEW p \in FilingStages, NEW k, k = [j EXCEPT !.pc = p]
  PROVE  Filing(k) /\ k.pc = p /\ k.req = j.req
<1>1. PICK e : j \in [pc: FilingStages, req: FileRequest, draft: {e}]
  BY DEF Filing
<1>2. k \in [pc: FilingStages, req: FileRequest, draft: {e}]
  BY <1>1
<1> QED
  BY <1>1, <1>2 DEF Filing

LEMMA FilingUpdate ==
  ASSUME NEW j, Filing(j), NEW d, NEW k, k = [j EXCEPT !.draft = d]
  PROVE  Filing(k) /\ k.pc = j.pc /\ k.req = j.req /\ k.draft = d
<1>1. PICK e : j \in [pc: FilingStages, req: FileRequest, draft: {e}]
  BY DEF Filing
<1>2. k \in [pc: FilingStages, req: FileRequest, draft: {d}]
  BY <1>1
<1> QED
  BY <1>1, <1>2 DEF Filing

\* A step of a submission, as the worker takes it.
LEMMA DraftedJob ==
  ASSUME NEW w \in Workers, Filing(job[w]), job = [v \in Workers |-> job[v]],
         NEW p \in FilingStages, NEW d, Drafted(w, p, d)
  PROVE  \E k : /\ job' = [job EXCEPT ![w] = k]
                /\ Filing(k) /\ k.pc = p /\ k.req = job[w].req /\ k.draft = d
<1>1. PICK j, i, k : j = job[w] /\ i = [j EXCEPT !.pc = p] /\ k = [i EXCEPT !.draft = d]
  OBVIOUS
<1>2. job' = [job EXCEPT ![w] = k]
  BY <1>1 DEF Drafted
<1>3. Filing(j)
  BY <1>1
<1>4. Filing(k) /\ k.pc = p /\ k.req = j.req /\ k.draft = d
  <2>1. Filing(i) /\ i.pc = p /\ i.req = j.req
    BY <1>1, <1>3, StageUpdate
  <2>2. k = [i EXCEPT !.draft = d]
    BY <1>1
  <2> QED
    BY <2>1, <2>2, FilingUpdate
<1> QED
  BY <1>1, <1>2, <1>4

LEMMA HumanUpdate ==
  ASSUME NEW j, Human(j), NEW p \in HumanStages, NEW k, k = [j EXCEPT !.pc = p]
  PROVE  Human(k) /\ k.pc = p /\ k.req = j.req /\ k.sees = j.sees /\ k.read = j.read
<1>1. PICK s, x : j \in [pc: HumanStages, req: HumanRequest, sees: {s}, read: {x}]
  BY DEF Human
<1>2. [j EXCEPT !.pc = p] \in [pc: HumanStages, req: HumanRequest, sees: {s}, read: {x}]
  BY <1>1
<1> QED
  BY <1>1, <1>2 DEF Human

LEMMA SightUpdate ==
  ASSUME NEW j, Human(j), NEW y, NEW k, k = [j EXCEPT !.sees = y]
  PROVE  Human(k) /\ k.pc = j.pc /\ k.req = j.req /\ k.sees = y /\ k.read = j.read
<1>1. PICK s, x : j \in [pc: HumanStages, req: HumanRequest, sees: {s}, read: {x}]
  BY DEF Human
<1>2. k \in [pc: HumanStages, req: HumanRequest, sees: {y}, read: {x}]
  BY <1>1
<1> QED
  BY <1>1, <1>2 DEF Human

LEMMA ReadUpdate ==
  ASSUME NEW j, Human(j), NEW y, NEW k, k = [j EXCEPT !.read = y]
  PROVE  Human(k) /\ k.pc = j.pc /\ k.req = j.req /\ k.read = y /\ k.sees = j.sees
<1>1. PICK s, x : j \in [pc: HumanStages, req: HumanRequest, sees: {s}, read: {x}]
  BY DEF Human
<1>2. k \in [pc: HumanStages, req: HumanRequest, sees: {s}, read: {y}]
  BY <1>1
<1> QED
  BY <1>1, <1>2 DEF Human

-----------------------------------------------------------------------------
(* No link widens access                                                   *)

\* Nothing that was stored goes away, and nobody else is disturbed.
LEMMA ServedElsewhere ==
  ASSUME AccessInv, NEW w \in Workers, NEW j, job' = [job EXCEPT ![w] = j],
         status' = status, Served(w)', LoggedWithinReach'
  PROVE  AccessInv'
<1>1. /\ job' = [v \in Workers |-> job'[v]]
      /\ \A v \in Workers : v # w => job'[v] = job[v]
  BY DEF AccessInv
<1>2. ASSUME NEW v \in Workers, v # w
      PROVE  Served(v)'
  <2>1. job'[v] = job[v] /\ Served(v)
    BY <1>1, <1>2 DEF AccessInv
  <2> QED
    BY <2>1 DEF Served, Entitled, MayOpen, Stored, OtherSideVisible
<1> QED
  BY <1>1, <1>2 DEF AccessInv

\* Who is served at a stage beyond the first.
LEMMA ServedHuman ==
  ASSUME AccessInv, NEW w \in Workers, job[w].pc \in HumanStages
  PROVE  /\ Human(job[w]) /\ job[w] # idle
         /\ \A s \in job[w].sees : MayOpen(job[w].req.user, s)
         /\ job[w].pc # "received" => Entitled(job[w].req.user, job[w].req.report)
         /\ job[w].pc = "read" =>
              /\ job[w].req.kind \in {"override", "review"}
              /\ job[w].req.kind = "review" => OtherSideVisible(w)
<1>1. job[w] # idle /\ ~Filing(job[w])
  BY FilingFields DEF idle, HumanStages, FilingStages
<1> QED
  BY <1>1 DEF AccessInv, Served

LEMMA ServedFiling ==
  ASSUME AccessInv, NEW w \in Workers, job[w].pc \in FilingStages
  PROVE  Filing(job[w]) /\ job[w] # idle
BY HumanFields DEF AccessInv, Served, idle, HumanStages, FilingStages

\* A request that ends leaves a log no wider than it was.
LEMMA EndKeepsAccess ==
  ASSUME AccessInv, NEW w \in Workers, Finish(w), status' = status, LoggedWithinReach'
  PROVE  AccessInv'
<1>1. job' = [job EXCEPT ![w] = idle] /\ job'[w] = idle
  BY DEF Finish, AccessInv
<1> QED
  BY <1>1, ServedElsewhere DEF Served

LEMMA DeniedWithinReach ==
  ASSUME AccessInv, NEW w \in Workers, Logged(w, "denied")
  PROVE  LoggedWithinReach'
BY DEF AccessInv, LoggedWithinReach, Logged, MayOpen

LEMMA AccessStep == AccessInv /\ [Next]_vars => AccessInv'
<1> SUFFICES ASSUME AccessInv, [Next]_vars
             PROVE  AccessInv'
  OBVIOUS
<1>1. ASSUME audit' = audit
      PROVE  LoggedWithinReach'
  BY <1>1 DEF AccessInv, LoggedWithinReach, MayOpen
<1>2. ASSUME NEW w \in Workers, NEW q \in Requests, Receive(w, q)
      PROVE  AccessInv'
  <2>1. status' = status /\ audit' = audit
    BY <1>2 DEF Receive, stored
  <2>2. CASE q.kind = "file"
    <3>1. q \in FileRequest
      BY <2>2, TriageAssumption DEF ViewRequest, OverrideRequest, ReviewRequest
    <3>2. PICK j : j = [pc |-> "filing", req |-> q, draft |-> NoDraft]
      OBVIOUS
    <3>3. job' = [job EXCEPT ![w] = j]
      BY <1>2, <2>2, <3>2 DEF Receive
    <3>4. Filing(j)
      BY <3>1, <3>2 DEF Filing, FilingStages
    <3> HIDE <3>2
    <3>5. job'[w] = j
      BY <3>3 DEF AccessInv
    <3> QED
      BY <1>1, <2>1, <3>3, <3>4, <3>5, ServedElsewhere DEF Served
  <2>3. CASE q.kind # "file"
    <3>1. q \in HumanRequest
      BY <2>3, TriageAssumption DEF HumanRequest, FileRequest
    <3>2. PICK j : j = [pc |-> "received", req |-> q, sees |-> {}, read |-> NoRow]
      OBVIOUS
    <3>3. job' = [job EXCEPT ![w] = j]
      BY <1>2, <2>3, <3>2 DEF Receive
    <3>4. Human(j) /\ j.sees = {} /\ j.pc = "received"
      BY <3>1, <3>2 DEF Human, HumanStages
    <3> HIDE <3>2
    <3>5. job'[w] = j
      BY <3>3 DEF AccessInv
    <3> QED
      BY <1>1, <2>1, <3>3, <3>4, <3>5, ServedElsewhere DEF Served
  <2> QED
    BY <2>2, <2>3
<1>3. ASSUME NEW w \in Workers, NEW p \in FilingStages, NEW d, job[w].pc \in FilingStages,
             Drafted(w, p, d)
      PROVE  AccessInv'
  <2>1. Filing(job[w])
    BY <1>3, ServedFiling
  <2>2. PICK j : job' = [job EXCEPT ![w] = j] /\ Filing(j)
    BY <1>3, <2>1, DraftedJob DEF AccessInv
  <2>3. job'[w] = j
    BY <2>2 DEF AccessInv
  <2>4. status' = status /\ audit' = audit
    BY <1>3 DEF Drafted, stored
  <2> QED
    BY <1>1, <2>2, <2>3, <2>4, ServedElsewhere DEF Served
<1>4. ASSUME NEW w \in Workers, CommitFiling(w)
      PROVE  AccessInv'
  <2>1. job' = [job EXCEPT ![w] = idle] /\ audit' = audit
    BY <1>4 DEF CommitFiling, Finish
  <2>2. status' = [status EXCEPT ![job[w].req.report] = "submitted"]
    BY <1>4 DEF CommitFiling
  <2>3. status' \in [Reports -> Statuses \cup {"absent"}] /\ Stored \subseteq Stored'
    BY <2>2 DEF AccessInv, Stored, Statuses, Open
  <2>4. /\ job' = [v \in Workers |-> job'[v]] /\ job'[w] = idle
        /\ \A v \in Workers : v # w => job'[v] = job[v]
    BY <2>1 DEF AccessInv
  <2>5. ASSUME NEW v \in Workers
        PROVE  Served(v)'
    <3>1. CASE v = w
      BY <2>4, <3>1 DEF Served
    <3>2. CASE v # w
      <4>1. job'[v] = job[v] /\ Served(v)
        BY <2>4, <3>2 DEF AccessInv
      <4> QED
        BY <2>3, <4>1 DEF Served, Entitled, MayOpen, OtherSideVisible
    <3> QED
      BY <3>1, <3>2
  <2> QED
    BY <1>1, <2>1, <2>3, <2>4, <2>5 DEF AccessInv
<1>5. ASSUME NEW w \in Workers, Authorise(w)
      PROVE  AccessInv'
  <2>0. /\ Human(job[w]) /\ \A s \in job[w].sees : MayOpen(job[w].req.user, s)
    BY <1>5, ServedHuman DEF Authorise, HumanStages
  <2>1. PICK p \in {"sighted", "authorised"} : job' = [job EXCEPT ![w].pc = p]
    BY <1>5 DEF Authorise
  <2>2. PICK j : j = [job[w] EXCEPT !.pc = p]
    OBVIOUS
  <2>3. job' = [job EXCEPT ![w] = j] /\ job'[w] = j
    BY <2>1, <2>2 DEF AccessInv
  <2>4. Human(j) /\ j.pc = p /\ j.req = job[w].req /\ j.sees = job[w].sees
    BY <2>0, <2>2, HumanUpdate DEF HumanStages
  <2>5. status' = status /\ audit' = audit
    BY <1>5 DEF Authorise, stored
  <2>6. Entitled(job[w].req.user, job[w].req.report)
    BY <1>5 DEF Authorise, Entitled, can_use_responder_view, Caller
  <2> HIDE <2>1, <2>2
  <2>7. Served(w)'
    BY <2>0, <2>3, <2>4, <2>5, <2>6 DEF Served, Entitled, MayOpen, Stored
  <2> QED
    BY <1>1, <2>3, <2>5, <2>7, ServedElsewhere
<1>6. ASSUME NEW w \in Workers, Sight(w) \/ View(w)
      PROVE  AccessInv'
  <2>0. /\ Human(job[w]) /\ \A s \in job[w].sees : MayOpen(job[w].req.user, s)
        /\ Entitled(job[w].req.user, job[w].req.report)
    BY <1>6, ServedHuman DEF Sight, View, At, HumanStages
  <2>9. PICK p \in {"sighted", "answered"} : \E seen :
             /\ job' = [job EXCEPT ![w].pc = p, ![w].sees = seen]
             /\ seen \subseteq visible_report_ids(w) \/ seen \subseteq job[w].sees
    <3>1. CASE Sight(w)
      BY <3>1 DEF Sight
    <3>2. CASE View(w)
      <4>1. PICK y : y = related_for(job[w].req.report) \cap job[w].sees
        OBVIOUS
      <4>2. job' = [job EXCEPT ![w].pc = "answered", ![w].sees = y]
        BY <3>2, <4>1 DEF View, AccessInv
      <4>3. y \subseteq job[w].sees
        BY <4>1
      <4> HIDE <4>1
      <4> QED
        BY <4>2, <4>3
    <3> QED
      BY <1>6, <3>1, <3>2
  <2>1. PICK seen : /\ job' = [job EXCEPT ![w].pc = p, ![w].sees = seen]
                    /\ seen \subseteq visible_report_ids(w) \/ seen \subseteq job[w].sees
    BY <2>9
  <2>2. PICK j : j = [job[w] EXCEPT !.pc = p, !.sees = seen]
    OBVIOUS
  <2>3. job' = [job EXCEPT ![w] = j] /\ job'[w] = j
    BY <2>1, <2>2 DEF AccessInv
  <2>4. Human(j) /\ j.pc = p /\ j.req = job[w].req /\ j.sees = seen
    <3>1. PICK i : i = [job[w] EXCEPT !.pc = p]
      OBVIOUS
    <3>2. j = [i EXCEPT !.sees = seen]
      BY <2>2, <3>1
    <3>3. Human(i) /\ i.pc = p /\ i.req = job[w].req /\ i.sees = job[w].sees
      BY <2>0, <3>1, HumanUpdate DEF HumanStages
    <3> QED
      BY <3>2, <3>3, SightUpdate
  <2>5. status' = status /\ audit' = audit
    BY <1>6 DEF Sight, View, stored
  <2>6. ASSUME NEW s \in seen
        PROVE  MayOpen(job[w].req.user, s)
    <3>1. CASE s \in job[w].sees
      BY <2>0, <3>1
    <3>2. CASE s \in visible_report_ids(w)
      <4>1. s \in Reports /\ visible_to(RoleOf[job[w].req.user], access_context(s), status[s])
        BY <3>2 DEF visible_report_ids, Stored, Caller
      <4> QED
        BY <2>0, <4>1, HumanFields, VisibleIsViewable DEF Entitled
    <3> QED
      BY <2>1, <3>1, <3>2
  <2> HIDE <2>1, <2>2
  <2>7. Served(w)'
    <3>1. /\ Human(job'[w]) /\ job'[w].pc = p
          /\ job'[w].req.user = job[w].req.user /\ job'[w].req.report = job[w].req.report
          /\ \A s \in job'[w].sees : MayOpen(job[w].req.user, s)
      BY <2>3, <2>4, <2>6
    <3> QED
      BY <2>0, <2>5, <3>1 DEF Served, Entitled, MayOpen, Stored
  <2> QED
    BY <1>1, <2>3, <2>5, <2>7, ServedElsewhere
<1>7. ASSUME NEW w \in Workers, Read(w)
      PROVE  AccessInv'
  <2>0. /\ Human(job[w]) /\ \A s \in job[w].sees : MayOpen(job[w].req.user, s)
        /\ Entitled(job[w].req.user, job[w].req.report)
    BY <1>7, ServedHuman DEF Read, HumanStages
  <2>1. PICK x : job' = [job EXCEPT ![w].pc = "read", ![w].read = x]
    BY <1>7 DEF Read
  <2>2. PICK j : j = [job[w] EXCEPT !.pc = "read", !.read = x]
    OBVIOUS
  <2>3. job' = [job EXCEPT ![w] = j] /\ job'[w] = j
    BY <2>1, <2>2 DEF AccessInv
  <2>4. Human(j) /\ j.pc = "read" /\ j.req = job[w].req /\ j.sees = job[w].sees
    <3>1. PICK i : i = [job[w] EXCEPT !.pc = "read"]
      OBVIOUS
    <3>2. j = [i EXCEPT !.read = x]
      BY <2>2, <3>1
    <3>3. Human(i) /\ i.pc = "read" /\ i.req = job[w].req /\ i.sees = job[w].sees
      BY <2>0, <3>1, HumanUpdate DEF HumanStages
    <3> QED
      BY <3>2, <3>3, ReadUpdate
  <2>5. status' = status /\ audit' = audit
    BY <1>7 DEF Read, stored
  <2>6. /\ job[w].req.kind \in {"override", "review"}
        /\ job[w].req.kind = "review" => OtherSideVisible(w)
    BY <1>7 DEF Read, Judges, Judgeable
  <2> HIDE <2>1, <2>2
  <2>7. Served(w)'
    BY <2>0, <2>3, <2>4, <2>5, <2>6 DEF Served, Entitled, MayOpen, Stored, OtherSideVisible
  <2> QED
    BY <1>1, <2>3, <2>5, <2>7, ServedElsewhere
<1>8. ASSUME NEW w \in Workers, Judge(w)
      PROVE  AccessInv'
  <2>0. /\ Human(job[w]) /\ \A s \in job[w].sees : MayOpen(job[w].req.user, s)
        /\ MayOpen(job[w].req.user, job[w].req.report)
        /\ job[w].req.kind = "review" => OtherSideVisible(w)
    BY <1>8, ServedHuman DEF Judge, HumanStages, Entitled
  <2>1. Finish(w) /\ status' = status
    BY <1>8 DEF Judge
  <2>2. audit' = audit \cup {[by |-> job[w].req.user, on |-> Key(w),
                              verdict |-> job[w].req.verdict, outcome |-> "success"]}
    BY <1>8 DEF Judge, Logged
  <2>3. ASSUME Key(w) \in Pairs, NEW s \in Key(w)
        PROVE  MayOpen(job[w].req.user, s)
    <3>1. CASE job[w].req.kind = "review"
      BY <2>0, <2>3, <3>1 DEF Key, OtherSideVisible
    <3>2. CASE job[w].req.kind # "review"
      <4>1. job[w].req.report \in Reports
        BY <2>0, HumanFields
      <4> QED
        BY <2>3, <3>2, <4>1 DEF Key, Pairs
    <3> QED
      BY <3>1, <3>2
  <2>4. LoggedWithinReach'
    <3>1. ASSUME NEW a \in audit', a.outcome = "success", a.on \in Pairs, NEW s \in a.on
          PROVE  MayOpen(a.by, s)
      <4>1. CASE a \in audit
        BY <3>1, <4>1 DEF AccessInv, LoggedWithinReach
      <4>2. CASE a \notin audit
        <5>1. a.by = job[w].req.user /\ a.on = Key(w)
          BY <2>2, <4>2
        <5> QED
          BY <2>3, <3>1, <5>1
      <4> QED
        BY <4>1, <4>2
    <3> QED
      BY <3>1 DEF LoggedWithinReach, MayOpen
  <2> QED
    BY <2>1, <2>4, EndKeepsAccess
<1>9. ASSUME NEW w \in Workers, Refuse(w) \/ NotFound(w)
      PROVE  AccessInv'
  <2>1. Finish(w) /\ status' = status /\ Logged(w, "denied")
    BY <1>9 DEF Refuse, NotFound, Denied
  <2> QED
    BY <2>1, EndKeepsAccess, DeniedWithinReach
<1>10. ASSUME NEW w \in Workers, Dropped(w)
       PROVE  AccessInv'
  BY <1>1, <1>10, EndKeepsAccess DEF Dropped, stored
<1>11. ASSUME NEW r \in MayClose, Close(r)
       PROVE  AccessInv'
  <2>1. status' \in [Reports -> Statuses \cup {"absent"}] /\ Stored \subseteq Stored'
    BY <1>11 DEF Close, AccessInv, Stored, Statuses, Open, Terminal
  <2>2. job' = job /\ audit' = audit
    BY <1>11 DEF Close
  <2>3. ASSUME NEW v \in Workers
        PROVE  Served(v)'
    <3>1. Served(v)
      BY DEF AccessInv
    <3> QED
      BY <2>1, <2>2, <3>1 DEF Served, Entitled, MayOpen, OtherSideVisible
  <2> QED
    BY <1>1, <2>1, <2>2, <2>3 DEF AccessInv
<1>12. CASE UNCHANGED vars \/ Register
  <2>1. job' = job /\ audit' = audit /\ status' = status
    BY <1>12 DEF vars, stored, Register
  <2>2. ASSUME NEW v \in Workers
        PROVE  Served(v)'
    <3>1. Served(v)
      BY DEF AccessInv
    <3> QED
      BY <2>1, <3>1 DEF Served, Entitled, MayOpen, Stored, OtherSideVisible
  <2> QED
    BY <1>1, <2>1, <2>2 DEF AccessInv
<1>13. ASSUME NEW w \in Workers, Unassisted(w) \/ Classify(w) \/ EmbedAndRelate(w) \/ Score(w) \/ Fail(w)
       PROVE  AccessInv'
  <2>1. job[w].pc \in FilingStages
    BY <1>13 DEF Unassisted, Classify, EmbedAndRelate, Score, Fail, At, FilingStages
  <2>2. \E p \in FilingStages : \E d : Drafted(w, p, d)
    BY <1>13 DEF Unassisted, Classify, EmbedAndRelate, Score, Fail, FilingStages
  <2> QED
    BY <1>3, <2>1, <2>2
<1> QED
  BY <1>2, <1>4, <1>5, <1>6, <1>7, <1>8, <1>9, <1>10, <1>11, <1>12, <1>13
     DEF Next, Answer, BadCategory, Crash

\* "A link never widens access": no responder is shown, or gets to judge, a link
\* to a report they could not have opened on their own (TriageService.view_for,
\* _visible_report_ids).
THEOREM NoLinkWidensAccess == Spec => []LinksNeverWidenAccess
<1>1. Init => AccessInv
  BY DEF Init, AccessInv, Served, LoggedWithinReach
<1>2. AccessInv => LinksNeverWidenAccess
  <2> SUFFICES ASSUME AccessInv, NEW w \in Workers, job[w].pc = "answered", NEW s \in job[w].sees
               PROVE  MayOpen(job[w].req.user, s)
    BY DEF LinksNeverWidenAccess, AccessInv, LoggedWithinReach
  <2> QED
    BY ServedHuman DEF HumanStages
<1> QED
  BY <1>1, <1>2, AccessStep, PTL DEF Spec

-----------------------------------------------------------------------------
(* Types, and the last word                                                *)

DraftTyped(d) ==
  \E t : d \in [about: Categories \cup {NoCategory, None}, model: Models \cup {NoModel},
                proposes: {t}, band: Bands \cup {None}]

\* A session whose key is its own holds the row as it stands; no row goes away.
Fresh(w) ==
  job[w].pc = "read" =>
    /\ Key(w) \in Keys /\ RowOf(Key(w)) # NoRow /\ KnownCategory(w)
    /\ Key(w) \notin contested => job[w].read = RowOf(Key(w))

\* Two sessions that hold the same row have contested it.
ReadersApart ==
  \A v, w \in Workers :
    (v # w /\ job[v].pc = "read" /\ job[w].pc = "read" /\ Key(v) = Key(w)) => Key(w) \in contested

\* A report is filed once, and has no suggestion before it is.
FiledOnce ==
  /\ \A w \in Workers : job[w].pc \in FilingStages => job[w].req.report \notin Stored
  /\ \A v, w \in Workers :
       (v # w /\ job[v].pc \in FilingStages /\ job[w].pc \in FilingStages) =>
         job[v].req # job[w].req
  /\ \A r \in Reports : suggestions[r] # NoRow => r \in Stored

WordInv ==
  /\ AccessInv
  /\ TypeOK
  /\ lastWord = [k \in Keys |-> lastWord[k]]
  /\ \A w \in Workers : job[w].pc \in FilingStages => DraftTyped(job[w].draft)
  /\ FiledOnce
  /\ \A w \in Workers : Fresh(w)
  /\ ReadersApart
  /\ LastWordStands

LEMMA OwnKey == ASSUME NEW r PROVE (CHOOSE x \in {r} : TRUE) = r
OBVIOUS

\* The rows by their keys.
LEMMA RowsByKey ==
  /\ \A p \in Pairs : p \in Keys /\ RowOf(p) = links[p]
  /\ \A r \in Reports : {r} \in Keys /\ {r} \notin Pairs /\ RowOf({r}) = suggestions[r]
  /\ \A k \in Keys : k \in Pairs \/ \E r \in Reports : k = {r}
BY OwnKey DEF Keys, Pairs, RowOf

\* One worker moves on; no row is written, and none is read.
LEMMA QuietStep ==
  ASSUME WordInv, AccessInv', NEW w \in Workers, NEW j, job' = [job EXCEPT ![w] = j],
         UNCHANGED <<status, judgements, risk, active, embedded, lastWord, contested>>,
         j.pc # "read", j # idle => j.req \in Requests,
         j.pc \in FilingStages =>
           /\ DraftTyped(j.draft) /\ j.req.report \notin Stored
           /\ \A v \in Workers : (v # w /\ job[v].pc \in FilingStages) => job[v].req # j.req
  PROVE  WordInv'
<1>1. /\ job'[w] = j
      /\ \A v \in Workers : v # w => job'[v] = job[v]
  BY DEF WordInv, AccessInv
<1>2. /\ Stored' = Stored /\ contested' = contested
      /\ suggestions' = suggestions /\ links' = links /\ lastWord' = lastWord
  BY DEF Stored, judgements
<1>3. \A k : RowOf(k)' = RowOf(k)
  BY <1>2 DEF RowOf
<1>4. TypeOK'
  <2>1. \A v \in Workers : job'[v] # idle => job'[v].req \in Requests
    BY <1>1 DEF WordInv, TypeOK
  <2> QED
    BY <1>2, <2>1 DEF WordInv, TypeOK
<1>5. \A v \in Workers : job'[v].pc \in FilingStages => DraftTyped(job'[v].draft)
  BY <1>1 DEF WordInv
<1>6. FiledOnce'
  <2>1. \A v \in Workers : job'[v].pc \in FilingStages => job'[v].req.report \notin Stored
    BY <1>1 DEF WordInv, FiledOnce
  <2>2. ASSUME NEW u \in Workers, NEW v \in Workers, u # v,
               job'[u].pc \in FilingStages, job'[v].pc \in FilingStages
        PROVE  job'[u].req # job'[v].req
    BY <1>1, <2>2 DEF WordInv, FiledOnce
  <2> QED
    BY <1>2, <2>1, <2>2 DEF WordInv, FiledOnce
<1>7. ASSUME NEW v \in Workers
      PROVE  Fresh(v)'
  <2>1. CASE v = w
    BY <1>1, <2>1 DEF Fresh
  <2>2. CASE v # w
    <3>1. job'[v] = job[v] /\ Key(v)' = Key(v) /\ Fresh(v)
      BY <1>1, <2>2 DEF Key, WordInv
    <3> QED
      BY <1>2, <1>3, <3>1 DEF Fresh, KnownCategory
  <2> QED
    BY <2>1, <2>2
<1>8. ReadersApart'
  <2>1. ASSUME NEW u \in Workers, NEW v \in Workers, u # v, job'[u].pc = "read",
               job'[v].pc = "read", Key(u)' = Key(v)'
        PROVE  Key(v)' \in contested'
    <3>1. job'[u] = job[u] /\ job'[v] = job[v]
      BY <1>1, <2>1
    <3>2. Key(u)' = Key(u) /\ Key(v)' = Key(v)
      BY <3>1 DEF Key
    <3> QED
      BY <1>2, <2>1, <3>1, <3>2 DEF WordInv, ReadersApart
  <2> QED
    BY <2>1 DEF ReadersApart
<1>9. LastWordStands'
  BY <1>2, <1>3 DEF WordInv, LastWordStands
<1> QED
  BY <1>2, <1>4, <1>5, <1>6, <1>7, <1>8, <1>9 DEF WordInv

LEMMA EndKeepsWord ==
  ASSUME WordInv, AccessInv', NEW w \in Workers, Finish(w),
         UNCHANGED <<status, judgements, risk, active, embedded, lastWord, contested>>
  PROVE  WordInv'
<1>1. PICK j : j = idle
  OBVIOUS
<1>2. job' = [job EXCEPT ![w] = j] /\ j.pc # "read" /\ j.pc \notin FilingStages
  BY <1>1 DEF Finish, idle, FilingStages
<1> QED
  BY <1>1, <1>2, QuietStep

\* The key of a judgement in flight.
LEMMA JudgedKey ==
  ASSUME AccessInv, NEW w \in Workers, Human(job[w]), Judges(w)
  PROVE  /\ Key(w) \in Keys
         /\ job[w].req.kind = "review" => Key(w) \in Pairs
         /\ job[w].req.kind # "review" => Key(w) = {job[w].req.report} /\ job[w].req.report \in Reports
BY HumanFields, RowsByKey DEF Key

\* A session takes the row as it stands.
LEMMA ReadMoves ==
  ASSUME WordInv, NEW w \in Workers, Read(w)
  PROVE  \E j : /\ job' = [job EXCEPT ![w] = j]
               /\ j.pc = "read" /\ j.req = job[w].req /\ j.read = RowOf(Key(w)) /\ j # idle
<1>1. /\ Human(job[w]) /\ job[w] # idle
  BY ServedHuman DEF Read, HumanStages, WordInv
<1>2. PICK j : j = [job[w] EXCEPT !.pc = "read", !.read = RowOf(Key(w))]
  OBVIOUS
<1>3. job' = [job EXCEPT ![w] = j]
  BY <1>2 DEF Read, WordInv, AccessInv
<1>4. j.pc = "read" /\ j.req = job[w].req /\ j.read = RowOf(Key(w)) /\ j # idle
  <2>1. PICK x : x = RowOf(Key(w))
    OBVIOUS
  <2>2. PICK i : i = [job[w] EXCEPT !.pc = "read"]
    OBVIOUS
  <2>3. j = [i EXCEPT !.read = x]
    BY <1>2, <2>1, <2>2
  <2>4. Human(i) /\ i.pc = "read" /\ i.req = job[w].req
    BY <1>1, <2>2, HumanUpdate DEF HumanStages
  <2>5. Human(j) /\ j.pc = i.pc /\ j.req = i.req /\ j.read = x
    BY <2>3, <2>4, ReadUpdate
  <2> QED
    BY <2>1, <2>4, <2>5, HumanFields
<1> QED
  BY <1>3, <1>4

\* It has the row to itself, or contests it.
LEMMA ReadKeepsWord ==
  ASSUME WordInv, AccessInv', NEW w \in Workers, Read(w)
  PROVE  WordInv'
<1>1. /\ Human(job[w]) /\ job[w] # idle
  BY ServedHuman DEF Read, HumanStages, WordInv
<1>2. PICK j : /\ job' = [job EXCEPT ![w] = j]
               /\ j.pc = "read" /\ j.req = job[w].req /\ j.read = RowOf(Key(w)) /\ j # idle
  BY ReadMoves
<1>3. /\ job' = [job EXCEPT ![w] = j] /\ job'[w] = j
      /\ \A v \in Workers : v # w => job'[v] = job[v]
  BY <1>2 DEF WordInv, AccessInv
<1>4. j.pc = "read" /\ j.req = job[w].req /\ j.read = RowOf(Key(w)) /\ j # idle
  BY <1>2
<1>5. /\ status' = status /\ suggestions' = suggestions /\ links' = links
      /\ lastWord' = lastWord /\ active' = active /\ embedded' = embedded /\ risk' = risk
  BY DEF Read, stored, judgements
<1>6. Stored' = Stored /\ \A k : RowOf(k)' = RowOf(k)
  BY <1>5 DEF Stored, RowOf
<1>7. Judges(w) /\ Key(w) \in Keys /\ RowOf(Key(w)) # NoRow /\ KnownCategory(w)
  BY <1>1, JudgedKey DEF Read, Judgeable, WordInv
<1>8. \A v \in Workers : Key(v)' = Key(v) /\ job'[v].req = job[v].req
  BY <1>3, <1>4 DEF Key
<1>9. /\ contested \subseteq contested' /\ contested' \subseteq Keys
      /\ \A v \in Workers : (v # w /\ job[v].pc = "read" /\ Key(v) = Key(w)) => Key(w) \in contested'
  BY <1>7 DEF Read, WordInv, TypeOK
<1>10. TypeOK'
  <2>1. \A v \in Workers : job'[v] # idle => job'[v].req \in Requests
    BY <1>1, <1>3, <1>4 DEF WordInv, TypeOK
  <2> QED
    BY <1>5, <1>6, <1>9, <2>1 DEF WordInv, TypeOK
<1>11. j.pc \notin FilingStages
  BY <1>4 DEF FilingStages
<1>12. \A v \in Workers : job'[v].pc \in FilingStages => DraftTyped(job'[v].draft)
  BY <1>3, <1>11 DEF WordInv
<1>13. FiledOnce'
  BY <1>3, <1>5, <1>6, <1>11 DEF WordInv, FiledOnce
<1>14. ASSUME NEW v \in Workers
       PROVE  Fresh(v)'
  <2>1. CASE v = w
    BY <1>3, <1>4, <1>6, <1>7, <1>8, <2>1 DEF Fresh, KnownCategory
  <2>2. CASE v # w
    BY <1>3, <1>6, <1>8, <1>9, <2>2 DEF Fresh, KnownCategory, WordInv
  <2> QED
    BY <2>1, <2>2
<1>15. ReadersApart'
  <2>1. ASSUME NEW u \in Workers, NEW v \in Workers, u # v, job'[u].pc = "read",
               job'[v].pc = "read", Key(u)' = Key(v)'
        PROVE  Key(v)' \in contested'
    <3>1. Key(u) = Key(v) /\ Key(v)' = Key(v)
      BY <1>8, <2>1
    <3>2. CASE u = w \/ v = w
      BY <1>3, <1>9, <2>1, <3>1, <3>2
    <3>3. CASE u # w /\ v # w
      BY <1>3, <1>9, <2>1, <3>1, <3>3 DEF WordInv, ReadersApart
    <3> QED
      BY <3>2, <3>3
  <2> QED
    BY <2>1 DEF ReadersApart
<1>16. LastWordStands'
  BY <1>5, <1>6, <1>9 DEF WordInv, LastWordStands
<1> QED
  BY <1>5, <1>10, <1>12, <1>13, <1>14, <1>15, <1>16 DEF WordInv

\* What the UPDATE leaves: the columns that differ from what was read.
LEMMA FlushedRow ==
  ASSUME NEW x, x \in Suggestions \cup Links, NEW z, NEW v, NEW u,
         NEW y, y = Flushed(x, z, v, u)
  PROVE  /\ y.about = x.about
         /\ y \in [about: {x.about}, verdict: {x.verdict, v}, by: {x.by, u}]
         /\ z = x => y = [about |-> x.about, verdict |-> v, by |-> u]
<1>1. PICK p \in {x.verdict, v}, b \in {x.by, u} :
           /\ y = [x EXCEPT !.verdict = p, !.by = b]
           /\ z = x => p = v /\ b = u
  BY DEF Flushed
<1>2. x = [about |-> x.about, verdict |-> x.verdict, by |-> x.by]
  BY DEF Suggestions, Links
<1>3. y = [about |-> x.about, verdict |-> p, by |-> b]
  BY <1>1, <1>2
<1> QED
  BY <1>1, <1>3

\* A judgement leaves its row with the verdict and the name, when the session
\* had the row to itself.
LEMMA JudgeKeepsWord ==
  ASSUME WordInv, AccessInv', NEW w \in Workers, Judge(w)
  PROVE  WordInv'
<1>1. /\ Human(job[w]) /\ job[w].pc = "read"
      /\ Entitled(job[w].req.user, job[w].req.report)
  BY ServedHuman DEF Judge, HumanStages, WordInv
<1>2. /\ Key(w) \in Keys /\ RowOf(Key(w)) # NoRow /\ KnownCategory(w)
      /\ Key(w) \notin contested => job[w].read = RowOf(Key(w))
  BY <1>1 DEF WordInv, Fresh
<1>3. /\ job[w].req.kind = "review" => Key(w) \in Pairs
      /\ job[w].req.kind # "review" => Key(w) = {job[w].req.report} /\ job[w].req.report \in Reports
  BY <1>1, JudgedKey DEF Judge, WordInv
<1>4. /\ job'[w] = idle
      /\ \A v \in Workers : v # w => job'[v] = job[v]
  BY DEF Judge, Finish, WordInv, AccessInv
<1>5. PICK row : row = Flushed(RowOf(Key(w)), job[w].read, job[w].req.verdict, job[w].req.user)
  OBVIOUS
<1>6. /\ job[w].req.kind = "review" => links' = [links EXCEPT ![Key(w)] = row] /\ suggestions' = suggestions
      /\ job[w].req.kind # "review" =>
           suggestions' = [suggestions EXCEPT ![job[w].req.report] = row] /\ links' = links
      /\ lastWord' = [lastWord EXCEPT ![Key(w)] =
                        [about |-> row.about, verdict |-> job[w].req.verdict, by |-> job[w].req.user]]
      /\ status' = status /\ risk' = risk /\ active' = active /\ embedded' = embedded
      /\ contested' = contested
  BY <1>5 DEF Judge
<1>7. RowOf(Key(w)) \in Suggestions \cup Links
  BY <1>2, <1>3, RowsByKey DEF WordInv, TypeOK
<1>8. /\ row.about = RowOf(Key(w)).about
      /\ row \in [about: {RowOf(Key(w)).about}, verdict: {RowOf(Key(w)).verdict, job[w].req.verdict},
                  by: {RowOf(Key(w)).by, job[w].req.user}]
      /\ Key(w) \notin contested =>
           row = [about |-> row.about, verdict |-> job[w].req.verdict, by |-> job[w].req.user]
  BY <1>2, <1>5, <1>7, FlushedRow
<1> HIDE <1>5
<1>9. row # NoRow
  <2>1. \A x \in Suggestions \cup Links : x.about # None
    BY TriageAssumption DEF Suggestions, Links, LinkTypes, None, NoCategory
  <2>2. NoRow.about = None
    BY DEF NoRow
  <2> QED
    BY <1>7, <1>8, <2>1, <2>2
<1>10. /\ job[w].req.user \in Users
       /\ job[w].req.kind = "review" => job[w].req.verdict \in {"confirmed", "rejected"}
       /\ job[w].req.kind # "review" => job[w].req.verdict \in Categories
  <2>1. job[w].req \in OverrideRequest \cup ReviewRequest
    BY <1>1, HumanFields DEF Judge, Judges, HumanRequest, ViewRequest
  <2> QED
    BY <1>2, <2>1 DEF OverrideRequest, ReviewRequest, KnownCategory
<1>11. \A k \in Keys : RowOf(k)' = IF k = Key(w) THEN row ELSE RowOf(k)
  <2>1. CASE job[w].req.kind = "review"
    <3>1. \A p \in Pairs : links'[p] = IF p = Key(w) THEN row ELSE links[p]
      BY <1>3, <1>6, <2>1 DEF WordInv, TypeOK
    <3> QED
      BY <1>3, <1>6, <2>1, <3>1, RowsByKey DEF RowOf
  <2>2. CASE job[w].req.kind # "review"
    <3>1. \A r \in Reports : suggestions'[r] = IF r = job[w].req.report THEN row ELSE suggestions[r]
      BY <1>3, <1>6, <2>2 DEF WordInv, TypeOK
    <3>2. \A p \in Pairs : RowOf(p)' = RowOf(p) /\ p # Key(w)
      BY <1>3, <1>6, <2>2, RowsByKey DEF RowOf
    <3>3. \A r \in Reports : RowOf({r})' = suggestions'[r]
      BY OwnKey, RowsByKey DEF RowOf
    <3>4. ASSUME NEW r \in Reports
          PROVE  RowOf({r})' = IF {r} = Key(w) THEN row ELSE RowOf({r})
      <4>1. {r} = Key(w) <=> r = job[w].req.report
        BY <1>3, <2>2
      <4>2. RowOf({r})' = suggestions'[r] /\ RowOf({r}) = suggestions[r]
        BY <3>3, RowsByKey
      <4>3. suggestions'[r] = IF r = job[w].req.report THEN row ELSE suggestions[r]
        BY <3>1
      <4> QED
        BY <4>1, <4>2, <4>3
    <3>5. ASSUME NEW k \in Keys
          PROVE  RowOf(k)' = IF k = Key(w) THEN row ELSE RowOf(k)
      <4>1. CASE k \in Pairs
        BY <3>2, <4>1
      <4>2. CASE k \notin Pairs
        <5>1. PICK r \in Reports : k = {r}
          BY <4>2, RowsByKey
        <5> QED
          BY <3>4, <5>1
      <4> QED
        BY <4>1, <4>2
    <3> QED
      BY <3>5
  <2> QED
    BY <2>1, <2>2
<1>12. TypeOK'
  <2>1. suggestions' \in [Reports -> Suggestions \cup {NoRow}]
    <3>1. CASE job[w].req.kind = "review"
      BY <1>6, <3>1 DEF WordInv, TypeOK
    <3>2. CASE job[w].req.kind # "review"
      <4>1. RowOf(Key(w)) \in Suggestions
        BY <1>2, <1>3, <3>2, RowsByKey DEF WordInv, TypeOK
      <4>2. row \in Suggestions
        BY <1>8, <1>10, <3>2, <4>1 DEF Suggestions
      <4> QED
        BY <1>3, <1>6, <3>2, <4>2 DEF WordInv, TypeOK
    <3> QED
      BY <3>1, <3>2
  <2>2. links' \in [Pairs -> Links \cup {NoRow}]
    <3>1. CASE job[w].req.kind # "review"
      BY <1>6, <3>1 DEF WordInv, TypeOK
    <3>2. CASE job[w].req.kind = "review"
      <4>1. RowOf(Key(w)) \in Links
        BY <1>2, <1>3, <3>2, RowsByKey DEF WordInv, TypeOK
      <4>2. row \in Links
        BY <1>8, <1>10, <3>2, <4>1 DEF Links
      <4> QED
        BY <1>3, <1>6, <3>2, <4>2 DEF WordInv, TypeOK
    <3> QED
      BY <3>1, <3>2
  <2>3. \A v \in Workers : job'[v] # idle => job'[v].req \in Requests
    BY <1>4 DEF WordInv, TypeOK
  <2> QED
    BY <1>6, <2>1, <2>2, <2>3 DEF WordInv, TypeOK, Stored
<1>13. \A v \in Workers : job'[v].pc \in FilingStages \cup {"read"} => v # w /\ job'[v] = job[v]
  BY <1>4 DEF idle, FilingStages
<1>14. \A v \in Workers : job'[v].pc \in FilingStages => DraftTyped(job'[v].draft)
  BY <1>13 DEF WordInv
<1>15. FiledOnce'
  <2>1. \A r \in Reports : suggestions'[r] # NoRow => r \in Stored'
    BY <1>1, <1>3, <1>6 DEF WordInv, FiledOnce, TypeOK, Entitled, Stored
  <2> QED
    BY <1>6, <1>13, <2>1 DEF WordInv, FiledOnce, Stored
<1>16. ASSUME NEW v \in Workers
       PROVE  Fresh(v)'
  <2> SUFFICES ASSUME job'[v].pc = "read"
               PROVE  Fresh(v)'
    BY DEF Fresh
  <2>1. v # w /\ job'[v] = job[v] /\ Key(v)' = Key(v) /\ Fresh(v)
    BY <1>13 DEF Key, WordInv
  <2>2. Key(v) = Key(w) => Key(v) \in contested
    BY <1>1, <2>1 DEF WordInv, ReadersApart
  <2> QED
    BY <1>6, <1>9, <1>11, <2>1, <2>2 DEF Fresh, KnownCategory
<1>17. ReadersApart'
  <2>1. \A v \in Workers : job'[v].pc = "read" => job[v].pc = "read" /\ Key(v)' = Key(v)
    BY <1>13 DEF Key
  <2> QED
    BY <1>6, <2>1 DEF WordInv, ReadersApart
<1>18. LastWordStands'
  <2>1. \A k \in Keys : lastWord'[k] = IF k = Key(w)
          THEN [about |-> row.about, verdict |-> job[w].req.verdict, by |-> job[w].req.user]
          ELSE lastWord[k]
    BY <1>2, <1>6 DEF WordInv
  <2> QED
    BY <1>6, <1>8, <1>11, <2>1 DEF WordInv, LastWordStands
<1> QED
  BY <1>6, <1>12, <1>14, <1>15, <1>16, <1>17, <1>18 DEF WordInv

\* What a submission has drafted so far.
LEMMA DraftUpdate ==
  ASSUME NEW d, DraftTyped(d)
  PROVE  /\ \A a \in Categories \cup {NoCategory, None} : DraftTyped([d EXCEPT !.about = a])
         /\ \A b \in Bands \cup {None} : DraftTyped([d EXCEPT !.band = b])
<1>1. PICK t : d \in [about: Categories \cup {NoCategory, None}, model: Models \cup {NoModel},
                      proposes: {t}, band: Bands \cup {None}]
  BY DEF DraftTyped
<1> QED
  BY <1>1 DEF DraftTyped

LEMMA DraftedIsTyped ==
  ASSUME WordInv, NEW w \in Workers,
         Unassisted(w) \/ Classify(w) \/ EmbedAndRelate(w) \/ Score(w) \/ Fail(w)
  PROVE  \E p \in FilingStages : \E d : DraftTyped(d) /\ Drafted(w, p, d)
<1>0. DraftTyped(job[w].draft) /\ "related" \in FilingStages /\ "assisted" \in FilingStages
  BY DEF WordInv, Unassisted, Classify, EmbedAndRelate, Score, Fail, At, FilingStages
<1>1. CASE Unassisted(w)
  BY <1>0, <1>1 DEF Unassisted
<1>2. CASE Classify(w)
  BY <1>0, <1>2, DraftUpdate, TriageAssumption DEF Classify
<1>3. CASE EmbedAndRelate(w)
  <2>1. PICK c \in Labels : \E best :
          Drafted(w, "related", [about |-> c, model |-> active, proposes |-> best, band |-> None])
    BY <1>3 DEF EmbedAndRelate
  <2>2. \A best : DraftTyped([about |-> c, model |-> active, proposes |-> best, band |-> None])
    BY TriageAssumption DEF DraftTyped, WordInv, TypeOK
  <2> QED
    BY <1>0, <2>1, <2>2
<1>4. CASE Score(w)
  <2>1. PICK n : Drafted(w, "assisted", [job[w].draft EXCEPT !.band = band_for(n)])
    BY <1>4 DEF Score
  <2>2. band_for(n) \in Bands
    BY DEF band_for, Bands
  <2> QED
    BY <1>0, <2>1, <2>2, DraftUpdate
<1>5. CASE Fail(w)
  BY <1>0, <1>5, DraftUpdate, TriageAssumption DEF Fail
<1> QED
  BY <1>1, <1>2, <1>3, <1>4, <1>5

LEMMA DraftKeepsWord ==
  ASSUME WordInv, AccessInv', NEW w \in Workers,
         Unassisted(w) \/ Classify(w) \/ EmbedAndRelate(w) \/ Score(w) \/ Fail(w)
  PROVE  WordInv'
<1>0. PICK p \in FilingStages : \E d : DraftTyped(d) /\ Drafted(w, p, d)
  BY DraftedIsTyped
<1>1. PICK d : DraftTyped(d) /\ Drafted(w, p, d)
  BY <1>0
<1>2. job[w].pc \in FilingStages /\ Filing(job[w])
  BY ServedFiling DEF WordInv, Unassisted, Classify, EmbedAndRelate, Score, Fail, At, FilingStages
<1>3. PICK j : /\ job' = [job EXCEPT ![w] = j]
               /\ Filing(j) /\ j.pc = p /\ j.req = job[w].req /\ j.draft = d
  BY <1>1, <1>2, DraftedJob DEF WordInv, AccessInv
<1>6. UNCHANGED <<status, judgements, risk, active, embedded, lastWord, contested>>
  BY <1>1 DEF Drafted, stored, history
<1>7. job[w].req \in Requests /\ p # "read"
  BY <1>2, FilingFields DEF WordInv, TypeOK, FilingStages
<1>8. /\ job[w].req.report \notin Stored
      /\ \A v \in Workers : (v # w /\ job[v].pc \in FilingStages) => job[v].req # job[w].req
  BY <1>2 DEF WordInv, FiledOnce
<1> QED
  BY <1>1, <1>3, <1>6, <1>7, <1>8, QuietStep

\* A submission that commits writes only where there was no row.
LEMMA CommitKeepsWord ==
  ASSUME WordInv, AccessInv', NEW w \in Workers, CommitFiling(w)
  PROVE  WordInv'
<1>1. PICK r, d : r = job[w].req.report /\ d = job[w].draft
  OBVIOUS
<1>2. /\ job[w].pc \in FilingStages /\ Filing(job[w]) /\ r \in Reports
      /\ job[w].req \in FileRequest /\ r \notin Stored /\ DraftTyped(d)
  BY <1>1, ServedFiling, FilingFields DEF CommitFiling, At, FilingStages, WordInv, FiledOnce
<1>3. /\ status' = [status EXCEPT ![r] = "submitted"]
      /\ suggestions' = [suggestions EXCEPT ![r] = IF d.about = None THEN NoRow
                           ELSE [about |-> d.about, verdict |-> None, by |-> Nobody]]
      /\ risk' = [risk EXCEPT ![r] = d.band]
      /\ embedded' = [m \in Models |-> IF m = d.model THEN embedded[m] \cup {r} ELSE embedded[m]]
      /\ active' = active /\ lastWord' = lastWord /\ contested' = contested
  BY <1>1 DEF CommitFiling, history
<1>4. ASSUME NEW p \in Pairs
      PROVE  /\ links'[p] \in Links \cup {NoRow}
             /\ links[p] # NoRow => links'[p] = links[p]
  <2>1. \/ links'[p] = links[p]
        \/ /\ links[p] = NoRow
           /\ \E s : links'[p] = [about |-> LinkType(job[w].draft.model, job[w].req.report, s),
                                 verdict |-> None, by |-> Nobody]
    BY DEF CommitFiling
  <2>2. \A s : LinkType(job[w].draft.model, job[w].req.report, s) \in LinkTypes
    BY DEF LinkType, LinkTypes
  <2>3. \A t \in LinkTypes : [about |-> t, verdict |-> None, by |-> Nobody] \in Links
    BY DEF Links
  <2>4. links[p] \in Links \cup {NoRow}
    BY DEF WordInv, TypeOK
  <2> QED
    BY <2>1, <2>2, <2>3, <2>4
<1>5. links' \in [Pairs -> Links \cup {NoRow}]
  <2>1. links' = [p \in Pairs |-> links'[p]]
    BY DEF CommitFiling
  <2> QED
    BY <1>4, <2>1
<1>6. /\ job'[w] = idle
      /\ \A v \in Workers : v # w => job'[v] = job[v]
  BY DEF CommitFiling, Finish, WordInv, AccessInv
<1> HIDE <1>1
<1>7. Stored' = Stored \cup {r} /\ status' \in [Reports -> Statuses \cup {"absent"}]
  BY <1>2, <1>3 DEF WordInv, TypeOK, Stored, Statuses, Open
<1>8. suggestions[r] = NoRow
  BY <1>2 DEF WordInv, FiledOnce
<1>9. \A k \in Keys : RowOf(k) # NoRow => RowOf(k)' = RowOf(k)
  <2>1. \A p \in Pairs : RowOf(p)' = links'[p]
    BY DEF RowOf
  <2>2. \A q \in Reports : RowOf({q})' = suggestions'[q]
    BY OwnKey, RowsByKey DEF RowOf
  <2>3. \A q \in Reports : suggestions[q] # NoRow => suggestions'[q] = suggestions[q]
    BY <1>2, <1>3, <1>8 DEF WordInv, TypeOK
  <2>4. ASSUME NEW k \in Keys, RowOf(k) # NoRow
        PROVE  RowOf(k)' = RowOf(k)
    <3>1. CASE k \in Pairs
      <4>1. RowOf(k) = links[k] /\ RowOf(k)' = links'[k]
        BY <2>1, <3>1, RowsByKey
      <4> QED
        BY <1>4, <2>4, <3>1, <4>1
    <3>2. CASE k \notin Pairs
      <4>1. PICK q \in Reports : k = {q}
        BY <3>2, RowsByKey
      <4>2. RowOf(k) = suggestions[q] /\ RowOf(k)' = suggestions'[q]
        BY <2>2, <4>1, RowsByKey
      <4> QED
        BY <2>3, <2>4, <4>2
    <3> QED
      BY <3>1, <3>2
  <2> QED
    BY <2>4
<1>10. TypeOK'
  <2>1. d.about \in Categories \cup {NoCategory, None} /\ d.band \in Bands \cup {None}
    BY <1>2 DEF DraftTyped
  <2>2. suggestions' \in [Reports -> Suggestions \cup {NoRow}]
    <3>1. ASSUME d.about # None
          PROVE  [about |-> d.about, verdict |-> None, by |-> Nobody] \in Suggestions
      BY <2>1, <3>1 DEF Suggestions
    <3> QED
      BY <1>2, <1>3, <3>1 DEF WordInv, TypeOK
  <2>3. risk' \in [Reports -> Bands \cup {None}]
    BY <1>3, <2>1 DEF WordInv, TypeOK
  <2>4. /\ embedded' \in [Models -> SUBSET Stored'] /\ contested' \subseteq Keys
        /\ active' \in Models \cup {NoModel}
    BY <1>3, <1>7 DEF WordInv, TypeOK
  <2>5. \A v \in Workers : job'[v] # idle => job'[v].req \in Requests
    BY <1>6 DEF WordInv, TypeOK
  <2> QED
    BY <1>5, <1>7, <2>2, <2>3, <2>4, <2>5 DEF TypeOK
<1>11. \A v \in Workers : job'[v].pc \in FilingStages \cup {"read"} => v # w /\ job'[v] = job[v]
  BY <1>6 DEF idle, FilingStages
<1>12. \A v \in Workers : job'[v].pc \in FilingStages => DraftTyped(job'[v].draft)
  BY <1>11 DEF WordInv
<1>13. FiledOnce'
  <2>1. ASSUME NEW v \in Workers, job'[v].pc \in FilingStages
        PROVE  job'[v].req.report \notin Stored'
    <3>1. v # w /\ job'[v] = job[v]
      BY <1>11, <2>1
    <3>2. job[v].req \in FileRequest /\ job[v].req # job[w].req /\ job[v].req.report \notin Stored
      BY <1>2, <2>1, <3>1, ServedFiling, FilingFields DEF WordInv, FiledOnce
    <3>3. job[v].req.report # job[w].req.report
      BY <1>2, <3>2 DEF FileRequest
    <3>4. job[w].req.report = r
      BY <1>1
    <3> QED
      BY <1>7, <3>1, <3>2, <3>3, <3>4
  <2>2. \A q \in Reports : suggestions'[q] # NoRow => q \in Stored'
    BY <1>3, <1>7 DEF WordInv, FiledOnce, TypeOK
  <2>3. ASSUME NEW u \in Workers, NEW v \in Workers, u # v,
               job'[u].pc \in FilingStages, job'[v].pc \in FilingStages
        PROVE  job'[u].req # job'[v].req
    BY <1>11, <2>3 DEF WordInv, FiledOnce
  <2> QED
    BY <2>1, <2>2, <2>3 DEF FiledOnce
<1>14. ASSUME NEW v \in Workers
       PROVE  Fresh(v)'
  <2> SUFFICES ASSUME job'[v].pc = "read"
               PROVE  Fresh(v)'
    BY DEF Fresh
  <2>1. job'[v] = job[v] /\ Key(v)' = Key(v) /\ Fresh(v)
    BY <1>11 DEF Key, WordInv
  <2> QED
    BY <1>3, <1>9, <2>1 DEF Fresh, KnownCategory
<1>15. ReadersApart'
  <2>1. \A v \in Workers : job'[v].pc = "read" => job[v].pc = "read" /\ Key(v)' = Key(v)
    BY <1>11 DEF Key
  <2> QED
    BY <1>3, <2>1 DEF WordInv, ReadersApart
<1>16. LastWordStands'
  BY <1>3, <1>9 DEF WordInv, LastWordStands
<1> QED
  BY <1>3, <1>10, <1>12, <1>13, <1>14, <1>15, <1>16 DEF WordInv

LEMMA ReceiveKeepsWord ==
  ASSUME WordInv, AccessInv', NEW w \in Workers, NEW q \in Requests, Receive(w, q)
  PROVE  WordInv'
<1>1. UNCHANGED <<status, judgements, risk, active, embedded, lastWord, contested>>
  BY DEF Receive, stored
<1>2. CASE q.kind = "file"
  <2>1. PICK j : j = [pc |-> "filing", req |-> q, draft |-> NoDraft]
    OBVIOUS
  <2>2. job' = [job EXCEPT ![w] = j]
    BY <1>2, <2>1 DEF Receive
  <2>3. j.req = q /\ j.pc # "read" /\ DraftTyped(j.draft)
    BY <2>1 DEF DraftTyped, NoDraft
  <2>4. /\ q.report \notin Stored
        /\ \A v \in Workers : job[v].pc \in FilingStages => job[v].req # q
    BY <1>2 DEF Receive, idle, FilingStages
  <2> HIDE <2>1
  <2> QED
    BY <1>1, <2>2, <2>3, <2>4, QuietStep
<1>3. CASE q.kind # "file"
  <2>1. PICK j : j = [pc |-> "received", req |-> q, sees |-> {}, read |-> NoRow]
    OBVIOUS
  <2>2. job' = [job EXCEPT ![w] = j]
    BY <1>3, <2>1 DEF Receive
  <2>3. j.req = q /\ j.pc # "read" /\ j.pc \notin FilingStages
    BY <2>1 DEF FilingStages
  <2> HIDE <2>1
  <2> QED
    BY <1>1, <2>2, <2>3, QuietStep
<1> QED
  BY <1>2, <1>3

\* An officer's request gets to its next stage.
LEMMA StageMoves ==
  ASSUME WordInv, NEW w \in Workers, Authorise(w) \/ Sight(w) \/ View(w)
  PROVE  \E p \in {"sighted", "authorised", "answered"} : \E j :
           job' = [job EXCEPT ![w] = j] /\ j.pc = p /\ j.req = job[w].req
<1>0. Human(job[w]) /\ job[w] # idle
  BY ServedHuman DEF Authorise, Sight, View, At, HumanStages, WordInv
<1>1. CASE Authorise(w)
  <2>1. PICK p \in {"sighted", "authorised"} : job' = [job EXCEPT ![w].pc = p]
    BY <1>1 DEF Authorise
  <2>2. PICK j : j = [job[w] EXCEPT !.pc = p]
    OBVIOUS
  <2>3. job' = [job EXCEPT ![w] = j]
    BY <2>1, <2>2 DEF WordInv, AccessInv
  <2>4. p \in HumanStages
    BY DEF HumanStages
  <2>5. j.pc = p /\ j.req = job[w].req
    BY <1>0, <2>2, <2>4, HumanUpdate
  <2> QED
    BY <2>3, <2>5
<1>2. CASE Sight(w) \/ View(w)
  <2>0. PICK p \in {"sighted", "answered"} : \E y : job' = [job EXCEPT ![w].pc = p, ![w].sees = y]
    <3>1. CASE Sight(w)
      BY <3>1 DEF Sight
    <3>2. CASE View(w)
      <4>1. PICK y : y = related_for(job[w].req.report) \cap job[w].sees
        OBVIOUS
      <4>2. job' = [job EXCEPT ![w].pc = "answered", ![w].sees = y]
        BY <3>2, <4>1 DEF View, WordInv, AccessInv
      <4> QED
        BY <4>2
    <3> QED
      BY <1>2, <3>1, <3>2
  <2>1. PICK y : job' = [job EXCEPT ![w].pc = p, ![w].sees = y]
    BY <2>0
  <2>2. PICK i : i = [job[w] EXCEPT !.pc = p]
    OBVIOUS
  <2>3. PICK j : j = [i EXCEPT !.sees = y]
    OBVIOUS
  <2>4. job' = [job EXCEPT ![w] = j]
    BY <2>1, <2>2, <2>3 DEF WordInv, AccessInv
  <2>5. Human(i) /\ i.pc = p /\ i.req = job[w].req
    BY <1>0, <2>2, HumanUpdate DEF HumanStages
  <2>6. j.pc = p /\ j.req = job[w].req
    BY <2>3, <2>5, SightUpdate
  <2> QED
    BY <2>4, <2>6
<1> QED
  BY <1>1, <1>2

LEMMA StageKeepsWord ==
  ASSUME WordInv, AccessInv', NEW w \in Workers, Authorise(w) \/ Sight(w) \/ View(w)
  PROVE  WordInv'
<1>1. Human(job[w]) /\ job[w] # idle
  BY ServedHuman DEF Authorise, Sight, View, At, HumanStages, WordInv
<1>2. UNCHANGED <<status, judgements, risk, active, embedded, lastWord, contested>>
  BY DEF Authorise, Sight, View, stored, history
<1>3. PICK p \in {"sighted", "authorised", "answered"} : \E j :
           job' = [job EXCEPT ![w] = j] /\ j.pc = p /\ j.req = job[w].req
  BY StageMoves
<1>4. job[w].req \in Requests
  BY <1>1 DEF WordInv, TypeOK
<1>5. p # "read" /\ p \notin FilingStages
  BY DEF FilingStages
<1>6. PICK j : job' = [job EXCEPT ![w] = j] /\ j.pc = p /\ j.req = job[w].req
  BY <1>3
<1> QED
  BY <1>2, <1>4, <1>5, <1>6, QuietStep

\* A case is closed, a model registered.
LEMMA OutsideKeepsWord ==
  ASSUME WordInv, AccessInv', (\E r \in MayClose : Close(r)) \/ Register
  PROVE  WordInv'
<1>1. /\ job' = job /\ suggestions' = suggestions /\ links' = links /\ risk' = risk
      /\ embedded' = embedded /\ lastWord' = lastWord /\ contested' = contested
  BY DEF Close, Register, judgements, history
<1>2. Stored' = Stored /\ status' \in [Reports -> Statuses \cup {"absent"}]
  BY DEF Close, Register, WordInv, TypeOK, Stored, OpenReports, Statuses, Open, Terminal
<1>7. active' \in Models \cup {NoModel}
  BY TriageAssumption DEF Close, Register, WordInv, TypeOK, Models, NoModel
<1>3. (\A k : RowOf(k)' = RowOf(k)) /\ (\A v \in Workers : Key(v)' = Key(v))
  BY <1>1 DEF RowOf, Key
<1>4. TypeOK'
  BY <1>1, <1>2, <1>7 DEF WordInv, TypeOK
<1>5. FiledOnce' /\ LastWordStands' /\ ReadersApart'
  BY <1>1, <1>2, <1>3 DEF WordInv, FiledOnce, LastWordStands, ReadersApart
<1>6. \A v \in Workers : Fresh(v)'
  BY <1>1, <1>3 DEF WordInv, Fresh, KnownCategory
<1> QED
  BY <1>1, <1>4, <1>5, <1>6 DEF WordInv

LEMMA WordStep == WordInv /\ [Next]_vars => WordInv'
<1> SUFFICES ASSUME WordInv, [Next]_vars
             PROVE  WordInv'
  OBVIOUS
<1>1. AccessInv'
  BY AccessStep DEF WordInv
<1>2. ASSUME NEW w \in Workers, Refuse(w) \/ NotFound(w) \/ Dropped(w)
      PROVE  WordInv'
  <2>1. Finish(w) /\ UNCHANGED <<status, judgements, risk, active, embedded, lastWord, contested>>
    BY <1>2 DEF Refuse, NotFound, Dropped, Denied, stored, history
  <2> QED
    BY <1>1, <2>1, EndKeepsWord
<1>3. CASE UNCHANGED vars
  <2>1. UNCHANGED <<status, suggestions, links, risk, active, embedded, job, lastWord, contested>>
    BY <1>3 DEF vars, stored, judgements, history
  <2>2. Stored' = Stored /\ (\A k : RowOf(k)' = RowOf(k)) /\ (\A v \in Workers : Key(v)' = Key(v))
    BY <2>1 DEF Stored, RowOf, Key
  <2>3. TypeOK'
    BY <2>1, <2>2 DEF WordInv, TypeOK
  <2>4. FiledOnce' /\ LastWordStands' /\ ReadersApart'
    BY <2>1, <2>2 DEF WordInv, FiledOnce, LastWordStands, ReadersApart
  <2>5. \A v \in Workers : Fresh(v)'
    BY <2>1, <2>2 DEF WordInv, Fresh, KnownCategory
  <2> QED
    BY <1>1, <2>1, <2>3, <2>4, <2>5 DEF WordInv
<1> QED
  BY <1>1, <1>2, <1>3, ReceiveKeepsWord, DraftKeepsWord, CommitKeepsWord, StageKeepsWord,
     ReadKeepsWord, JudgeKeepsWord, OutsideKeepsWord
     DEF Next, Answer, BadCategory, Crash

LEMMA WordInitially == Init => WordInv
<1> SUFFICES ASSUME Init
             PROVE  WordInv
  OBVIOUS
<1>1. AccessInv
  BY DEF Init, AccessInv, Served, LoggedWithinReach
<1>2. \A w \in Workers : job[w] = idle /\ job[w].pc \notin FilingStages /\ job[w].pc # "read"
  BY DEF Init, idle, FilingStages
<1>3. TypeOK
  BY <1>2 DEF Init, TypeOK
<1>4. FiledOnce /\ LastWordStands /\ ReadersApart
  BY <1>2 DEF Init, FiledOnce, LastWordStands, ReadersApart
<1>5. (\A w \in Workers : Fresh(w)) /\ lastWord = [k \in Keys |-> lastWord[k]]
  BY <1>2 DEF Init, Fresh
<1> QED
  BY <1>1, <1>2, <1>3, <1>4, <1>5 DEF WordInv

\* The rows the classifier and the officers write have the types of their columns
\* (TriageService.run_for_report, record_override, review_link).
THEOREM TypesAreRight == Spec => []TypeOK
BY WordInitially, WordStep, PTL DEF Spec, WordInv

\* A judgement read and written by one session at a time is the last one given,
\* with the name of who gave it (TriageService.override_category, review_link).
THEOREM TheLastWordIsKept == Spec => []LastWordStands
BY WordInitially, WordStep, PTL DEF Spec, WordInv

-----------------------------------------------------------------------------
(* Alike reports are linked                                                *)

\* More reports are embedded than one reads.
Cut(m, r) == Cardinality(embedded[m] \ {r}) > EmbeddingLimit

\* A draft that embeds its report proposes every report that was there when its
\* filing began and is alike to the same model, or TOP_K that are at least as alike,
\* unless the limit may have cut one.
DraftCovers(r, d) ==
  /\ d.proposes \subseteq Stored
  /\ d.model \in Models \cup {NoModel}
  /\ d.model \in Models =>
       \A s \in before[r] \cap embedded[d.model] \cap OpenReports :
         Similarity[d.model][r][s] >= RELATED_THRESHOLD =>
           \/ s \in d.proposes
           \/ Cut(d.model, r)
           \/ /\ Cardinality(d.proposes) = TopK
              /\ \A t \in d.proposes : Similarity[d.model][r][t] >= Similarity[d.model][r][s]

DraftsCover ==
  \A w \in Workers : job[w].pc \in FilingStages => DraftCovers(job[w].req.report, job[w].draft)

\* The reports that crowd s out of the links of r.
Crowd(m, r, s) ==
  {t \in Reports \ {r, s} : /\ r \notin before[t]
                            /\ links[Pair(r, t)] # NoRow
                            /\ Similarity[m][r][t] >= Similarity[m][r][s]}

ProposalInv ==
  /\ WordInv
  /\ before = [r \in Reports |-> before[r]]
  /\ \A r \in Reports : before[r] \subseteq Stored \ {r}
  /\ \A p \in Pairs : links[p] # NoRow => p \subseteq Stored
  /\ DraftsCover
  /\ SimilarIsProposed

LEMMA PairsOfTwo ==
  \A r, s \in Reports : r # s => Pair(r, s) \in Pairs /\ Pair(r, s) = {r, s}
BY DEF Pairs, Pair

\* The property, said of the crowd.
LEMMA CrowdsOut ==
  ASSUME SimilarIsProposed, NEW m \in Models, NEW r \in embedded[m] \cap OpenReports,
         NEW s \in embedded[m] \cap OpenReports, s \in before[r],
         Similarity[m][r][s] >= RELATED_THRESHOLD
  PROVE  links[Pair(r, s)] # NoRow \/ Cut(m, r) \/ Cardinality(Crowd(m, r, s)) >= TopK
<1>1. Crowd(m, r, s) = {t \in Reports \ {r, s} : /\ r \notin before[t]
                                                 /\ links[Pair(r, t)] # NoRow
                                                 /\ Similarity[m][r][t] >= Similarity[m][r][s]}
  BY DEF Crowd
<1> QED
  BY <1>1, Zenon DEF SimilarIsProposed, Cut

LEMMA CutStays ==
  ASSUME NEW m \in Models, NEW r, embedded[m] \subseteq embedded'[m], embedded'[m] \subseteq Reports,
         Cut(m, r)
  PROVE  Cut(m, r)'
<1>1. IsFiniteSet(embedded'[m] \ {r}) /\ embedded[m] \ {r} \subseteq embedded'[m] \ {r}
  BY FS_Subset, TriageAssumption
<1>2. /\ Cardinality(embedded[m] \ {r}) <= Cardinality(embedded'[m] \ {r})
      /\ Cardinality(embedded[m] \ {r}) \in Nat /\ Cardinality(embedded'[m] \ {r}) \in Nat
  BY <1>1, FS_Subset, FS_CardinalityType
<1> QED
  BY <1>2, TriageAssumption DEF Cut

LEMMA CrowdGrows ==
  ASSUME NEW A \in SUBSET Reports, NEW B \in SUBSET Reports, A \subseteq B, Cardinality(A) >= TopK
  PROVE  Cardinality(B) >= TopK
<1>1. IsFiniteSet(B)
  BY FS_Subset, TriageAssumption
<1>2. /\ Cardinality(A) <= Cardinality(B) /\ Cardinality(A) \in Nat /\ Cardinality(B) \in Nat
  BY <1>1, FS_Subset, FS_CardinalityType
<1> QED
  BY <1>2, TriageAssumption

\* No report is stored and no link is made: what was linked stays so.
LEMMA QuietProposals ==
  ASSUME ProposalInv, WordInv', Stored' = Stored, embedded' = embedded,
         OpenReports' \subseteq OpenReports,
         before' = [r \in Reports |-> before'[r]],
         \A r \in Reports : before'[r] \subseteq Stored \ {r},
         \A r \in Stored : before'[r] = before[r],
         \A p \in Pairs : links'[p] # NoRow <=> links[p] # NoRow,
         DraftsCover'
  PROVE  ProposalInv'
<1>1. ASSUME NEW m \in Models, NEW r \in embedded[m] \cap OpenReports, NEW s \in Reports
      PROVE  Crowd(m, r, s) \subseteq Crowd(m, r, s)'
  <2>1. ASSUME NEW t \in Crowd(m, r, s)
        PROVE  t \in Crowd(m, r, s)'
    <3>1. /\ t \in Reports /\ r \in Reports /\ t # r /\ t # s /\ r \notin before[t]
          /\ links[Pair(r, t)] # NoRow /\ Similarity[m][r][t] >= Similarity[m][r][s]
      BY DEF Crowd, OpenReports
    <3>2. links'[Pair(r, t)] # NoRow /\ t \in Stored
      BY <3>1, PairsOfTwo DEF ProposalInv
    <3>3. r \notin before'[t]
      BY <3>1, <3>2
    <3> QED
      BY <3>1, <3>2, <3>3 DEF Crowd
  <2> QED
    BY <2>1
<1>2. SimilarIsProposed'
  <2>1. ASSUME NEW m \in Models, NEW r \in embedded'[m] \cap OpenReports',
               NEW s \in embedded'[m] \cap OpenReports', s \in before'[r],
               Similarity[m][r][s] >= RELATED_THRESHOLD, links'[Pair(r, s)] = NoRow, ~Cut(m, r)'
        PROVE  Cardinality(Crowd(m, r, s)') >= TopK
    <3>1. /\ r \in embedded[m] \cap OpenReports /\ r \in Stored /\ r \in Reports
          /\ s \in embedded[m] \cap OpenReports /\ s \in before[r] /\ s \in Reports
      BY <2>1 DEF ProposalInv, WordInv, TypeOK, Stored, OpenReports
    <3>2. r # s => links[Pair(r, s)] = NoRow
      BY <2>1, <3>1, PairsOfTwo
    <3>3. /\ Crowd(m, r, s) \subseteq Crowd(m, r, s)'
          /\ Crowd(m, r, s) \subseteq Reports /\ Crowd(m, r, s)' \subseteq Reports
      BY <1>1, <3>1 DEF Crowd
    <3>4. links[Pair(r, s)] # NoRow \/ Cut(m, r) \/ Cardinality(Crowd(m, r, s)) >= TopK
      BY <2>1, <3>1, CrowdsOut DEF ProposalInv
    <3>5. r # s
      BY <3>1 DEF ProposalInv
    <3>6. ~Cut(m, r)
      BY <2>1 DEF Cut
    <3> QED
      BY <3>2, <3>3, <3>4, <3>5, <3>6, CrowdGrows
  <2> QED
    BY <2>1 DEF SimilarIsProposed, Crowd, Cut
<1>3. \A p \in Pairs : links'[p] # NoRow => p \subseteq Stored'
  BY DEF ProposalInv
<1> QED
  BY <1>2, <1>3 DEF ProposalInv

\* What is embedded stays so, and what comes new was not stored.
EmbeddedGrows ==
  \A m \in Models : /\ embedded[m] \subseteq embedded'[m] /\ embedded'[m] \subseteq Reports
                    /\ embedded'[m] \cap Stored \subseteq embedded[m]

LEMMA CoversStays ==
  ASSUME NEW r, NEW d, DraftCovers(r, d), Stored \subseteq Stored', EmbeddedGrows,
         OpenReports' \cap Stored \subseteq OpenReports, before'[r] = before[r], before[r] \subseteq Stored
  PROVE  DraftCovers(r, d)'
<1>1. d.model \in Models /\ Cut(d.model, r) => Cut(d.model, r)'
  BY CutStays DEF EmbeddedGrows
<1> QED
  BY <1>1 DEF DraftCovers, EmbeddedGrows

\* One worker moves on, with a draft that covers; no report is stored.
LEMMA QuietMove ==
  ASSUME ProposalInv, WordInv', Stored' = Stored, embedded' = embedded,
         OpenReports' \subseteq OpenReports, before' = before,
         \A p \in Pairs : links'[p] # NoRow <=> links[p] # NoRow,
         NEW w \in Workers, NEW j, job' = [job EXCEPT ![w] = j],
         j.pc \in FilingStages => j.req.report \in Reports /\ DraftCovers(j.req.report, j.draft)
  PROVE  ProposalInv'
<1>1. EmbeddedGrows /\ \A r \in Reports : before[r] \subseteq Stored \ {r}
  BY DEF ProposalInv, WordInv, TypeOK, EmbeddedGrows, Stored
<1>2. ASSUME NEW v \in Workers, job'[v].pc \in FilingStages
      PROVE  DraftCovers(job[v].req.report, job[v].draft)'
  <2>1. PICK r, d : r = job'[v].req.report /\ d = job'[v].draft
    OBVIOUS
  <2>2. r \in Reports /\ DraftCovers(r, d)
    <3>1. CASE v = w
      <4>1. job'[v] = j
        BY <3>1 DEF ProposalInv, WordInv, AccessInv
      <4> QED
        BY <1>2, <2>1, <4>1
    <3>2. CASE v # w
      <4>1. job'[v] = job[v]
        BY <3>2 DEF ProposalInv, WordInv, AccessInv
      <4>2. DraftCovers(job[v].req.report, job[v].draft)
        BY <1>2, <4>1 DEF ProposalInv, DraftsCover
      <4>3. job[v].req.report \in Reports
        BY <1>2, <4>1, ServedFiling, FilingFields DEF ProposalInv, WordInv
      <4> QED
        BY <2>1, <4>1, <4>2, <4>3
    <3> QED
      BY <3>1, <3>2
  <2>3. DraftCovers(r, d)'
    BY <1>1, <2>2, CoversStays
  <2> QED
    BY <2>1, <2>3
<1>3. DraftsCover'
  BY <1>2 DEF DraftsCover
<1> QED
  BY <1>1, <1>3, QuietProposals DEF ProposalInv

LEMMA ReceiveKeepsProposals ==
  ASSUME ProposalInv, WordInv', NEW w \in Workers, NEW q \in Requests, Receive(w, q)
  PROVE  ProposalInv'
<1>1. /\ status' = status /\ links' = links /\ embedded' = embedded
      /\ Stored' = Stored /\ OpenReports' = OpenReports
  BY DEF Receive, stored, judgements, Stored, OpenReports
<1>2. CASE q.kind # "file"
  <2>1. PICK j : j = [pc |-> "received", req |-> q, sees |-> {}, read |-> NoRow]
    OBVIOUS
  <2>2. job' = [job EXCEPT ![w] = j] /\ before' = before
    BY <1>2, <2>1 DEF Receive
  <2>3. j.pc \notin FilingStages
    BY <2>1 DEF FilingStages
  <2> HIDE <2>1
  <2> QED
    BY <1>1, <2>2, <2>3, QuietMove
<1>3. CASE q.kind = "file"
  <2>1. q \in FileRequest /\ q.report \in Reports \ Stored
    BY <1>3, TriageAssumption DEF FileRequest, ViewRequest, OverrideRequest, ReviewRequest, Receive
  <2>2. before' = [before EXCEPT ![q.report] = Stored]
    BY <1>3 DEF Receive
  <2>3. /\ before' = [r \in Reports |-> before'[r]]
        /\ \A r \in Reports : before'[r] \subseteq Stored \ {r}
        /\ \A r \in Reports \ {q.report} : before'[r] = before[r]
    BY <2>1, <2>2 DEF ProposalInv
  <2>4. PICK j : j = [pc |-> "filing", req |-> q, draft |-> NoDraft]
    OBVIOUS
  <2>5. job' = [job EXCEPT ![w] = j]
    BY <1>3, <2>4 DEF Receive
  <2>6. j.draft.proposes = {} /\ j.draft.model = NoModel
    BY <2>4 DEF NoDraft
  <2> HIDE <2>4
  <2>7. ASSUME NEW v \in Workers, job'[v].pc \in FilingStages
        PROVE  DraftCovers(job[v].req.report, job[v].draft)'
    <3>1. CASE v = w
      <4>1. job'[v] = j
        BY <2>5, <3>1 DEF ProposalInv, WordInv, AccessInv
      <4> QED
        BY <2>6, <4>1 DEF DraftCovers, Models, NoModel
    <3>2. CASE v # w
      <4>1. job'[v] = job[v]
        BY <2>5, <3>2 DEF ProposalInv, WordInv, AccessInv
      <4>2. DraftCovers(job[v].req.report, job[v].draft)
        BY <2>7, <4>1 DEF ProposalInv, DraftsCover
      <4>3. job[v].req \in FileRequest /\ job[v].req.report \in Reports /\ job[v] # idle
        BY <2>7, <4>1, ServedFiling, FilingFields DEF ProposalInv, WordInv
      <4>4. job[v].req # q
        BY <1>3, <4>3 DEF Receive
      <4>5. job[v].req.report # q.report
        BY <2>1, <4>3, <4>4 DEF FileRequest
      <4>6. PICK r, d : r = job[v].req.report /\ d = job[v].draft
        OBVIOUS
      <4>7. DraftCovers(r, d)'
        BY <1>1, <2>3, <4>2, <4>3, <4>5, <4>6, CoversStays
           DEF ProposalInv, WordInv, TypeOK, EmbeddedGrows, Stored
      <4> QED
        BY <4>1, <4>6, <4>7
    <3> QED
      BY <3>1, <3>2
  <2>8. DraftsCover'
    BY <2>7 DEF DraftsCover
  <2>9. \A r \in Stored : before'[r] = before[r]
    BY <2>1, <2>3 DEF Stored
  <2> QED
    BY <1>1, <2>3, <2>8, <2>9, QuietProposals
<1> QED
  BY <1>2, <1>3

\* The first TOP_K of the candidates, or all of them.
LEMMA TheMostAlike ==
  ASSUME NEW m \in Models, NEW r \in Reports, NEW alike \in SUBSET Reports,
         NEW best \in MostAlike(m, r, alike)
  PROVE  /\ best \subseteq alike
         /\ \A s \in alike \ best :
              Cardinality(best) = TopK /\ \A t \in best : Similarity[m][r][t] >= Similarity[m][r][s]
<1>1. /\ best \subseteq alike /\ Cardinality(best) = Least(TopK, Cardinality(alike))
      /\ \A t \in best, s \in alike \ best : Similarity[m][r][t] >= Similarity[m][r][s]
  BY DEF MostAlike, kSubset
<1>2. IsFiniteSet(alike)
  BY FS_Subset, TriageAssumption
<1>3. /\ Cardinality(best) <= Cardinality(alike) /\ Cardinality(alike) \in Nat
      /\ Cardinality(alike) = Cardinality(best) => best = alike
  BY <1>1, <1>2, FS_Subset, FS_CardinalityType
<1> QED
  BY <1>1, <1>3, TriageAssumption DEF Least

\* What is read of the embeddings, unless the limit cuts it.
LEMMA TheEmbeddings ==
  ASSUME NEW m \in Models, NEW r, embedded[m] \subseteq Reports,
         NEW candidates \in embeddings_for_model(m, r)
  PROVE  /\ candidates \subseteq (embedded[m] \cap OpenReports) \ {r}
         /\ Cut(m, r) \/ candidates = (embedded[m] \cap OpenReports) \ {r}
<1>1. PICK rows : rows = (embedded[m] \cap OpenReports) \ {r}
  OBVIOUS
<1>2. candidates \subseteq rows /\ Cardinality(candidates) = Least(EmbeddingLimit, Cardinality(rows))
  BY <1>1 DEF embeddings_for_model, kSubset
<1>3. IsFiniteSet(embedded[m] \ {r}) /\ rows \subseteq embedded[m] \ {r} /\ IsFiniteSet(rows)
  BY <1>1, FS_Subset, TriageAssumption
<1>4. /\ Cardinality(rows) <= Cardinality(embedded[m] \ {r})
      /\ Cardinality(rows) \in Nat /\ Cardinality(embedded[m] \ {r}) \in Nat
      /\ Cardinality(rows) = Cardinality(candidates) => candidates = rows
  BY <1>2, <1>3, FS_Subset, FS_CardinalityType
<1>5. Cut(m, r) \/ candidates = rows
  BY <1>2, <1>4, TriageAssumption DEF Cut, Least
<1> QED
  BY <1>1, <1>2, <1>5

\* What a submission drafts covers its report.
LEMMA DraftedCovers ==
  ASSUME ProposalInv, NEW w \in Workers,
         Unassisted(w) \/ Classify(w) \/ EmbedAndRelate(w) \/ Score(w) \/ Fail(w)
  PROVE  \E p \in FilingStages : \E d : DraftCovers(job[w].req.report, d) /\ Drafted(w, p, d)
<1>0. /\ DraftTyped(job[w].draft) /\ DraftCovers(job[w].req.report, job[w].draft)
      /\ "related" \in FilingStages /\ "assisted" \in FilingStages
      /\ job[w].req.report \in Reports
  BY ServedFiling, FilingFields
     DEF ProposalInv, DraftsCover, WordInv, Unassisted, Classify, EmbedAndRelate, Score, Fail, At, FilingStages
<1>1. PICK r, d : r = job[w].req.report /\ d = job[w].draft
  OBVIOUS
<1>2. /\ \A a : DraftCovers(r, [d EXCEPT !.about = a])
      /\ \A b : DraftCovers(r, [d EXCEPT !.band = b])
  <2>1. PICK t : d \in [about: Categories \cup {NoCategory, None}, model: Models \cup {NoModel},
                        proposes: {t}, band: Bands \cup {None}]
    BY <1>0, <1>1 DEF DraftTyped
  <2>2. ASSUME NEW a
        PROVE  /\ [d EXCEPT !.about = a].proposes = d.proposes /\ [d EXCEPT !.about = a].model = d.model
               /\ [d EXCEPT !.band = a].proposes = d.proposes /\ [d EXCEPT !.band = a].model = d.model
    BY <2>1
  <2>3. DraftCovers(r, d)
    BY <1>0, <1>1
  <2> QED
    BY <2>2, <2>3 DEF DraftCovers
<1>3. CASE Unassisted(w)
  BY <1>0, <1>3 DEF Unassisted
<1>4. CASE Classify(w)
  BY <1>0, <1>1, <1>2, <1>4 DEF Classify
<1>5. CASE EmbedAndRelate(w)
  <2>0. PICK m \in Models : m = active
    BY <1>5 DEF EmbedAndRelate, ProposalInv, WordInv, TypeOK
  <2>1. PICK c \in Labels, candidates \in embeddings_for_model(m, r) :
          \E best \in MostAlike(m, r, Alike(m, r, candidates)) :
            Drafted(w, "related", [about |-> c, model |-> m, proposes |-> best, band |-> None])
    BY <1>1, <1>5, <2>0 DEF EmbedAndRelate
  <2>2. PICK alike : alike = Alike(m, r, candidates)
    OBVIOUS
  <2>3. PICK best \in MostAlike(m, r, alike) :
            Drafted(w, "related", [about |-> c, model |-> m, proposes |-> best, band |-> None])
    BY <2>1, <2>2
  <2>4. /\ embedded[m] \subseteq Stored /\ Stored \subseteq Reports
        /\ r \notin before[r]
    BY <1>0, <1>1 DEF ProposalInv, WordInv, TypeOK, Stored
  <2>5. /\ candidates \subseteq (embedded[m] \cap OpenReports) \ {r}
        /\ Cut(m, r) \/ candidates = (embedded[m] \cap OpenReports) \ {r}
    BY <2>4, TheEmbeddings
  <2>6. /\ alike \subseteq Stored /\ alike \subseteq Reports
        /\ \A s \in embedded[m] \cap OpenReports :
             s # r /\ Similarity[m][r][s] >= RELATED_THRESHOLD => s \in alike \/ Cut(m, r)
    BY <2>2, <2>4, <2>5 DEF Alike
  <2>7. best \subseteq alike /\ \A s \in alike \ best :
          Cardinality(best) = TopK /\ \A t \in best : Similarity[m][r][t] >= Similarity[m][r][s]
    BY <1>0, <1>1, <2>6, TheMostAlike
  <2>8. PICK e : e = [about |-> c, model |-> m, proposes |-> best, band |-> None]
    OBVIOUS
  <2>9. e.proposes = best /\ e.model = m
    BY <2>8
  <2>10. DraftCovers(r, e)
    BY <2>4, <2>6, <2>7, <2>9 DEF DraftCovers
  <2> QED
    BY <1>0, <1>1, <2>3, <2>8, <2>10
<1>6. CASE Score(w)
  BY <1>0, <1>1, <1>2, <1>6 DEF Score
<1>7. CASE Fail(w)
  BY <1>0, <1>1, <1>2, <1>7 DEF Fail
<1> QED
  BY <1>3, <1>4, <1>5, <1>6, <1>7

LEMMA DraftKeepsProposals ==
  ASSUME ProposalInv, WordInv', NEW w \in Workers,
         Unassisted(w) \/ Classify(w) \/ EmbedAndRelate(w) \/ Score(w) \/ Fail(w)
  PROVE  ProposalInv'
<1>0. PICK p \in FilingStages : \E d : DraftCovers(job[w].req.report, d) /\ Drafted(w, p, d)
  BY DraftedCovers
<1>1. PICK d : DraftCovers(job[w].req.report, d) /\ Drafted(w, p, d)
  BY <1>0
<1>2. Filing(job[w]) /\ job[w].req.report \in Reports
  BY ServedFiling, FilingFields
     DEF ProposalInv, WordInv, Unassisted, Classify, EmbedAndRelate, Score, Fail, At, FilingStages
<1>3. PICK j : job' = [job EXCEPT ![w] = j] /\ j.req = job[w].req /\ j.draft = d
  BY <1>1, <1>2, DraftedJob DEF ProposalInv, WordInv, AccessInv
<1>4. /\ links' = links /\ embedded' = embedded /\ before' = before
      /\ Stored' = Stored /\ OpenReports' = OpenReports
  BY <1>1 DEF Drafted, stored, history, judgements, Stored, OpenReports
<1> QED
  BY <1>1, <1>2, <1>3, <1>4, QuietMove

\* A submission that commits stores its report beside the links it drafted.
LEMMA CommitKeepsProposals ==
  ASSUME ProposalInv, WordInv', NEW w \in Workers, CommitFiling(w)
  PROVE  ProposalInv'
<1>1. PICK r, d : r = job[w].req.report /\ d = job[w].draft
  OBVIOUS
<1>2. /\ r \in Reports /\ r \notin Stored /\ d.proposes \subseteq Stored /\ DraftCovers(r, d)
      /\ job[w].req \in FileRequest /\ DraftTyped(d) /\ job[w].pc \in FilingStages
  BY <1>1, ServedFiling, FilingFields
     DEF CommitFiling, At, FilingStages, ProposalInv, WordInv, FiledOnce, DraftsCover, DraftCovers
<1>3. /\ status' = [status EXCEPT ![r] = "submitted"]
      /\ embedded' = [m \in Models |-> IF m = d.model THEN embedded[m] \cup {r} ELSE embedded[m]]
      /\ before' = before
  BY <1>1 DEF CommitFiling, history
<1>4. Stored' = Stored \cup {r} /\ OpenReports' = OpenReports \cup {r}
  BY <1>2, <1>3 DEF ProposalInv, WordInv, TypeOK, Stored, OpenReports, Open
<1>5. ASSUME NEW p \in Pairs
      PROVE  /\ links'[p] # NoRow <=> (links[p] # NoRow \/ \E s \in d.proposes : p = Pair(r, s))
             /\ links'[p] # NoRow => p \subseteq Stored'
  <2>1. links'[p] = IF \E s \in d.proposes : p = Pair(r, s) /\ links[p] = NoRow
                    THEN [about |-> LinkType(d.model, r, CHOOSE s \in d.proposes : p = Pair(r, s)),
                          verdict |-> None, by |-> Nobody]
                    ELSE links[p]
    BY <1>1 DEF CommitFiling
  <2>2. \A s : LinkType(d.model, r, s) \in LinkTypes
    BY DEF LinkType, LinkTypes
  <2>3. \A a \in LinkTypes : [about |-> a, verdict |-> None, by |-> Nobody] # NoRow
    BY DEF NoRow, LinkTypes, None
  <2>4. links[p] # NoRow => p \subseteq Stored
    BY DEF ProposalInv
  <2>5. \A s \in d.proposes : Pair(r, s) \subseteq Stored'
    BY <1>2, <1>4 DEF Pair
  <2>6. links'[p] # NoRow <=> (links[p] # NoRow \/ \E s \in d.proposes : p = Pair(r, s))
    BY <2>1, <2>2, <2>3
  <2> QED
    BY <1>4, <2>4, <2>5, <2>6
<1>6. \A q \in Reports : before[q] \subseteq Stored \ {q} /\ r \notin before[q] /\ before'[q] = before[q]
  BY <1>2, <1>3 DEF ProposalInv
<1>7. EmbeddedGrows /\ OpenReports' \cap Stored \subseteq OpenReports
  BY <1>2, <1>3, <1>4 DEF ProposalInv, WordInv, TypeOK, EmbeddedGrows, Stored
<1>8. ASSUME NEW v \in Workers, job'[v].pc \in FilingStages
      PROVE  DraftCovers(job[v].req.report, job[v].draft)'
  <2>1. job'[v] = job[v] /\ v # w
    BY <1>8 DEF CommitFiling, Finish, idle, FilingStages, ProposalInv, WordInv, AccessInv
  <2>2. DraftCovers(job[v].req.report, job[v].draft) /\ job[v].req.report \in Reports
    BY <1>8, <2>1, ServedFiling, FilingFields DEF ProposalInv, DraftsCover, WordInv
  <2>3. PICK q, e : q = job[v].req.report /\ e = job[v].draft
    OBVIOUS
  <2>4. DraftCovers(q, e)'
    BY <1>4, <1>6, <1>7, <2>2, <2>3, CoversStays
  <2> QED
    BY <2>1, <2>3, <2>4
<1>9. DraftsCover'
  BY <1>8 DEF DraftsCover
<1> HIDE <1>1
<1>10. ASSUME NEW m \in Models, NEW q \in embedded'[m] \cap OpenReports',
              NEW s \in embedded'[m] \cap OpenReports', s \in before'[q],
              Similarity[m][q][s] >= RELATED_THRESHOLD, links'[Pair(q, s)] = NoRow, ~Cut(m, q)'
       PROVE  Cardinality(Crowd(m, q, s)') >= TopK
  <2>0. /\ q \in Reports /\ s \in Reports /\ s # q /\ s # r /\ s \in before[q]
        /\ s \in embedded[m] \cap OpenReports /\ ~Cut(m, q)
    <3>1. q \in Reports
      BY <1>2, <1>4, <1>10 DEF OpenReports
    <3>2. s \in before[q] /\ s \in Stored /\ s # q /\ s # r
      BY <1>2, <1>6, <1>10, <3>1
    <3>3. s \in embedded[m] \cap OpenReports /\ s \in Reports
      BY <1>7, <1>10, <3>2 DEF Stored, EmbeddedGrows
    <3>4. ~Cut(m, q)
      BY <1>7, <1>10, CutStays DEF EmbeddedGrows
    <3> QED
      BY <3>1, <3>2, <3>3, <3>4
  <2>1. Crowd(m, q, s)' \subseteq Reports /\ Pair(q, s) \in Pairs
    BY <2>0, PairsOfTwo DEF Crowd
  <2>2. CASE q = r
    <3>1. d.model = m
      <4>1. r \notin embedded[m]
        BY <1>2 DEF ProposalInv, WordInv, TypeOK
      <4> QED
        BY <1>3, <1>10, <2>2, <4>1
    <3>2. s \notin d.proposes
      BY <1>5, <2>1, <2>2, <1>10
    <3>3. /\ Cardinality(d.proposes) = TopK
          /\ \A t \in d.proposes : Similarity[m][r][t] >= Similarity[m][r][s]
      BY <1>2, <2>0, <2>2, <1>10, <3>1, <3>2 DEF DraftCovers
    <3>4. ASSUME NEW t \in d.proposes
          PROVE  t \in Crowd(m, q, s)'
      <4>1. t \in Reports /\ t # r /\ t # s
        BY <1>2, <3>2 DEF Stored
      <4>2. Pair(r, t) \in Pairs
        BY <1>2, <4>1, PairsOfTwo
      <4>3. links'[Pair(r, t)] # NoRow
        BY <1>5, <4>2
      <4> QED
        BY <1>6, <2>2, <3>3, <4>1, <4>3 DEF Crowd
    <3>5. d.proposes \subseteq Crowd(m, q, s)' /\ d.proposes \subseteq Reports /\ Cardinality(d.proposes) >= TopK
      BY <2>1, <3>3, <3>4, TriageAssumption
    <3> QED
      BY <2>1, <3>5, CrowdGrows
  <2>3. CASE q # r
    <3>1. q \in embedded[m] \cap OpenReports
      BY <1>3, <1>4, <1>10, <2>3
    <3>2. links[Pair(q, s)] = NoRow
      BY <1>5, <2>1, <1>10
    <3>3. Cardinality(Crowd(m, q, s)) >= TopK
      BY <2>0, <1>10, <3>1, <3>2, CrowdsOut DEF ProposalInv
    <3>4. ASSUME NEW t \in Crowd(m, q, s)
          PROVE  t \in Crowd(m, q, s)'
      <4>1. t \in Reports /\ t # q /\ Pair(q, t) \in Pairs
        BY <2>0, PairsOfTwo DEF Crowd
      <4> QED
        BY <1>5, <1>6, <4>1 DEF Crowd
    <3>5. Crowd(m, q, s) \subseteq Crowd(m, q, s)' /\ Crowd(m, q, s) \subseteq Reports
      BY <3>4 DEF Crowd
    <3> QED
      BY <2>1, <3>3, <3>5, CrowdGrows
  <2> QED
    BY <2>2, <2>3
<1>11. SimilarIsProposed'
  BY <1>10 DEF SimilarIsProposed, Crowd, Cut
<1>12. before' = [q \in Reports |-> before'[q]] /\ \A q \in Reports : before'[q] \subseteq Stored' \ {q}
  BY <1>3, <1>4, <1>6 DEF ProposalInv
<1> QED
  BY <1>5, <1>9, <1>11, <1>12 DEF ProposalInv

\* A judgement changes what a link says, never that it is there.
LEMMA JudgeKeepsProposals ==
  ASSUME ProposalInv, WordInv', NEW w \in Workers, Judge(w)
  PROVE  ProposalInv'
<1>1. /\ Human(job[w]) /\ job[w].pc = "read"
  BY ServedHuman DEF Judge, HumanStages, ProposalInv, WordInv
<1>2. Key(w) \in Keys /\ RowOf(Key(w)) # NoRow /\ (job[w].req.kind = "review" => Key(w) \in Pairs)
  BY <1>1, JudgedKey DEF Judge, ProposalInv, WordInv, Fresh
<1>3. /\ status' = status /\ embedded' = embedded /\ before' = before
      /\ Stored' = Stored /\ OpenReports' = OpenReports
  BY DEF Judge, Stored, OpenReports
<1>4. \A p \in Pairs : links'[p] # NoRow <=> links[p] # NoRow
  <2>1. CASE job[w].req.kind # "review"
    BY <2>1 DEF Judge
  <2>2. CASE job[w].req.kind = "review"
    <3>1. PICK row : row = Flushed(links[Key(w)], job[w].read, job[w].req.verdict, job[w].req.user)
      OBVIOUS
    <3>2. links' = [links EXCEPT ![Key(w)] = row]
      BY <1>2, <2>2, <3>1, RowsByKey DEF Judge
    <3>3. links[Key(w)] \in Links /\ links[Key(w)] # NoRow
      BY <1>2, <2>2, RowsByKey DEF ProposalInv, WordInv, TypeOK
    <3>4. row.about = links[Key(w)].about
      BY <3>1, <3>3, FlushedRow
    <3>5. row # NoRow
      BY <3>3, <3>4 DEF Links, LinkTypes, NoRow, None
    <3> HIDE <3>1
    <3> QED
      BY <3>2, <3>3, <3>5 DEF ProposalInv, WordInv, TypeOK
  <2> QED
    BY <2>1, <2>2
<1>5. PICK j : j = idle
  OBVIOUS
<1>6. job' = [job EXCEPT ![w] = j] /\ j.pc \notin FilingStages
  BY <1>5 DEF Judge, Finish, idle, FilingStages
<1> HIDE <1>5
<1> QED
  BY <1>3, <1>4, <1>6, QuietMove

LEMMA ProposalStep == ProposalInv /\ [Next]_vars => ProposalInv'
<1> SUFFICES ASSUME ProposalInv, [Next]_vars
             PROVE  ProposalInv'
  OBVIOUS
<1>1. WordInv'
  BY WordStep DEF ProposalInv
<1>2. ASSUME NEW w \in Workers, Refuse(w) \/ NotFound(w) \/ Dropped(w)
      PROVE  ProposalInv'
  <2>1. /\ Finish(w) /\ links' = links /\ embedded' = embedded /\ before' = before
        /\ Stored' = Stored /\ OpenReports' = OpenReports
    BY <1>2 DEF Refuse, NotFound, Dropped, Denied, stored, history, judgements, Stored, OpenReports
  <2>2. PICK j : j = idle
    OBVIOUS
  <2>3. job' = [job EXCEPT ![w] = j] /\ j.pc \notin FilingStages
    BY <2>1, <2>2 DEF Finish, idle, FilingStages
  <2> HIDE <2>2
  <2> QED
    BY <1>1, <2>1, <2>3, QuietMove
<1>3. ASSUME NEW w \in Workers, Authorise(w) \/ Sight(w) \/ View(w) \/ Read(w)
      PROVE  ProposalInv'
  <2>1. \E p \in {"sighted", "authorised", "answered", "read"} : \E j :
           job' = [job EXCEPT ![w] = j] /\ j.pc = p
    BY <1>3, StageMoves, ReadMoves DEF ProposalInv
  <2>2. PICK j : job' = [job EXCEPT ![w] = j] /\ j.pc \notin FilingStages
    BY <2>1 DEF FilingStages
  <2>3. /\ links' = links /\ embedded' = embedded /\ before' = before
        /\ Stored' = Stored /\ OpenReports' = OpenReports
    BY <1>3 DEF Authorise, Sight, View, Read, stored, history, judgements, Stored, OpenReports
  <2> QED
    BY <1>1, <2>2, <2>3, QuietMove
<1>4. ASSUME job' = job, links' = links, embedded' = embedded, before' = before,
             Stored' = Stored, OpenReports' \subseteq OpenReports
      PROVE  ProposalInv'
  <2>1. ASSUME NEW v \in Workers, job'[v].pc \in FilingStages
        PROVE  DraftCovers(job[v].req.report, job[v].draft)'
    <3>1. DraftCovers(job[v].req.report, job[v].draft) /\ job[v].req.report \in Reports
      BY <1>4, <2>1, ServedFiling, FilingFields DEF ProposalInv, DraftsCover, WordInv
    <3>2. PICK q, e : q = job[v].req.report /\ e = job[v].draft
      OBVIOUS
    <3>3. DraftCovers(q, e)'
      BY <1>4, <3>1, <3>2, CoversStays DEF ProposalInv, WordInv, TypeOK, EmbeddedGrows, Stored
    <3> QED
      BY <1>4, <3>2, <3>3
  <2>2. DraftsCover'
    BY <2>1 DEF DraftsCover
  <2> QED
    BY <1>1, <1>4, <2>2, QuietProposals DEF ProposalInv
<1>5. ASSUME NEW r \in MayClose, Close(r)
      PROVE  ProposalInv'
  <2>1. job' = job /\ links' = links /\ embedded' = embedded /\ before' = before
    BY <1>5 DEF Close, judgements, history
  <2>2. Stored' = Stored /\ OpenReports' \subseteq OpenReports
    BY <1>5 DEF Close, Stored, OpenReports, ProposalInv, WordInv, TypeOK, Open
  <2> QED
    BY <1>4, <2>1, <2>2
<1>6. CASE UNCHANGED vars \/ Register
  <2>1. /\ job' = job /\ links' = links /\ embedded' = embedded /\ before' = before
        /\ Stored' = Stored /\ OpenReports' = OpenReports
    BY <1>6 DEF vars, Register, stored, history, judgements, Stored, OpenReports
  <2> QED
    BY <1>4, <2>1
<1> QED
  BY <1>1, <1>2, <1>3, <1>5, <1>6, ReceiveKeepsProposals, DraftKeepsProposals,
     CommitKeepsProposals, JudgeKeepsProposals DEF Next, Answer, BadCategory, Crash

\* Two open reports that one model embedded and finds alike are linked, unless they
\* were filed at the same time, the limit may have cut the earlier one, or TOP_K others
\* at least as alike came first: nothing that is filed, closed, judged, registered or
\* interrupted beside it loses a proposal (run_for_report, embeddings_for_model).
THEOREM AlikeReportsAreLinked == Spec => []SimilarIsProposed
<1>1. Init => ProposalInv
  <2> SUFFICES ASSUME Init
               PROVE  ProposalInv
    OBVIOUS
  <2>1. WordInv
    BY WordInitially
  <2>2. DraftsCover
    BY DEF Init, DraftsCover, idle, FilingStages
  <2>3. SimilarIsProposed
    BY DEF Init, SimilarIsProposed
  <2> QED
    BY <2>1, <2>2, <2>3 DEF Init, ProposalInv
<1> QED
  BY <1>1, ProposalStep, PTL DEF Spec, ProposalInv
=============================================================================
