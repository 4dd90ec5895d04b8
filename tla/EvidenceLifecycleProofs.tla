---------------------- MODULE EvidenceLifecycleProofs ----------------------
(***************************************************************************)
(* Theorems about EvidenceLifecycle, for every set of workers, cleanups,   *)
(* uploads and reports, every batch size and any number of faults.         *)
(***************************************************************************)
EXTENDS EvidenceLifecycle, SequenceTheorems, FiniteSetTheorems, TLAPS

-----------------------------------------------------------------------------
(* The inductive invariant                                                 *)

JobRecord ==
  [pc: Stages, todo: Seq(Uploads), held: Seq(Uploads), due: SUBSET Nat, marked: SUBSET Nat,
   report: Reports \cup Uploads \cup {"none"}]

Elements(list) == {list[i] : i \in DOMAIN list}

\* Every upload a session's request is about.
Hand(j) == Elements(j.todo) \cup Elements(j.held)

Uploading(s) == job[s].pc \in {"put", "staged"}

Placed == {evidence[i].of : i \in DOMAIN evidence}

\* The objects the store has not kept when it was asked to delete them.
sure == bucket \ kept

\* What one session may rely on.  The upload it is storing is nobody's yet; what
\* it erased or marked is gone from the bucket, or the store has kept it.
Clear(s) ==
  /\ job[s] # idle => /\ Hand(job[s]) \subseteq begun
                      /\ job[s].due \cup job[s].marked \subseteq DOMAIN evidence
  /\ job[s].pc \in {"put", "staged", "erase", "drop", "take", "reaped"} => job[s].todo # <<>>
  /\ job[s].pc \in {"claim", "take"} => job[s].report \in Reports
  /\ Uploading(s) => /\ s \in Workers /\ job[s].todo = <<Head(job[s].todo)>>
                     /\ job[s].held = <<>>
                     /\ Head(job[s].todo) \notin told \cup pending \cup Placed
  /\ job[s].pc = "put" => Head(job[s].todo) \notin bucket
  /\ job[s].pc \in {"drop", "reaped"} => Head(job[s].todo) \notin sure
  /\ job[s].pc \in {"reap", "reaped", "purge"} => Locked(s) \cap sure = {}
  /\ job[s] # idle => \A i \in job[s].marked : evidence[i].of \notin sure

\* No two sessions have an upload that is still being stored in common.
Apart ==
  \A s, v \in Sessions :
    s # v /\ Uploading(s) /\ job[v] # idle => Head(job[s].todo) \notin Hand(job[v])

Types ==
  /\ begun \subseteq Uploads /\ IsFiniteSet(begun)
  /\ stale \subseteq begun /\ told \subseteq begun
  /\ pending \subseteq begun /\ bucket \subseteq begun /\ Placed \subseteq begun
  /\ kept \subseteq begun /\ (faults = 0 => kept = {})
  /\ evidence \in Seq(EvidenceRow)
  /\ faults \in 0 .. MaxFaults
  /\ job \in [Sessions -> {idle} \cup JobRecord]

Answerable(u) == u \notin kept /\ (faults = 0 \/ u \in told)

EvidenceInv ==
  /\ Types
  /\ \A s \in Sessions : Clear(s)
  /\ Apart
  /\ PurgedIsGone
  /\ \A u \in bucket : Answerable(u) => Governed(u)

-----------------------------------------------------------------------------
(* Lists, and the record of a session                                      *)

LEMMA Idle ==
  /\ \A j \in JobRecord : j # idle
  /\ \A s : job[s] = idle => ~Uploading(s) /\ job[s].pc \notin Stages
BY DEF JobRecord, Stages, idle, Uploading

\* A list that is not empty is its first element and the rest.
LEMMA Lists ==
  ASSUME NEW S, NEW list \in Seq(S), list # <<>>
  PROVE  /\ Head(list) \in S /\ Head(list) \in Elements(list)
         /\ Tail(list) \in Seq(S)
         /\ Elements(Tail(list)) \subseteq Elements(list)
<1>1. Len(list) \in Nat \ {0} /\ list[1] = Head(list) /\ 1 \in DOMAIN list
  BY EmptySeq
<1>2. Tail(list) \in Seq(S) /\ Len(Tail(list)) = Len(list) - 1
      /\ \A i \in 1 .. Len(Tail(list)) : Tail(list)[i] = list[i + 1]
  BY <1>1, HeadTailProperties
<1>3. \A i \in DOMAIN Tail(list) : i + 1 \in DOMAIN list /\ Tail(list)[i] = list[i + 1]
  BY <1>1, <1>2
<1> QED
  BY <1>1, <1>2, <1>3 DEF Elements

LEMMA OneMore ==
  ASSUME NEW S, NEW list \in Seq(S), NEW e \in S
  PROVE  /\ Append(list, e) \in Seq(S)
         /\ Elements(Append(list, e)) = Elements(list) \cup {e}
<1>1. /\ Append(list, e) \in Seq(S) /\ Len(list) \in Nat
      /\ DOMAIN list = 1 .. Len(list)
      /\ DOMAIN Append(list, e) = 1 .. (Len(list) + 1)
      /\ Append(list, e)[Len(list) + 1] = e
      /\ \A i \in 1 .. Len(list) : Append(list, e)[i] = list[i]
  BY AppendProperties
<1>2. \A i \in DOMAIN Append(list, e) : i \in DOMAIN list \/ i = Len(list) + 1
  BY <1>1
<1>3. Len(list) + 1 \in DOMAIN Append(list, e) /\ DOMAIN list \subseteq DOMAIN Append(list, e)
  BY <1>1
<1> QED
  BY <1>1, <1>2, <1>3 DEF Elements

\* The same record at another stage.
LEMMA Moved ==
  ASSUME NEW j \in JobRecord, NEW stage \in Stages
  PROVE  LET k == [j EXCEPT !.pc = stage]
         IN /\ k \in JobRecord /\ k.pc = stage
            /\ k.todo = j.todo /\ k.held = j.held /\ k.due = j.due /\ k.marked = j.marked
            /\ k.report = j.report
BY DEF JobRecord

\* The head of the list has been dealt with.
LEMMA Taken ==
  ASSUME NEW j \in JobRecord, NEW stage \in Stages, j.todo # <<>>
  PROVE  LET k == [j EXCEPT !.pc = stage, !.todo = Tail(@), !.held = Append(@, Head(j.todo))]
         IN /\ k \in JobRecord /\ k.pc = stage
            /\ k.due = j.due /\ k.marked = j.marked /\ k.report = j.report
            /\ Hand(k) \subseteq Hand(j)
            /\ Elements(k.held) = Elements(j.held) \cup {Head(j.todo)}
<1> DEFINE t == Tail(j.todo)
           h == Append(j.held, Head(j.todo))
           k == [j EXCEPT !.pc = stage, !.todo = Tail(@), !.held = Append(@, Head(j.todo))]
<1>1. j.todo \in Seq(Uploads) /\ j.held \in Seq(Uploads)
  BY DEF JobRecord
<1>2. t \in Seq(Uploads) /\ h \in Seq(Uploads)
  BY <1>1, Lists, OneMore
<1>3. Elements(h) = Elements(j.held) \cup {Head(j.todo)} /\ Elements(t) \subseteq Elements(j.todo)
      /\ Head(j.todo) \in Elements(j.todo)
  BY <1>1, Lists, OneMore
<1>4. /\ k \in JobRecord /\ k.pc = stage /\ k.todo = t /\ k.held = h
      /\ k.due = j.due /\ k.marked = j.marked /\ k.report = j.report
  <2> HIDE DEF t, h
  <2>1. [j EXCEPT !.pc = stage, !.todo = t, !.held = h] \in JobRecord
    BY <1>2 DEF JobRecord
  <2>2. k = [j EXCEPT !.pc = stage, !.todo = t, !.held = h]
    BY DEF t, h
  <2> QED
    BY <1>2, <2>1, <2>2 DEF JobRecord
<1> QED
  BY <1>3, <1>4 DEF Hand

\* A record that has just been made.
LEMMA Made ==
  ASSUME NEW stage \in Stages, NEW list \in Seq(Uploads),
         NEW r \in Reports \cup Uploads \cup {"none"}
  PROVE  LET k == Job(stage, list, r)
         IN /\ k \in JobRecord /\ k.pc = stage /\ k.todo = list /\ k.held = <<>>
            /\ k.due = {} /\ k.marked = {} /\ k.report = r
            /\ Hand(k) = Elements(list)
<1>1. <<>> \in Seq(Uploads) /\ Elements(<<>>) = {}
  BY DEF Elements
<1> QED
  BY <1>1 DEF Job, JobRecord, Hand

LEMMA OneUpload ==
  ASSUME NEW u \in Uploads
  PROVE  <<u>> \in Seq(Uploads) /\ <<u>> # <<>> /\ Head(<<u>>) = u /\ Elements(<<u>>) = {u}
BY DEF Elements

LEMMA LockedIsHeld ==
  ASSUME NEW s
  PROVE  Locked(s) = Elements(job[s].held)
BY DEF Locked, Elements

\* A session that is busy has a record, and what the invariant says of it.
LEMMA Busy ==
  ASSUME EvidenceInv, NEW s \in Sessions, job[s] # idle
  PROVE  /\ job[s] \in JobRecord /\ job[s].pc \in Stages
         /\ Hand(job[s]) \subseteq begun
         /\ job[s].todo \in Seq(Uploads) /\ job[s].held \in Seq(Uploads)
         /\ Locked(s) \subseteq Hand(job[s])
         /\ job[s].todo # <<>> => Head(job[s].todo) \in Hand(job[s])
<1>1. job[s] \in JobRecord /\ Hand(job[s]) \subseteq begun
  BY DEF EvidenceInv, Types, Clear
<1>2. job[s].todo \in Seq(Uploads) /\ job[s].held \in Seq(Uploads) /\ job[s].pc \in Stages
  BY <1>1 DEF JobRecord
<1> QED
  BY <1>1, <1>2, Lists, LockedIsHeld DEF Hand

\* While the upload is being stored, it is all the session has in hand.
LEMMA UploadInHand ==
  ASSUME EvidenceInv, NEW s \in Sessions, Uploading(s)
  PROVE  /\ job[s] # idle /\ s \in Workers
         /\ Hand(job[s]) = {Head(job[s].todo)}
         /\ Head(job[s].todo) \in begun
         /\ Head(job[s].todo) \notin told \cup pending \cup Placed
<1>1. job[s] # idle /\ job[s].todo # <<>>
  BY Idle DEF EvidenceInv, Clear, Uploading
<1>2. /\ job[s].todo = <<Head(job[s].todo)>> /\ job[s].held = <<>> /\ s \in Workers
      /\ Head(job[s].todo) \notin told \cup pending \cup Placed
  BY DEF EvidenceInv, Clear
<1>3. Elements(<<>>) = {}
  BY DEF Elements
<1>4. Elements(job[s].todo) = {Head(job[s].todo)}
  BY <1>2 DEF Elements
<1> QED
  BY <1>1, <1>2, <1>3, <1>4, Busy DEF Hand

-----------------------------------------------------------------------------
(* What a step of one session leaves to the others                         *)

\* The upload the session is storing, if it is storing one, and all it has in hand.
Storing(s) == IF Uploading(s) THEN {Head(job[s].todo)} ELSE {}
Holds(s) == IF job[s] = idle THEN {} ELSE Hand(job[s])

\* Only the upload s is storing enters the bucket, the staged rows or the tokens
\* clients know, and only what s has in hand is placed on a report.
Frame(s) ==
  /\ \A v \in Sessions \ {s} : job'[v] = job[v]
  /\ begun \subseteq begun'
  /\ bucket' \subseteq bucket \cup Storing(s)
  /\ told' \subseteq told \cup Storing(s)
  /\ pending' \subseteq pending \cup Storing(s)
  /\ Placed' \subseteq Placed \cup Holds(s)
  /\ \A i \in DOMAIN evidence : i \in DOMAIN evidence' /\ evidence'[i].of = evidence[i].of
  /\ kept \subseteq kept'

LEMMA OthersClear ==
  ASSUME EvidenceInv, NEW s \in Sessions, Frame(s), NEW v \in Sessions, v # s
  PROVE  Clear(v)'
<1>1. job'[v] = job[v] /\ Clear(v)
  BY DEF Frame, EvidenceInv
<1>2. CASE job[v] = idle
  BY <1>1, <1>2 DEF Clear, Uploading, idle
<1>3. CASE job[v] # idle
  <2>1. /\ Hand(job[v]) \subseteq begun /\ Locked(v) \subseteq Hand(job[v])
        /\ job[v].todo # <<>> => Head(job[v].todo) \in Hand(job[v])
    BY <1>3, Busy
  <2>2. Storing(s) \cap Hand(job[v]) = {}
    BY <1>3 DEF Storing, EvidenceInv, Apart
  <2>3. Storing(s) \cap Placed = {}
    BY DEF Storing, EvidenceInv, Clear
  <2>4. Locked(v)' = Locked(v) /\ Hand(job[v])' = Hand(job[v]) /\ Uploading(v)' = Uploading(v)
    BY <1>1 DEF Locked, Hand, Elements, Uploading
  <2>5. Hand(job[v])' \subseteq begun' /\ job'[v].due \cup job'[v].marked \subseteq DOMAIN evidence'
    BY <1>1, <1>3, <2>1, <2>4 DEF Frame, Clear
  <2>6. Uploading(v)' => /\ v \in Workers /\ job'[v].todo = <<Head(job'[v].todo)>>
                         /\ job'[v].held = <<>>
                         /\ Head(job'[v].todo) \notin told' \cup pending' \cup Placed'
    <3> SUFFICES ASSUME Uploading(v)
                 PROVE  Head(job[v].todo) \notin told' \cup pending' \cup Placed'
      BY <1>1, <2>4 DEF Clear
    <3>1. Head(job[v].todo) \notin Holds(s) /\ Head(job[v].todo) \notin Storing(s)
      BY <1>3, <2>1, <2>2, UploadInHand DEF Holds, EvidenceInv, Apart
    <3> QED
      BY <1>1, <3>1 DEF Frame, Clear
  <2>7. job'[v].pc = "put" => Head(job'[v].todo) \notin bucket'
    BY <1>1, <2>1, <2>2 DEF Frame, Clear
  <2>8. /\ job'[v].pc \in {"drop", "reaped"} => Head(job'[v].todo) \notin sure'
        /\ job'[v].pc \in {"reap", "reaped", "purge"} => Locked(v)' \cap sure' = {}
        /\ \A i \in job'[v].marked : evidence'[i].of \notin sure'
    <3> SUFFICES /\ job[v].pc \in {"drop", "reaped"} => Head(job[v].todo) \notin sure'
                 /\ job[v].pc \in {"reap", "reaped", "purge"} => Locked(v) \cap sure' = {}
                 /\ \A i \in job[v].marked : evidence'[i].of \notin sure'
      BY <1>1, <2>4
    <3>0. sure' \subseteq sure \cup Storing(s)
      BY DEF Frame, sure
    <3>1. job[v].pc \in {"drop", "reaped"} => Head(job[v].todo) \notin sure'
      BY <1>1, <2>1, <2>2, <3>0 DEF Clear
    <3>2. job[v].pc \in {"reap", "reaped", "purge"} => Locked(v) \cap sure' = {}
      BY <1>1, <2>1, <2>2, <3>0 DEF Clear
    <3>3. ASSUME NEW i \in job[v].marked
          PROVE  evidence'[i].of \notin sure'
      <4>1. i \in DOMAIN evidence /\ evidence[i].of \notin sure /\ evidence[i].of \in Placed
        BY <1>1, <1>3, <3>3 DEF Clear, Placed
      <4> QED
        BY <2>3, <3>0, <4>1 DEF Frame
    <3> QED
      BY <3>1, <3>2, <3>3
  <2> QED
    BY <1>1, <1>3, <2>5, <2>6, <2>7, <2>8 DEF Clear
<1> QED
  BY <1>2, <1>3

\* What a session gets into its hands was in them before, is staged or known to a
\* client, or has not been taken up; what it stores, it was storing or is new.
LEMMA StaysApart ==
  ASSUME EvidenceInv, NEW s \in Sessions, Frame(s),
         job'[s] # idle => Hand(job[s])' \subseteq Holds(s) \cup told \cup pending
                                                  \cup (Uploads \ begun),
         Uploading(s)' => Head(job'[s].todo) \in Storing(s) \cup (Uploads \ begun)
  PROVE  Apart'
<1> SUFFICES ASSUME NEW a \in Sessions, NEW v \in Sessions, a # v,
                    Uploading(a)', job'[v] # idle
             PROVE  Head(job'[a].todo) \notin Hand(job[v])'
  BY DEF Apart
<1>1. CASE a = s
  <2>1. job'[v] = job[v]
    BY <1>1 DEF Frame
  <2>2. Hand(job[v])' = Hand(job[v]) /\ Hand(job[v]) \subseteq begun
    BY <2>1, Busy DEF Hand, Elements
  <2>3. \A u \in Storing(s) : u \notin Hand(job[v])
    BY <1>1, <2>1 DEF Storing, EvidenceInv, Apart
  <2> QED
    BY <1>1, <2>2, <2>3
<1>2. CASE a # s
  <2>1. job'[a] = job[a] /\ Uploading(a)
    BY <1>2 DEF Frame, Uploading
  <2>2. Head(job[a].todo) \in begun /\ Head(job[a].todo) \notin told \cup pending
    BY <2>1, UploadInHand
  <2>3. CASE v = s
    <3>1. Head(job[a].todo) \notin Holds(s)
      BY <1>2, <2>1 DEF Holds, EvidenceInv, Apart
    <3> QED
      BY <2>1, <2>2, <2>3, <3>1
  <2>4. CASE v # s
    <3>1. job'[v] = job[v] /\ Hand(job[v])' = Hand(job[v])
      BY <2>4 DEF Frame, Hand, Elements
    <3> QED
      BY <2>1, <3>1 DEF EvidenceInv, Apart
  <2> QED
    BY <2>3, <2>4
<1> QED
  BY <1>1, <1>2

\* A photograph keeps its policy when its rows stay, unless s was storing it.
LEMMA StaysGoverned ==
  ASSUME EvidenceInv, NEW s \in Sessions, Frame(s), NEW u, Governed(u),
         u \in pending => u \in pending',
         Owners(u) \subseteq Owners(u)',
         ~(Uploading(s) /\ job[s].todo = <<u>>)
  PROVE  Governed(u)'
<1>1. ASSUME NEW v \in Workers, job[v].pc \in {"put", "staged"}, job[v].todo = <<u>>
      PROVE  job'[v].pc \in {"put", "staged"} /\ job'[v].todo = <<u>>
  <2>1. v # s
    BY <1>1 DEF Uploading
  <2> QED
    BY <1>1, <2>1 DEF Frame, Sessions
<1> QED
  BY <1>1 DEF Governed, InUpload

\* The store keeps only what it has, and that is a fault.
Keeping ==
  /\ kept \subseteq kept' /\ kept' \subseteq kept \cup bucket
  /\ faults' = 0 => kept' = kept

LEMMA NothingKept == kept' = kept => Keeping
BY DEF Keeping

\* A step of a session that stores nothing: it may erase objects and change what
\* is in its hands, and commits nothing.
LEMMA QuietStep ==
  ASSUME EvidenceInv, NEW s \in Sessions, ~Uploading(s), ~Uploading(s)',
         NEW j \in {idle} \cup JobRecord, job' = [job EXCEPT ![s] = j],
         bucket' \subseteq bucket, Keeping,
         faults' = faults \/ (faults < MaxFaults /\ faults' = faults + 1),
         pending' = pending, stale' = stale, evidence' = evidence,
         begun' = begun, told' = told,
         j # idle => Hand(j) \subseteq Holds(s) \cup told \cup pending,
         Clear(s)'
  PROVE  EvidenceInv'
<1>1. Types /\ MaxFaults \in Nat /\ faults \in Nat /\ faults <= MaxFaults
  BY EvidenceAssumption DEF EvidenceInv, Types
<1>2. faults' \in 0 .. MaxFaults /\ (faults' = 0 => faults = 0)
  BY <1>1
<1>3. job'[s] = j /\ \A v \in Sessions \ {s} : job'[v] = job[v]
  BY <1>1 DEF Types
<1>4. Placed' = Placed
  BY DEF Placed
<1>5. Frame(s)
  BY <1>3, <1>4 DEF Frame, Keeping
<1>6. Types'
  BY <1>1, <1>2, <1>4 DEF Types, Keeping
<1>7. \A v \in Sessions : Clear(v)'
  BY <1>5, OthersClear
<1>8. Apart'
  BY <1>3, <1>5, StaysApart DEF Hand, Elements
<1>9. PurgedIsGone'
  BY DEF EvidenceInv, PurgedIsGone, Keeping
<1>10. ASSUME NEW u \in bucket', Answerable(u)'
       PROVE  Governed(u)'
  <2>1. Answerable(u) /\ u \in bucket
    BY <1>2, <1>10 DEF Answerable, Keeping
  <2>2. Governed(u) /\ Owners(u)' = Owners(u)
    BY <2>1 DEF EvidenceInv, Owners
  <2> QED
    BY <1>5, <2>2, StaysGoverned
<1> QED
  BY <1>6, <1>7, <1>8, <1>9, <1>10 DEF EvidenceInv

-----------------------------------------------------------------------------
(* The invariant holds initially                                           *)

LEMMA EvidenceInit == Init => EvidenceInv
<1> SUFFICES ASSUME Init
             PROVE  EvidenceInv
  OBVIOUS
<1>1. /\ evidence = <<>> /\ DOMAIN evidence = {} /\ Placed = {} /\ faults = 0
      /\ \A s \in Sessions : job[s] = idle
  BY DEF Init, Placed
<1>2. Types
  BY <1>1, EvidenceAssumption, FS_EmptySet DEF Init, Types
<1>3. \A s \in Sessions : job[s] = idle /\ ~Uploading(s) /\ job[s].pc \notin Stages
  BY <1>1, Idle
<1>4. \A s \in Sessions : Clear(s)
  BY <1>3 DEF Clear, Stages
<1>5. Apart /\ PurgedIsGone
  BY <1>1, <1>3 DEF Apart, PurgedIsGone
<1> QED
  BY <1>2, <1>4, <1>5 DEF EvidenceInv, Init

-----------------------------------------------------------------------------
(* Steps that store nothing and commit nothing                             *)

\* The job after a step is the one the step writes.
LEMMA Wrote ==
  ASSUME EvidenceInv, NEW s \in Sessions, NEW j, job' = [job EXCEPT ![s] = j]
  PROVE  job'[s] = j /\ \A v \in Sessions \ {s} : job'[v] = job[v]
BY DEF EvidenceInv, Types

LEMMA IdleIsClear ==
  ASSUME NEW s, job'[s] = idle
  PROVE  Clear(s)' /\ ~Uploading(s)'
BY DEF Clear, Uploading, idle

\* A deletion that did not work is a fault, and is remembered.
LEMMA Deletion ==
  ASSUME Types, NEW u, DeleteObject(u)
  PROVE  /\ bucket' \subseteq bucket /\ Keeping
         /\ faults' = faults \/ (faults < MaxFaults /\ faults' = faults + 1)
         /\ u \notin sure' /\ sure' \subseteq sure
<1>1. faults \in Nat
  BY EvidenceAssumption DEF Types
<1>2. CASE Erases(u) /\ UNCHANGED faults
  BY <1>2 DEF Erases, Keeping, sure
<1>3. CASE Keeps(u) /\ Strikes("delete")
  <2>1. faults' # 0
    BY <1>1, <1>3 DEF Strikes
  <2> QED
    BY <1>3, <2>1 DEF Strikes, Keeps, Keeping, sure
<1> QED
  BY <1>2, <1>3 DEF DeleteObject

\* A request or a cleanup that was storing nothing ends without a commit.
LEMMA GivenUp ==
  ASSUME EvidenceInv, NEW s \in Sessions, ~Uploading(s), Abort(s),
         faults' = faults \/ (faults < MaxFaults /\ faults' = faults + 1)
  PROVE  EvidenceInv'
<1>1. job' = [job EXCEPT ![s] = idle]
  BY DEF Abort, Finish
<1>2. job'[s] = idle
  BY <1>1, Wrote
<1> QED
  BY <1>1, <1>2, IdleIsClear, NothingKept, QuietStep DEF Abort

LEMMA RefuseClaimKeeps ==
  ASSUME EvidenceInv, NEW s \in Sessions, RefuseClaim(s)
  PROVE  EvidenceInv'
<1>1. ~Uploading(s)
  BY DEF RefuseClaim, At, Uploading
<1> QED
  BY <1>1, GivenUp DEF RefuseClaim

\* A session that waits for nobody is nobody's victim, and none waits to store.
LEMMA DeadlockVictimKeeps ==
  ASSUME EvidenceInv, NEW s \in Sessions, DeadlockVictim(s)
  PROVE  EvidenceInv'
<1>1. Wants(s) # {}
  BY DEF DeadlockVictim, Deadlocked, Holders
<1>2. ~Uploading(s)
  BY <1>1 DEF Wants, Uploading
<1> QED
  BY <1>2, GivenUp DEF DeadlockVictim

LEMMA EraseObjectKeeps ==
  ASSUME EvidenceInv, NEW s \in Sessions, EraseObject(s)
  PROVE  EvidenceInv'
<1>1. job[s] # idle /\ job[s].pc = "erase" /\ ~Uploading(s)
  BY Idle DEF EraseObject, At, Uploading, Stages
<1>2. job[s] \in JobRecord /\ Clear(s) /\ Types
  BY <1>1, Busy DEF EvidenceInv
<1> DEFINE k == [job[s] EXCEPT !.pc = "drop"]
<1>3. job' = [job EXCEPT ![s] = k]
  BY DEF EraseObject, MoveOn
<1>4. /\ k \in JobRecord /\ k.pc = "drop" /\ k.todo = job[s].todo /\ k.held = job[s].held
      /\ k.due = job[s].due /\ k.marked = job[s].marked
  BY <1>2, Moved DEF Stages
<1> HIDE DEF k
<1>5. job'[s] = k
  BY <1>3, Wrote
<1>6. /\ bucket' \subseteq bucket /\ Keeping
      /\ faults' = faults \/ (faults < MaxFaults /\ faults' = faults + 1)
      /\ Head(job[s].todo) \notin sure' /\ sure' \subseteq sure
  BY <1>2, Deletion DEF EraseObject
<1>7. ~Uploading(s)' /\ Hand(k) = Hand(job[s]) /\ job[s].todo # <<>>
  BY <1>1, <1>2, <1>4, <1>5 DEF Uploading, Hand, Clear
<1>8. Clear(s)'
  <2>1. Hand(job[s])' = Hand(k) /\ evidence' = evidence /\ begun' = begun
    BY <1>5 DEF Hand, Elements, EraseObject
  <2>2. Hand(job[s])' \subseteq begun' /\ job'[s].due \cup job'[s].marked \subseteq DOMAIN evidence'
    BY <1>1, <1>2, <1>4, <1>5, <1>7, <2>1 DEF Clear
  <2>3. \A i \in job'[s].marked : evidence'[i].of \notin sure'
    BY <1>1, <1>2, <1>4, <1>5, <1>6, <2>1 DEF Clear
  <2> QED
    BY <1>4, <1>5, <1>6, <1>7, <2>2, <2>3 DEF Clear
<1> QED
  BY <1>1, <1>3, <1>4, <1>6, <1>7, <1>8, QuietStep DEF EraseObject, Holds

LEMMA ReapObjectKeeps ==
  ASSUME EvidenceInv, NEW s \in Sessions, ReapObject(s)
  PROVE  EvidenceInv'
<1>1. job[s] # idle /\ job[s].pc = "reap" /\ ~Uploading(s) /\ job[s].todo # <<>>
  BY Idle DEF ReapObject, At, Uploading, Stages
<1>2. job[s] \in JobRecord /\ Clear(s) /\ Types
  BY <1>1, Busy DEF EvidenceInv
<1> DEFINE k == [job[s] EXCEPT !.pc = "reaped"]
<1>3. job' = [job EXCEPT ![s] = k]
  BY DEF ReapObject, MoveOn
<1>4. /\ k \in JobRecord /\ k.pc = "reaped" /\ k.todo = job[s].todo /\ k.held = job[s].held
      /\ k.due = job[s].due /\ k.marked = job[s].marked
  BY <1>2, Moved DEF Stages
<1> HIDE DEF k
<1>5. job'[s] = k
  BY <1>3, Wrote
<1>6. /\ bucket' \subseteq bucket /\ Keeping
      /\ faults' = faults \/ (faults < MaxFaults /\ faults' = faults + 1)
      /\ Head(job[s].todo) \notin sure' /\ sure' \subseteq sure
  BY <1>2, Deletion DEF ReapObject
<1>7. ~Uploading(s)' /\ Hand(k) = Hand(job[s])
  BY <1>4, <1>5 DEF Uploading, Hand
<1>8. Clear(s)'
  <2>1. /\ Hand(job[s])' = Hand(k) /\ evidence' = evidence /\ begun' = begun
        /\ Locked(s)' = Locked(s)
    BY <1>4, <1>5 DEF Hand, Elements, Locked, ReapObject
  <2>2. Hand(job[s])' \subseteq begun' /\ job'[s].due \cup job'[s].marked \subseteq DOMAIN evidence'
    BY <1>1, <1>2, <1>4, <1>5, <1>7, <2>1 DEF Clear
  <2>3. \A i \in job'[s].marked : evidence'[i].of \notin sure'
    BY <1>1, <1>2, <1>4, <1>5, <1>6, <2>1 DEF Clear
  <2>4. Locked(s)' \cap sure' = {}
    BY <1>1, <1>2, <1>6, <2>1 DEF Clear
  <2> QED
    BY <1>1, <1>4, <1>5, <1>6, <1>7, <2>2, <2>3, <2>4 DEF Clear
<1> QED
  BY <1>1, <1>3, <1>4, <1>6, <1>7, <1>8, QuietStep DEF ReapObject, Holds

LEMMA ReadTokenKeeps ==
  ASSUME EvidenceInv, NEW s \in Sessions, ReadToken(s)
  PROVE  EvidenceInv'
<1>1. job[s] # idle /\ job[s].pc = "claim" /\ ~Uploading(s) /\ job[s].todo # <<>>
  BY Idle DEF ReadToken, At, Uploading, Stages
<1>2. job[s] \in JobRecord /\ Clear(s)
  BY <1>1, Busy DEF EvidenceInv
<1> DEFINE k == [job[s] EXCEPT !.pc = "take"]
<1>3. job' = [job EXCEPT ![s] = k]
  BY DEF ReadToken, MoveOn
<1>4. /\ k \in JobRecord /\ k.pc = "take" /\ k.todo = job[s].todo /\ k.held = job[s].held
      /\ k.due = job[s].due /\ k.marked = job[s].marked /\ k.report = job[s].report
  BY <1>2, Moved DEF Stages
<1> HIDE DEF k
<1>5. job'[s] = k
  BY <1>3, Wrote
<1>6. ~Uploading(s)' /\ Hand(k) = Hand(job[s])
  BY <1>4, <1>5 DEF Uploading, Hand
<1>7. Clear(s)'
  <2>1. /\ Hand(job[s])' = Hand(k) /\ evidence' = evidence /\ begun' = begun /\ sure' = sure
    BY <1>5 DEF Hand, Elements, ReadToken, sure
  <2> QED
    BY <1>1, <1>2, <1>4, <1>5, <1>6, <2>1 DEF Clear
<1> QED
  BY <1>1, <1>3, <1>4, <1>6, <1>7, NothingKept, QuietStep DEF ReadToken, Holds

LEMMA TakeTokenKeeps ==
  ASSUME EvidenceInv, NEW s \in Sessions, TakeToken(s)
  PROVE  EvidenceInv'
<1>1. job[s] # idle /\ job[s].pc = "take" /\ ~Uploading(s)
  BY Idle DEF TakeToken, At, Uploading, Stages
<1>2. job[s] \in JobRecord /\ Clear(s) /\ job[s].todo # <<>>
  BY <1>1, Busy DEF EvidenceInv, Clear
<1> DEFINE k == [job[s] EXCEPT !.pc = "claim", !.todo = Tail(@), !.held = Append(@, Head(job[s].todo))]
<1>3. job' = [job EXCEPT ![s] = k]
  BY <1>2 DEF TakeToken, EvidenceInv, Types
<1>4. /\ k \in JobRecord /\ k.pc = "claim" /\ Hand(k) \subseteq Hand(job[s])
      /\ k.due = job[s].due /\ k.marked = job[s].marked /\ k.report = job[s].report
  BY <1>2, Taken DEF Stages
<1> HIDE DEF k
<1>5. job'[s] = k
  BY <1>3, Wrote
<1>6. ~Uploading(s)'
  BY <1>4, <1>5 DEF Uploading
<1>7. Clear(s)'
  <2>1. /\ Hand(job[s])' = Hand(k) /\ evidence' = evidence /\ begun' = begun /\ sure' = sure
    BY <1>5 DEF Hand, Elements, TakeToken, sure
  <2> QED
    BY <1>1, <1>2, <1>4, <1>5, <1>6, <2>1 DEF Clear
<1> QED
  BY <1>1, <1>3, <1>4, <1>6, <1>7, NothingKept, QuietStep DEF TakeToken, Holds

LEMMA ReapRowKeeps ==
  ASSUME EvidenceInv, NEW s \in Sessions, ReapRow(s)
  PROVE  EvidenceInv'
<1>1. job[s] # idle /\ job[s].pc = "reaped" /\ ~Uploading(s)
  BY Idle DEF ReapRow, At, Uploading, Stages
<1>2. job[s] \in JobRecord /\ Clear(s) /\ job[s].todo # <<>>
  BY <1>1, Busy DEF EvidenceInv, Clear
<1> DEFINE k == [job[s] EXCEPT !.pc = "reap", !.todo = Tail(@), !.held = Append(@, Head(job[s].todo))]
<1>3. job' = [job EXCEPT ![s] = k]
  BY <1>2 DEF ReapRow, EvidenceInv, Types
<1>4. /\ k \in JobRecord /\ k.pc = "reap" /\ Hand(k) \subseteq Hand(job[s])
      /\ k.due = job[s].due /\ k.marked = job[s].marked
      /\ Elements(k.held) = Elements(job[s].held) \cup {Head(job[s].todo)}
  BY <1>2, Taken DEF Stages
<1> HIDE DEF k
<1>5. job'[s] = k
  BY <1>3, Wrote
<1>6. ~Uploading(s)'
  BY <1>4, <1>5 DEF Uploading
<1>7. Clear(s)'
  <2>1. /\ Hand(job[s])' = Hand(k) /\ evidence' = evidence /\ begun' = begun /\ sure' = sure
        /\ Locked(s)' = Elements(k.held)
    BY <1>5 DEF Hand, Elements, Locked, ReapRow, sure
  <2>2. Locked(s)' = Locked(s) \cup {Head(job[s].todo)}
    BY <1>4, <2>1, LockedIsHeld
  <2>3. Locked(s)' \cap sure' = {}
    BY <1>1, <1>2, <2>1, <2>2 DEF Clear
  <2> QED
    BY <1>1, <1>2, <1>4, <1>5, <1>6, <2>1, <2>3 DEF Clear
<1> QED
  BY <1>1, <1>3, <1>4, <1>6, <1>7, NothingKept, QuietStep DEF ReapRow, Holds

\* A session takes up a list of uploads that are staged or known to a client.
LEMMA TakesUp ==
  ASSUME EvidenceInv, NEW s \in Sessions, job[s] = idle,
         NEW stage \in {"erase", "claim", "reap"}, NEW list \in Seq(Uploads),
         NEW r \in Reports \cup Uploads \cup {"none"},
         job' = [job EXCEPT ![s] = Job(stage, list, r)],
         Elements(list) \subseteq told \cup pending,
         stage = "erase" => list # <<>>,
         stage = "claim" => r \in Reports,
         UNCHANGED <<bucket, kept, pending, stale, evidence, begun, told, faults>>
  PROVE  EvidenceInv'
<1> DEFINE k == Job(stage, list, r)
<1>1. /\ k \in JobRecord /\ k.pc = stage /\ k.todo = list /\ k.held = <<>>
      /\ k.due = {} /\ k.marked = {} /\ k.report = r /\ Hand(k) = Elements(list)
  BY Made DEF Stages
<1> HIDE DEF k
<1>2. job'[s] = k /\ job' = [job EXCEPT ![s] = k]
  BY Wrote DEF k
<1>3. ~Uploading(s) /\ ~Uploading(s)'
  BY <1>1, <1>2, Idle DEF Uploading
<1>4. Clear(s)'
  <2>1. /\ Hand(job[s])' = Hand(k) /\ Hand(k) \subseteq begun
        /\ Locked(s)' = {}
    BY <1>1, <1>2 DEF Hand, Elements, Locked, EvidenceInv, Types
  <2>2. k.pc \in {"erase", "claim", "reap"}
    BY <1>1
  <2>3. k.pc \in {"put", "staged", "erase", "drop", "take", "reaped"} => k.todo # <<>>
    BY <1>1, <2>2
  <2>4. k.pc \in {"claim", "take"} => k.report \in Reports
    BY <1>1, <2>2
  <2> QED
    BY <1>1, <1>2, <1>3, <2>1, <2>2, <2>3, <2>4 DEF Clear
<1>5. Hand(k) \subseteq told \cup pending
  BY <1>1
<1>6. faults' = faults \/ (faults < MaxFaults /\ faults' = faults + 1)
  OBVIOUS
<1>7. k \in {idle} \cup JobRecord /\ bucket' \subseteq bucket
  BY <1>1
<1>8. Hand(k) \subseteq Holds(s) \cup told \cup pending
  BY <1>5
<1> QED
  BY <1>2, <1>3, <1>4, <1>6, <1>7, <1>8, NothingKept, QuietStep

LEMMA BeginDiscardKeeps ==
  ASSUME EvidenceInv, NEW s \in Sessions, NEW u \in Uploads, BeginDiscard(s, u)
  PROVE  EvidenceInv'
<1>1. /\ job[s] = idle /\ u \in told
      /\ job' = [job EXCEPT ![s] = Job("erase", <<u>>, u)]
      /\ UNCHANGED <<bucket, kept, pending, stale, evidence, begun, told, faults>>
  BY DEF BeginDiscard
<1>2. PICK list \in Seq(Uploads) : list = <<u>> /\ list # <<>> /\ Elements(list) = {u}
  BY OneUpload
<1>3. Elements(list) \subseteq told \cup pending
  BY <1>1, <1>2
<1> QED
  BY <1>1, <1>2, <1>3, TakesUp

LEMMA BeginClaimKeeps ==
  ASSUME EvidenceInv, NEW s \in Sessions, NEW list \in Claims, NEW r \in Reports,
         BeginClaim(s, list, r)
  PROVE  EvidenceInv'
<1>1. list \in Seq(Uploads) /\ Elements(list) \subseteq told
  BY EvidenceAssumption DEF BeginClaim, Elements
<1> QED
  BY <1>1, TakesUp DEF BeginClaim

LEMMA BeginCleanupKeeps ==
  ASSUME EvidenceInv, NEW s \in Sessions, BeginCleanup(s)
  PROVE  EvidenceInv'
<1>1. PICK batch \in Batches(pending \cap stale) : \E order \in Orders(batch) :
              job' = [job EXCEPT ![s] = Job("reap", order, "none")]
  BY DEF BeginCleanup
<1>2. PICK order \in Orders(batch) : job' = [job EXCEPT ![s] = Job("reap", order, "none")]
  BY <1>1
<1>3. batch \subseteq pending /\ pending \subseteq begun /\ begun \subseteq Uploads /\ IsFiniteSet(begun)
  BY DEF Batches, EvidenceInv, Types
<1>4. Cardinality(batch) \in Nat
  BY <1>3, FS_Subset, FS_CardinalityType
<1>5. order \in [1 .. Cardinality(batch) -> batch]
  BY DEF Orders
<1>6. order \in Seq(Uploads) /\ Elements(order) \subseteq pending
  BY <1>3, <1>4, <1>5 DEF Elements
<1> QED
  BY <1>2, <1>6, TakesUp DEF BeginCleanup

LEMMA BeginPurgeKeeps ==
  ASSUME EvidenceInv, NEW s \in Sessions, BeginPurge(s)
  PROVE  EvidenceInv'
<1>1. job[s] # idle /\ job[s].pc = "reap" /\ ~Uploading(s)
  BY Idle DEF BeginPurge, At, Uploading, Stages
<1>2. job[s] \in JobRecord /\ Clear(s) /\ Types
  BY <1>1, Busy DEF EvidenceInv
<1>3. PICK batch \in Batches({i \in DOMAIN evidence : evidence[i].lapsed /\ ~evidence[i].purged}) :
              job' = [job EXCEPT ![s].pc = "purge", ![s].due = batch]
  BY DEF BeginPurge
<1>4. batch \subseteq DOMAIN evidence /\ batch \in SUBSET Nat
  <2>1. DOMAIN evidence \subseteq Nat
    BY <1>2 DEF Types
  <2> QED
    BY <2>1 DEF Batches
<1> DEFINE k == [job[s] EXCEPT !.pc = "purge", !.due = batch]
<1>5. job' = [job EXCEPT ![s] = k]
  BY <1>2, <1>3 DEF Types
<1>6. /\ k \in JobRecord /\ k.pc = "purge" /\ k.todo = job[s].todo /\ k.held = job[s].held
      /\ k.due = batch /\ k.marked = job[s].marked
  BY <1>2, <1>4 DEF JobRecord, Stages
<1> HIDE DEF k
<1>7. job'[s] = k
  BY <1>5, Wrote
<1>8. UNCHANGED <<bucket, kept, pending, stale, evidence, begun, told, faults>>
  BY DEF BeginPurge
<1>9. ~Uploading(s)' /\ Hand(k) = Hand(job[s])
  BY <1>6, <1>7 DEF Uploading, Hand
<1>10. Clear(s)'
  <2>1. /\ Hand(job[s])' = Hand(k) /\ evidence' = evidence /\ begun' = begun /\ sure' = sure
        /\ Locked(s)' = Locked(s)
    BY <1>6, <1>7, <1>8 DEF Hand, Elements, Locked, sure
  <2> QED
    BY <1>1, <1>2, <1>4, <1>6, <1>7, <1>9, <2>1 DEF Clear
<1> QED
  BY <1>1, <1>5, <1>6, <1>8, <1>9, <1>10, NothingKept, QuietStep DEF Holds

LEMMA PurgeObjectKeeps ==
  ASSUME EvidenceInv, NEW s \in Sessions, PurgeObject(s)
  PROVE  EvidenceInv'
<1>1. job[s] # idle /\ job[s].pc = "purge" /\ ~Uploading(s)
  BY Idle DEF PurgeObject, At, Uploading, Stages
<1>2. job[s] \in JobRecord /\ Clear(s) /\ Types
  BY <1>1, Busy DEF EvidenceInv
<1>3. PICK i \in job[s].due :
        /\ DeleteObject(evidence[i].of)
        /\ job' = [job EXCEPT ![s].due = @ \ {i}, ![s].marked = @ \cup {i}]
  BY DEF PurgeObject
<1>4. i \in DOMAIN evidence /\ i \in Nat
  BY <1>1, <1>2 DEF Clear, Types
<1> DEFINE k == [job[s] EXCEPT !.due = @ \ {i}, !.marked = @ \cup {i}]
<1>5. job' = [job EXCEPT ![s] = k]
  BY <1>2, <1>3 DEF Types
<1>6. /\ k \in JobRecord /\ k.pc = "purge" /\ k.todo = job[s].todo /\ k.held = job[s].held
      /\ k.due = job[s].due \ {i} /\ k.marked = job[s].marked \cup {i}
  BY <1>1, <1>2, <1>4 DEF JobRecord
<1> HIDE DEF k
<1>7. job'[s] = k
  BY <1>5, Wrote
<1>8. ~Uploading(s)' /\ Hand(k) = Hand(job[s])
  BY <1>6, <1>7 DEF Uploading, Hand
<1>9. /\ bucket' \subseteq bucket /\ Keeping
      /\ faults' = faults \/ (faults < MaxFaults /\ faults' = faults + 1)
      /\ evidence[i].of \notin sure' /\ sure' \subseteq sure
  BY <1>2, <1>3, Deletion
<1>10. UNCHANGED <<pending, stale, evidence, begun, told>>
  BY DEF PurgeObject
<1>11. Clear(s)'
  <2>1. /\ Hand(job[s])' = Hand(k) /\ evidence' = evidence /\ begun' = begun
        /\ Locked(s)' = Locked(s)
    BY <1>6, <1>7, <1>10 DEF Hand, Elements, Locked
  <2>2. \A n \in job'[s].marked : evidence'[n].of \notin sure'
    BY <1>1, <1>2, <1>6, <1>7, <1>9, <2>1 DEF Clear
  <2>3. Locked(s)' \cap sure' = {}
    BY <1>1, <1>2, <1>9, <2>1 DEF Clear
  <2> QED
    BY <1>1, <1>2, <1>4, <1>6, <1>7, <1>8, <2>1, <2>2, <2>3 DEF Clear
<1> QED
  BY <1>1, <1>5, <1>6, <1>8, <1>9, <1>10, <1>11, QuietStep DEF Holds

-----------------------------------------------------------------------------
(* Steps of an upload                                                      *)

LEMMA BeginUploadKeeps ==
  ASSUME EvidenceInv, NEW s \in Workers, NEW u \in Uploads, BeginUpload(s, u)
  PROVE  EvidenceInv'
<1>1. /\ s \in Sessions /\ job[s] = idle /\ u \notin begun /\ ~Uploading(s) /\ Types
      /\ UNCHANGED <<bucket, kept, pending, stale, evidence, told, faults>>
  BY Idle DEF BeginUpload, Sessions, EvidenceInv
<1> DEFINE k == Job("put", <<u>>, u)
<1>2. /\ k \in JobRecord /\ k.pc = "put" /\ k.todo = <<u>> /\ k.held = <<>>
      /\ k.due = {} /\ k.marked = {} /\ Hand(k) = {u} /\ Head(k.todo) = u /\ <<u>> # <<>>
  <2> DEFINE list == <<u>>
  <2>1. list \in Seq(Uploads) /\ list # <<>> /\ Head(list) = u /\ Elements(list) = {u}
    BY OneUpload
  <2> HIDE DEF list
  <2>2. LET j == Job("put", list, u)
        IN /\ j \in JobRecord /\ j.pc = "put" /\ j.todo = list /\ j.held = <<>>
           /\ j.due = {} /\ j.marked = {} /\ Hand(j) = Elements(list)
    BY <2>1, Made DEF Stages
  <2> QED
    BY <2>1, <2>2 DEF list
<1>3. job' = [job EXCEPT ![s] = k] /\ begun' = begun \cup {u}
  BY DEF BeginUpload
<1> HIDE DEF k
<1>4. job'[s] = k /\ \A v \in Sessions \ {s} : job'[v] = job[v]
  BY <1>1, <1>3, Wrote
<1>5. Placed' = Placed /\ sure' = sure /\ Hand(job[s])' = {u}
  BY <1>1, <1>2, <1>4 DEF Placed, sure, Hand, Elements
<1>6. Frame(s)
  BY <1>1, <1>3, <1>4, <1>5 DEF Frame
<1>7. Types'
  BY <1>1, <1>2, <1>3, <1>5, FS_AddElement DEF Types
<1>8. Clear(s)'
  BY <1>1, <1>2, <1>3, <1>4, <1>5 DEF Clear, Types, Uploading
<1>9. \A v \in Sessions : Clear(v)'
  BY <1>1, <1>6, <1>8, OthersClear
<1>10. Apart'
  BY <1>1, <1>2, <1>4, <1>5, <1>6, StaysApart
<1>11. ASSUME NEW x \in bucket', Answerable(x)'
       PROVE  Governed(x)'
  <2>1. Answerable(x) /\ x \in bucket /\ Owners(x)' = Owners(x)
    BY <1>1, <1>11 DEF Answerable, Owners
  <2> QED
    BY <1>1, <1>6, <2>1, StaysGoverned DEF EvidenceInv
<1> QED
  BY <1>1, <1>5, <1>7, <1>9, <1>10, <1>11 DEF EvidenceInv, PurgedIsGone

\* The end of an upload, recorded or not: the photograph, if it was stored, is
\* still answered for.
LEMMA UploadEnds ==
  ASSUME EvidenceInv, NEW s \in Sessions, Uploading(s), job' = [job EXCEPT ![s] = idle],
         bucket' \subseteq bucket \cup Storing(s), Keeping,
         pending' \subseteq pending \cup Storing(s), pending \subseteq pending',
         told' \subseteq told \cup Storing(s), told \subseteq told',
         faults' = faults \/ (faults < MaxFaults /\ faults' = faults + 1),
         UNCHANGED <<stale, evidence, begun>>,
         \A x : x = Head(job[s].todo) /\ x \in bucket' /\ Answerable(x)' => x \in pending'
  PROVE  EvidenceInv'
<1> DEFINE u == Head(job[s].todo)
<1>1. /\ Types /\ u \in begun /\ u \notin told \cup pending \cup Placed /\ Storing(s) = {u}
      /\ job[s].todo = <<u>>
  BY UploadInHand DEF EvidenceInv, Storing, Clear
<1>2. job'[s] = idle /\ \A v \in Sessions \ {s} : job'[v] = job[v]
  BY Wrote
<1>3. faults' \in 0 .. MaxFaults /\ (faults' = 0 => faults = 0)
  BY <1>1, EvidenceAssumption DEF Types
<1>4. Placed' = Placed
  BY DEF Placed
<1>5. Frame(s)
  BY <1>2, <1>4 DEF Frame, Keeping
<1>6. Types'
  BY <1>1, <1>3, <1>4 DEF Types, Keeping
<1>7. \A v \in Sessions : Clear(v)'
  BY <1>2, <1>5, IdleIsClear, OthersClear
<1>8. Apart'
  BY <1>2, <1>5, IdleIsClear, StaysApart
<1>9. PurgedIsGone'
  BY <1>1, <1>4 DEF EvidenceInv, PurgedIsGone, Placed, Keeping
<1>10. ASSUME NEW x \in bucket', Answerable(x)'
       PROVE  Governed(x)'
  <2>1. CASE x = u
    <3>1. x \in pending'
      BY <1>10, <2>1
    <3> QED
      BY <3>1 DEF Governed
  <2>2. CASE x # u
    <3>1. x \in bucket /\ Answerable(x) /\ Owners(x)' = Owners(x)
      BY <1>1, <1>3, <1>10, <2>2 DEF Answerable, Owners, Keeping
    <3>2. job[s].todo # <<x>>
      BY <1>1, <2>2
    <3> QED
      BY <1>5, <3>1, <3>2, StaysGoverned DEF EvidenceInv
  <2> QED
    BY <2>1, <2>2
<1> QED
  BY <1>6, <1>7, <1>8, <1>9, <1>10 DEF EvidenceInv

LEMMA StoringStages ==
  ASSUME EvidenceInv, NEW s \in Sessions, At(s, "put") \/ At(s, "staged")
  PROVE  /\ Uploading(s) /\ Storing(s) = {Head(job[s].todo)}
         /\ Head(job[s].todo) \notin told \cup pending
         /\ At(s, "put") => Head(job[s].todo) \notin bucket
<1>1. Uploading(s) /\ Clear(s)
  BY DEF At, Uploading, EvidenceInv
<1> QED
  BY <1>1, UploadInHand DEF Storing, Clear, At

LEMMA RefuseImageKeeps ==
  ASSUME EvidenceInv, NEW s \in Sessions, RefuseImage(s)
  PROVE  EvidenceInv'
BY StoringStages, NothingKept, UploadEnds DEF RefuseImage, Finish

\* A fault that has struck leaves only what clients know to be answered for.
LEMMA Struck ==
  ASSUME EvidenceInv, NEW fault, Strikes(fault)
  PROVE  /\ faults < MaxFaults /\ faults' = faults + 1
         /\ \A u : Answerable(u)' => u \in told'
<1>1. faults' # 0
  BY EvidenceAssumption DEF Strikes, EvidenceInv, Types
<1> QED
  BY <1>1 DEF Strikes, Answerable

LEMMA StoreFailsKeeps ==
  ASSUME EvidenceInv, NEW s \in Sessions, StoreFails(s)
  PROVE  EvidenceInv'
<1>1. Head(job[s].todo) \notin told' /\ bucket' \subseteq bucket \cup Storing(s) /\ Uploading(s)
  BY StoringStages DEF StoreFails
<1>2. faults < MaxFaults /\ faults' = faults + 1 /\ \A u : Answerable(u)' => u \in told'
  BY Struck DEF StoreFails
<1> QED
  BY <1>1, <1>2, NothingKept, UploadEnds DEF StoreFails, Finish

LEMMA RowFailsKeeps ==
  ASSUME EvidenceInv, NEW s \in Sessions, RowFails(s)
  PROVE  EvidenceInv'
<1>1. /\ Uploading(s) /\ Head(job[s].todo) \notin told' /\ bucket' \subseteq bucket
      /\ UNCHANGED <<pending, stale, evidence, begun, told>>
      /\ job' = [job EXCEPT ![s] = idle]
  BY StoringStages DEF RowFails, Finish, Erases, Keeps
<1>2. faults < MaxFaults /\ faults' = faults + 1 /\ \A u : Answerable(u)' => u \in told'
  BY Struck DEF RowFails
<1>3. faults' # 0 /\ kept \subseteq kept' /\ kept' \subseteq kept \cup bucket
  <2>1. faults \in Nat
    BY EvidenceAssumption DEF EvidenceInv, Types
  <2> QED
    BY <1>2, <2>1 DEF RowFails, Erases, Keeps
<1>4. Keeping
  BY <1>3 DEF Keeping
<1> QED
  BY <1>1, <1>2, <1>4, UploadEnds

LEMMA RecordUploadKeeps ==
  ASSUME EvidenceInv, NEW s \in Sessions, RecordUpload(s)
  PROVE  EvidenceInv'
BY StoringStages, NothingKept, UploadEnds DEF RecordUpload, Finish

LEMMA CrashKeeps ==
  ASSUME EvidenceInv, NEW s \in Sessions, Crash(s)
  PROVE  EvidenceInv'
<1>1. /\ faults < MaxFaults /\ faults' = faults + 1
      /\ \A u : Answerable(u)' => u \in told'
  BY Struck DEF Crash
<1>2. CASE ~Uploading(s)
  BY <1>1, <1>2, GivenUp DEF Crash
<1>3. CASE Uploading(s)
  <2>1. /\ bucket' = bucket /\ Keeping /\ pending' = pending /\ told' = told
        /\ UNCHANGED <<stale, evidence, begun>> /\ job' = [job EXCEPT ![s] = idle]
    BY NothingKept DEF Crash, Abort, Finish
  <2>2. Head(job[s].todo) \notin told'
    BY <1>3, <2>1, UploadInHand
  <2> QED
    BY <1>1, <1>3, <2>1, <2>2, UploadEnds
<1> QED
  BY <1>2, <1>3

LEMMA StoreObjectKeeps ==
  ASSUME EvidenceInv, NEW s \in Sessions, StoreObject(s)
  PROVE  EvidenceInv'
<1>1. job[s] # idle /\ job[s].pc = "put" /\ Uploading(s)
  BY Idle DEF StoreObject, At, Uploading, Stages
<1>2. job[s] \in JobRecord /\ Clear(s) /\ Types
  BY <1>1, Busy DEF EvidenceInv
<1>3. PICK u \in begun : /\ u = Head(job[s].todo) /\ u \notin told \cup pending \cup Placed
                         /\ job[s].todo = <<u>> /\ Hand(job[s]) = {u} /\ Storing(s) = {u}
                         /\ s \in Workers
  BY <1>1, <1>2, UploadInHand DEF Storing, Clear
<1> DEFINE k == [job[s] EXCEPT !.pc = "staged"]
<1>4. job' = [job EXCEPT ![s] = k] /\ bucket' = bucket \cup {u}
      /\ UNCHANGED <<kept, pending, stale, evidence, begun, told, faults>>
  BY <1>3 DEF StoreObject, MoveOn
<1>5. /\ k \in JobRecord /\ k.pc = "staged" /\ k.todo = job[s].todo /\ k.held = job[s].held
      /\ k.due = job[s].due /\ k.marked = job[s].marked
  BY <1>2, Moved DEF Stages
<1> HIDE DEF k
<1>6. job'[s] = k /\ \A v \in Sessions \ {s} : job'[v] = job[v]
  BY <1>4, Wrote
<1>7. Placed' = Placed /\ sure' \subseteq sure \cup {u} /\ Hand(job[s])' = {u} /\ Uploading(s)'
  BY <1>3, <1>4, <1>5, <1>6 DEF Placed, sure, Hand, Elements, Uploading
<1>8. Frame(s)
  BY <1>3, <1>4, <1>6, <1>7 DEF Frame
<1>9. Types'
  BY <1>2, <1>3, <1>4, <1>5, <1>7 DEF Types
<1>10. Clear(s)'
  <2>1. job'[s].todo = <<Head(job'[s].todo)>> /\ Head(job'[s].todo) = u
        /\ job'[s].held = <<>> /\ job'[s].todo # <<>>
    BY <1>1, <1>2, <1>3, <1>5, <1>6 DEF Clear
  <2>2. \A i \in job'[s].marked : evidence'[i].of \notin sure'
    <3>1. ASSUME NEW i \in job[s].marked
          PROVE  evidence[i].of \notin sure'
      <4>1. evidence[i].of \notin sure /\ i \in DOMAIN evidence
        BY <1>1, <1>2, <3>1 DEF Clear
      <4> QED
        BY <1>3, <1>7, <4>1 DEF Placed
    <3> QED
      BY <1>4, <1>5, <1>6, <1>7, <3>1
  <2>3. job'[s].due \cup job'[s].marked \subseteq DOMAIN evidence'
    BY <1>1, <1>2, <1>4, <1>5, <1>6 DEF Clear
  <2> QED
    BY <1>3, <1>4, <1>5, <1>6, <1>7, <2>1, <2>2, <2>3 DEF Clear
<1>11. \A v \in Sessions : Clear(v)'
  BY <1>8, <1>10, OthersClear
<1>12. Apart'
  <2>1. Holds(s) = {u} /\ Head(job'[s].todo) = u
    BY <1>1, <1>3, <1>5, <1>6 DEF Holds
  <2> QED
    BY <1>3, <1>7, <1>8, <2>1, StaysApart
<1>13. PurgedIsGone'
  BY <1>3, <1>4, <1>7 DEF EvidenceInv, PurgedIsGone, Placed
<1>14. ASSUME NEW x \in bucket', Answerable(x)'
       PROVE  Governed(x)'
  <2>1. CASE x = u
    <3>1. job'[s].pc \in {"put", "staged"} /\ job'[s].todo = <<x>>
      BY <1>3, <1>5, <1>6, <2>1
    <3> QED
      BY <1>3, <3>1 DEF Governed, InUpload
  <2>2. CASE x # u
    <3>1. x \in bucket /\ Answerable(x) /\ Owners(x)' = Owners(x)
      BY <1>4, <1>14, <2>2 DEF Answerable, Owners
    <3>2. job[s].todo # <<x>>
      BY <1>3, <2>2
    <3> QED
      BY <1>4, <1>8, <3>1, <3>2, StaysGoverned DEF EvidenceInv
  <2> QED
    BY <2>1, <2>2
<1> QED
  BY <1>9, <1>11, <1>12, <1>13, <1>14 DEF EvidenceInv

-----------------------------------------------------------------------------
(* Steps that commit                                                       *)

\* A session commits: rows go, rows come or are marked, and it is idle again.
LEMMA Commits ==
  ASSUME EvidenceInv, NEW s \in Sessions, ~Uploading(s), job' = [job EXCEPT ![s] = idle],
         pending' \subseteq pending, evidence' \in Seq(EvidenceRow),
         \A i \in DOMAIN evidence : i \in DOMAIN evidence' /\ evidence'[i].of = evidence[i].of,
         Placed' \subseteq Placed \cup Holds(s),
         UNCHANGED <<bucket, kept, stale, begun, told, faults>>,
         PurgedIsGone',
         \A u \in sure : Governed(u)
            => Owners(u)' # {} \/ ((u \in pending => u \in pending')
                                     /\ Owners(u) \subseteq Owners(u)')
  PROVE  EvidenceInv'
<1>1. job'[s] = idle /\ \A v \in Sessions \ {s} : job'[v] = job[v]
  BY Wrote
<1>2. sure' = sure
  BY DEF sure
<1>3. Storing(s) = {} /\ Frame(s)
  BY <1>1, <1>2 DEF Storing, Frame
<1>4. Holds(s) \subseteq begun
  BY Busy DEF Holds
<1>5. Types'
  BY <1>4 DEF EvidenceInv, Types
<1>6. \A v \in Sessions : Clear(v)'
  BY <1>1, <1>3, IdleIsClear, OthersClear
<1>7. Apart'
  BY <1>1, <1>3, IdleIsClear, StaysApart
<1>8. ASSUME NEW x \in bucket', Answerable(x)'
      PROVE  Governed(x)'
  <2>1. x \in bucket /\ Answerable(x) /\ x \in sure
    BY <1>8 DEF Answerable, sure
  <2>2. Governed(x)
    BY <2>1 DEF EvidenceInv
  <2>3. CASE Owners(x)' # {}
    BY <2>3 DEF Governed
  <2>4. CASE (x \in pending => x \in pending') /\ Owners(x) \subseteq Owners(x)'
    BY <1>3, <2>2, <2>4, StaysGoverned
  <2> QED
    BY <2>1, <2>2, <2>3, <2>4
<1> QED
  BY <1>5, <1>6, <1>7, <1>8 DEF EvidenceInv

LEMMA DropRowKeeps ==
  ASSUME EvidenceInv, NEW s \in Sessions, DropRow(s)
  PROVE  EvidenceInv'
<1>1. /\ job[s].pc = "drop" /\ ~Uploading(s) /\ job' = [job EXCEPT ![s] = idle]
      /\ UNCHANGED <<bucket, kept, stale, evidence, begun, told, faults>>
      /\ pending' = pending \ {Head(job[s].todo)}
  BY DEF DropRow, At, Uploading, Finish
<1>2. Head(job[s].todo) \notin sure
  BY <1>1 DEF EvidenceInv, Clear
<1>3. /\ Placed' = Placed /\ evidence' \in Seq(EvidenceRow)
      /\ PurgedIsGone'
      /\ \A u \in sure : Owners(u)' = Owners(u)
  BY <1>1 DEF Placed, PurgedIsGone, Owners, EvidenceInv, Types
<1> QED
  BY <1>1, <1>2, <1>3, Commits

LEMMA CommitCleanupKeeps ==
  ASSUME EvidenceInv, NEW s \in Sessions, CommitCleanup(s)
  PROVE  EvidenceInv'
<1>1. /\ job[s].pc = "purge" /\ ~Uploading(s) /\ job' = [job EXCEPT ![s] = idle]
      /\ UNCHANGED <<bucket, kept, stale, begun, told, faults>>
      /\ pending' = pending \ Locked(s) /\ evidence' = Marked(job[s].marked)
  BY DEF CommitCleanup, At, Uploading, Finish
<1>2. /\ evidence \in Seq(EvidenceRow) /\ DOMAIN evidence = 1 .. Len(evidence) /\ Len(evidence) \in Nat
      /\ \A i \in DOMAIN evidence : evidence[i] \in EvidenceRow
  BY DEF EvidenceInv, Types
<1>3. /\ DOMAIN evidence' = DOMAIN evidence
      /\ \A i \in DOMAIN evidence :
           /\ evidence'[i] \in EvidenceRow /\ evidence'[i].of = evidence[i].of
           /\ evidence'[i].purged = (evidence[i].purged \/ i \in job[s].marked)
  BY <1>1, <1>2 DEF Marked, EvidenceRow
<1>4. evidence' \in Seq(EvidenceRow)
  <2>1. evidence' \in [1 .. Len(evidence) -> EvidenceRow]
    BY <1>1, <1>2, <1>3 DEF Marked
  <2> QED
    BY <1>2, <2>1
<1>5. Placed' = Placed
  BY <1>3 DEF Placed
<1>6. (\A i \in job[s].marked : evidence[i].of \notin sure) /\ Locked(s) \cap sure = {}
  BY <1>1, Idle DEF EvidenceInv, Clear, Stages
<1>7. PurgedIsGone'
  BY <1>1, <1>3, <1>6 DEF sure, EvidenceInv, PurgedIsGone
<1>8. ASSUME NEW u \in sure
      PROVE  (u \in pending => u \in pending') /\ Owners(u) \subseteq Owners(u)'
  <2>1. \A i \in Owners(u) : i \notin job[s].marked
    BY <1>6, <1>8 DEF Owners
  <2> QED
    BY <1>1, <1>3, <1>6, <1>8, <2>1 DEF Owners
<1> QED
  BY <1>1, <1>3, <1>4, <1>5, <1>7, <1>8, Commits

\* Rows added behind the others.
LEMMA Joined ==
  ASSUME NEW S, NEW p \in Seq(S), NEW q \in Seq(S)
  PROVE  /\ p \o q \in Seq(S) /\ DOMAIN (p \o q) = 1 .. (Len(p) + Len(q))
         /\ Len(p) \in Nat /\ Len(q) \in Nat
         /\ DOMAIN p = 1 .. Len(p) /\ DOMAIN q = 1 .. Len(q)
         /\ \A i \in 1 .. Len(p) : (p \o q)[i] = p[i]
         /\ \A i \in 1 .. Len(q) : (p \o q)[Len(p) + i] = q[i]
OBVIOUS

LEMMA CommitClaimKeeps ==
  ASSUME EvidenceInv, NEW s \in Sessions, CommitClaim(s)
  PROVE  EvidenceInv'
<1>1. /\ job[s] # idle /\ job[s].pc = "claim" /\ ~Uploading(s) /\ job' = [job EXCEPT ![s] = idle]
      /\ UNCHANGED <<bucket, kept, stale, begun, told, faults>>
      /\ pending' = pending \ Locked(s) /\ evidence' = evidence \o NewRows(s)
  BY Idle DEF CommitClaim, At, Uploading, Finish, Stages
<1>2. /\ job[s].held \in Seq(Uploads) /\ job[s].report \in Reports /\ evidence \in Seq(EvidenceRow)
      /\ Locked(s) \subseteq Hand(job[s])
  BY <1>1, Busy DEF EvidenceInv, Clear, Types
<1> DEFINE n == Len(evidence)
           new == NewRows(s)
<1>3. new \in Seq(EvidenceRow) /\ DOMAIN new = DOMAIN job[s].held
      /\ \A i \in DOMAIN new : new[i].of = job[s].held[i] /\ ~new[i].purged
  <2>1. DOMAIN job[s].held = 1 .. Len(job[s].held) /\ Len(job[s].held) \in Nat
        /\ \A i \in DOMAIN job[s].held : job[s].held[i] \in Uploads
    BY <1>2
  <2>2. new \in [1 .. Len(job[s].held) -> EvidenceRow]
    BY <1>2, <2>1 DEF NewRows, EvidenceRow
  <2> QED
    BY <2>1, <2>2 DEF NewRows
<1> HIDE DEF new
<1>4. /\ evidence' = evidence \o new /\ evidence' \in Seq(EvidenceRow)
      /\ n \in Nat /\ Len(new) \in Nat /\ DOMAIN evidence = 1 .. n /\ DOMAIN new = 1 .. Len(new)
      /\ DOMAIN evidence' = 1 .. (n + Len(new))
      /\ \A i \in 1 .. n : evidence'[i] = evidence[i]
      /\ \A i \in 1 .. Len(new) : evidence'[n + i] = new[i]
  BY <1>1, <1>2, <1>3, Joined DEF new
<1> HIDE DEF n
<1>5. /\ \A i \in DOMAIN evidence : i \in DOMAIN evidence' /\ evidence'[i] = evidence[i]
      /\ \A i \in DOMAIN new : n + i \in DOMAIN evidence' /\ evidence'[n + i] = new[i]
      /\ \A i \in DOMAIN evidence' : i \in DOMAIN evidence \/ \E m \in DOMAIN new : i = n + m
  <2>1. \A i \in DOMAIN evidence' : i \notin 1 .. n => i - n \in 1 .. Len(new) /\ i = n + (i - n)
    BY <1>4
  <2> QED
    BY <1>4, <2>1
<1>6. Placed' \subseteq Placed \cup Holds(s)
  <2>1. ASSUME NEW i \in DOMAIN evidence'
        PROVE  evidence'[i].of \in Placed \cup Locked(s)
    BY <1>3, <1>5 DEF Placed, Locked
  <2> QED
    BY <1>1, <1>2, <2>1 DEF Placed, Holds
<1>7. PurgedIsGone'
  BY <1>1, <1>3, <1>5 DEF EvidenceInv, PurgedIsGone
<1>8. ASSUME NEW u \in sure
      PROVE  Owners(u)' # {} \/ ((u \in pending => u \in pending') /\ Owners(u) \subseteq Owners(u)')
  <2>1. Owners(u) \subseteq Owners(u)'
    BY <1>5 DEF Owners
  <2>2. CASE u \in Locked(s)
    <3>1. PICK i \in DOMAIN new : new[i].of = u /\ ~new[i].purged
      BY <1>3, <2>2 DEF Locked
    <3>2. n + i \in Owners(u)'
      BY <1>5, <3>1 DEF Owners
    <3> QED
      BY <3>2
  <2>3. CASE u \notin Locked(s)
    BY <1>1, <2>1, <2>3
  <2> QED
    BY <2>2, <2>3
<1> QED
  BY <1>1, <1>4, <1>5, <1>6, <1>7, <1>8, Commits

-----------------------------------------------------------------------------
(* Time                                                                    *)

LEMMA ExpireKeeps ==
  ASSUME EvidenceInv, NEW u \in Uploads, Expire(u)
  PROVE  EvidenceInv'
<1>1. /\ UNCHANGED <<bucket, kept, pending, evidence, begun, told, job, faults>>
      /\ stale' = stale \cup {u} /\ u \in begun
  BY DEF Expire, EvidenceInv, Types
<1>2. Types'
  BY <1>1 DEF EvidenceInv, Types, Placed
<1>3. \A s \in Sessions : Clear(s)'
  BY <1>1 DEF EvidenceInv, Clear, Uploading, Placed, sure, Locked, Hand, Elements
<1>4. Apart'
  BY <1>1 DEF EvidenceInv, Apart, Uploading, Hand, Elements
<1> QED
  BY <1>1, <1>2, <1>3, <1>4
     DEF EvidenceInv, PurgedIsGone, Answerable, Governed, Owners, InUpload

LEMMA RetentionLapsesKeeps ==
  ASSUME EvidenceInv, NEW i \in DOMAIN evidence, RetentionLapses(i)
  PROVE  EvidenceInv'
<1>1. /\ UNCHANGED <<bucket, kept, pending, stale, begun, told, job, faults>>
      /\ evidence' = [evidence EXCEPT ![i].lapsed = TRUE]
      /\ evidence \in Seq(EvidenceRow) /\ DOMAIN evidence = 1 .. Len(evidence) /\ Len(evidence) \in Nat
  BY DEF RetentionLapses, EvidenceInv, Types
<1>2. /\ DOMAIN evidence' = DOMAIN evidence
      /\ \A n \in DOMAIN evidence : /\ evidence'[n] \in EvidenceRow
                                    /\ evidence'[n].of = evidence[n].of
                                    /\ evidence'[n].purged = evidence[n].purged
  <2>1. \A n \in DOMAIN evidence : evidence[n] \in EvidenceRow
    BY <1>1
  <2> QED
    BY <1>1, <2>1 DEF EvidenceRow
<1>3. evidence' \in Seq(EvidenceRow)
  <2>1. evidence' \in [1 .. Len(evidence) -> EvidenceRow]
    BY <1>1, <1>2
  <2> QED
    BY <1>1, <2>1
<1>4. Placed' = Placed
  BY <1>2 DEF Placed
<1>5. Types'
  BY <1>1, <1>3, <1>4 DEF EvidenceInv, Types
<1>6. ASSUME NEW s \in Sessions
      PROVE  Clear(s)'
  <2>1. /\ Clear(s) /\ Locked(s)' = Locked(s) /\ Hand(job[s])' = Hand(job[s])
        /\ sure' = sure /\ Uploading(s)' = Uploading(s)
    BY <1>1 DEF EvidenceInv, Locked, Hand, Elements, sure, Uploading
  <2>2. job[s] # idle => \A n \in job[s].marked : evidence'[n].of \notin sure
    BY <1>2, <2>1 DEF Clear
  <2> QED
    BY <1>1, <1>2, <1>4, <2>1, <2>2 DEF Clear
<1>7. Apart'
  BY <1>1 DEF EvidenceInv, Apart, Uploading, Hand, Elements
<1>8. PurgedIsGone'
  BY <1>1, <1>2 DEF EvidenceInv, PurgedIsGone, sure
<1>9. ASSUME NEW u \in bucket', Answerable(u)'
      PROVE  Governed(u)'
  <2>1. Governed(u)
    BY <1>1, <1>9 DEF EvidenceInv, Answerable
  <2>2. Owners(u)' = Owners(u) /\ InUpload(u)' = InUpload(u)
    BY <1>1, <1>2 DEF Owners, InUpload
  <2> QED
    BY <1>1, <2>1, <2>2 DEF Governed
<1> QED
  BY <1>5, <1>6, <1>7, <1>8, <1>9 DEF EvidenceInv

-----------------------------------------------------------------------------
(* Every step, and the theorems                                            *)

LEMMA StutterKeeps ==
  ASSUME EvidenceInv, UNCHANGED vars
  PROVE  EvidenceInv'
<1>1. Types' /\ Apart'
  BY DEF vars, EvidenceInv, Types, Placed, Apart, Uploading, Hand, Elements
<1>2. \A s \in Sessions : Clear(s)'
  BY DEF vars, EvidenceInv, Clear, Uploading, Placed, sure, Locked, Hand, Elements
<1> QED
  BY <1>1, <1>2
     DEF vars, EvidenceInv, PurgedIsGone, Answerable, Governed, Owners, InUpload

LEMMA EvidenceStep == EvidenceInv /\ [Next]_vars => EvidenceInv'
<1> SUFFICES ASSUME EvidenceInv, [Next]_vars
             PROVE  EvidenceInv'
  OBVIOUS
<1>1. ASSUME NEW s \in Workers,
             \/ \E u \in Uploads : BeginUpload(s, u) \/ BeginDiscard(s, u)
             \/ \E list \in Claims, r \in Reports : BeginClaim(s, list, r)
             \/ Handle(s)
      PROVE  EvidenceInv'
  <2>1. s \in Sessions
    BY DEF Sessions
  <2>2. CASE \E u \in Uploads : BeginUpload(s, u) \/ BeginDiscard(s, u)
    BY <2>1, <2>2, BeginUploadKeeps, BeginDiscardKeeps
  <2>3. CASE \E list \in Claims, r \in Reports : BeginClaim(s, list, r)
    BY <2>1, <2>3, BeginClaimKeeps
  <2>4. CASE Handle(s)
    BY <2>1, <2>4, RefuseImageKeeps, StoreObjectKeeps, StoreFailsKeeps, RecordUploadKeeps,
       RowFailsKeeps, EraseObjectKeeps, DropRowKeeps, ReadTokenKeeps, RefuseClaimKeeps,
       TakeTokenKeeps, CommitClaimKeeps DEF Handle
  <2> QED
    BY <1>1, <2>2, <2>3, <2>4
<1>2. ASSUME NEW s \in Cleaners, Clean(s)
      PROVE  EvidenceInv'
  <2>1. s \in Sessions
    BY DEF Sessions
  <2> QED
    BY <1>2, <2>1, BeginCleanupKeeps, ReapObjectKeeps, ReapRowKeeps, BeginPurgeKeeps,
       PurgeObjectKeeps, CommitCleanupKeeps DEF Clean
<1>3. ASSUME NEW s \in Sessions, DeadlockVictim(s) \/ Crash(s)
      PROVE  EvidenceInv'
  BY <1>3, DeadlockVictimKeeps, CrashKeeps
<1>4. ASSUME NEW u \in Uploads, Expire(u)
      PROVE  EvidenceInv'
  BY <1>4, ExpireKeeps
<1>5. ASSUME NEW i \in DOMAIN evidence, RetentionLapses(i)
      PROVE  EvidenceInv'
  BY <1>5, RetentionLapsesKeeps
<1>6. CASE UNCHANGED vars
  BY <1>6, StutterKeeps
<1> QED
  BY <1>1, <1>2, <1>3, <1>4, <1>5, <1>6 DEF Next

\* The invariant holds of every reachable state.
THEOREM EvidenceInvariant == Spec => []EvidenceInv
BY EvidenceInit, EvidenceStep, PTL DEF Spec

\* Every variable keeps its type (the tables of EvidenceRepository, the bucket and
\* the sessions in flight).
THEOREM EvidenceTyping == Spec => []TypeOK
<1>1. EvidenceInv => TypeOK
  <2> SUFFICES ASSUME EvidenceInv
               PROVE  TypeOK
    OBVIOUS
  <2>1. ASSUME NEW s \in Sessions, job[s] # idle
        PROVE  /\ job[s].pc \in Stages
               /\ job[s].todo \in Seq(begun) /\ job[s].held \in Seq(begun)
               /\ job[s].due \cup job[s].marked \subseteq DOMAIN evidence
               /\ job[s].pc \in {"put", "staged", "erase", "drop", "take", "reaped"}
                    => job[s].todo # <<>>
    <3>1. /\ job[s].todo \in Seq(Uploads) /\ job[s].held \in Seq(Uploads)
          /\ Hand(job[s]) \subseteq begun /\ job[s].pc \in Stages
      BY <2>1, Busy
    <3>2. /\ \A i \in DOMAIN job[s].todo : job[s].todo[i] \in begun
          /\ \A i \in DOMAIN job[s].held : job[s].held[i] \in begun
      BY <3>1 DEF Hand, Elements
    <3>3. job[s].todo \in Seq(begun) /\ job[s].held \in Seq(begun)
      BY <3>1, <3>2
    <3> QED
      BY <2>1, <3>1, <3>3 DEF EvidenceInv, Clear
  <2> QED
    BY <2>1 DEF TypeOK, EvidenceInv, Types
<1> QED
  BY <1>1, EvidenceInvariant, PTL

\* While nothing fails, no photograph stays in the bucket without a row or an
\* upload that answers for it, however uploads, discards, claims and cleanups race.
THEOREM NothingIsUngoverned == Spec => []NothingUngoverned
<1>1. EvidenceInv => NothingUngoverned
  BY DEF EvidenceInv, Types, NothingUngoverned, Answerable
<1> QED
  BY <1>1, EvidenceInvariant, PTL

\* No crash, rejected upload, failing row or failing delete leaves a photograph
\* whose token a client has without a row, unless the store itself kept that
\* photograph when it was asked to delete it (FirebaseStorageProvider.delete).
THEOREM WhatIsToldIsGoverned == Spec => []ToldIsGoverned
<1>1. EvidenceInv => ToldIsGoverned
  BY DEF EvidenceInv, ToldIsGoverned, Answerable
<1> QED
  BY <1>1, EvidenceInvariant, PTL

\* The bytes of evidence that is marked purged are gone for good, unless the store
\* kept them when it was asked to delete them: no upload, claim or cleanup in
\* flight puts them back (EvidenceService.purge_expired).
THEOREM PurgedStaysGone == Spec => []PurgedIsGone
<1>1. EvidenceInv => PurgedIsGone
  BY DEF EvidenceInv
<1> QED
  BY <1>1, EvidenceInvariant, PTL
=============================================================================
