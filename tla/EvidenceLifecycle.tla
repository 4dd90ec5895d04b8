------------------------- MODULE EvidenceLifecycle -------------------------
(***************************************************************************)
(* Photographs, from upload to purge.  An upload's bytes live in a storage *)
(* bucket and its rows in PostgreSQL, and nothing spans the two: `bucket'  *)
(* changes the moment a handler touches it, the rows when it commits.      *)
(*                                                                         *)
(* Sessions are the database sessions: Workers serve POST /evidence,       *)
(* DELETE /evidence/<token> and the two endpoints that claim staged        *)
(* uploads onto a report; Cleaners are runs of reap_and_purge_evidence.py. *)
(* A session holds the locks of the rows it has deleted until its          *)
(* transaction ends; everything it reads is the last committed version.    *)
(***************************************************************************)
EXTENDS Naturals, Sequences, FiniteSets

CONSTANTS
  Workers,       \* concurrent request handlers
  Cleaners,      \* concurrent runs of the cleanup script
  Uploads,       \* uploads: one token and one storage path each
  Reports,       \* reports evidence may be claimed onto
  Claims,        \* the token lists clients may send, sequences of Uploads
  MaxPerReport,  \* MAX_EVIDENCE_PER_REPORT
  BatchLimit,    \* rows one cleanup query returns
  Faults,        \* which of the faults below may happen
  MaxFaults      \* bound: how many of them

FaultKinds == {"crash",    \* a session dies before its commit
               "put",      \* the store rejects an upload, stored or not
               "row",      \* the pending row cannot be written
               "delete"}   \* the store cannot delete an object

ASSUME EvidenceAssumption ==
  /\ Workers \cap Cleaners = {}
  /\ Claims \subseteq Seq(Uploads)
  /\ MaxPerReport \in Nat /\ BatchLimit \in Nat \ {0}
  /\ Faults \subseteq FaultKinds /\ MaxFaults \in Nat

VARIABLES
  bucket,     \* stored objects, named by the upload
  kept,       \* history: objects a delete was asked for and swallowed by the store
  pending,    \* evidence.pending_upload rows
  stale,      \* uploads whose expires_at has passed
  evidence,   \* evidence.evidence_object rows, in insertion order
  begun,      \* uploads taken up
  told,       \* uploads whose token reached the client
  job,        \* [Sessions -> what the session is in the middle of]
  faults      \* faults so far

vars == <<bucket, kept, pending, stale, evidence, begun, told, job, faults>>

Sessions == Workers \cup Cleaners

idle == [pc |-> "idle"]
Stages == {"put", "staged", "erase", "drop", "claim", "take",
           "reap", "reaped", "purge", "purged"}

\* todo, due: the uploads to claim, discard or reap, the evidence rows to purge;
\* held, marked: those of them deleted, or marked purged, in the open transaction.
Job(stage, todo, report) ==
  [pc |-> stage, todo |-> todo, held |-> <<>>, due |-> {}, marked |-> {}, report |-> report]

EvidenceRow == [of: Uploads, on: Reports, purged: BOOLEAN, lapsed: BOOLEAN]

Init ==
  /\ bucket = {} /\ kept = {} /\ pending = {} /\ stale = {} /\ evidence = <<>>
  /\ begun = {} /\ told = {}
  /\ job = [s \in Sessions |-> idle]
  /\ faults = 0

At(s, stage) == job[s].pc = stage
MoveOn(s, stage) == job' = [job EXCEPT ![s].pc = stage]
Finish(s) == job' = [job EXCEPT ![s] = idle]

Strikes(fault) == fault \in Faults /\ faults < MaxFaults /\ faults' = faults + 1

\* FirebaseStorageProvider.delete: a failure is swallowed and reported as False,
\* which no caller reads.
Erases(u) == bucket' = bucket \ {u} /\ UNCHANGED kept
Keeps(u) == u \in bucket /\ kept' = kept \cup {u} /\ UNCHANGED bucket

DeleteObject(u) ==
  \/ Erases(u) /\ UNCHANGED faults
  \/ Keeps(u) /\ Strikes("delete")

-----------------------------------------------------------------------------
(* EvidenceService.upload                                                  *)

BeginUpload(s, u) ==
  /\ job[s] = idle /\ u \notin begun
  /\ begun' = begun \cup {u}
  /\ job' = [job EXCEPT ![s] = Job("put", <<u>>, u)]
  /\ UNCHANGED <<bucket, kept, pending, stale, evidence, told, faults>>

\* 400: no image, too large, or one that Pillow cannot decode or encode again.
RefuseImage(s) ==
  /\ At(s, "put")
  /\ Finish(s)
  /\ UNCHANGED <<bucket, kept, pending, stale, evidence, begun, told, faults>>

StoreObject(s) ==
  /\ At(s, "put")
  /\ bucket' = bucket \cup {Head(job[s].todo)}
  /\ MoveOn(s, "staged")
  /\ UNCHANGED <<kept, pending, stale, evidence, begun, told, faults>>

\* 503.  An upload reported as failed may have been stored all the same.
StoreFails(s) ==
  /\ At(s, "put")
  /\ Strikes("put")
  /\ bucket' \in {bucket, bucket \cup {Head(job[s].todo)}}
  /\ Finish(s)
  /\ UNCHANGED <<kept, pending, stale, evidence, begun, told>>

\* The row, the audit row, the commit; the answer may or may not arrive.
RecordUpload(s) ==
  /\ At(s, "staged")
  /\ pending' = pending \cup {Head(job[s].todo)}
  /\ told' \in {told, told \cup {Head(job[s].todo)}}
  /\ Finish(s)
  /\ UNCHANGED <<bucket, kept, stale, evidence, begun, faults>>

\* add_pending raises: the bytes are removed again, if the store deletes them.
RowFails(s) ==
  /\ At(s, "staged")
  /\ Strikes("row")
  /\ \/ Erases(Head(job[s].todo))
     \/ "delete" \in Faults /\ Keeps(Head(job[s].todo))
  /\ Finish(s)
  /\ UNCHANGED <<pending, stale, evidence, begun, told>>

-----------------------------------------------------------------------------
(* Locks, and the end of a transaction that does not commit                *)

\* The row the session is about to delete.
Wants(s) == IF job[s].pc \in {"drop", "take", "reaped"} THEN {Head(job[s].todo)} ELSE {}

Locked(s) == {job[s].held[i] : i \in DOMAIN job[s].held}

Holders(s) == {v \in Sessions \ {s} : job[v] # idle /\ Wants(s) \cap Locked(v) # {}}

Deadlocked(s) ==
  \E group \in SUBSET Sessions :
    s \in group /\ \A v \in group : Holders(v) \cap group # {}

Abort(s) == Finish(s) /\ UNCHANGED <<bucket, kept, pending, stale, evidence, begun, told>>

\* PostgreSQL picks a victim: a 500, or a cleanup script that dies.
DeadlockVictim(s) ==
  /\ Deadlocked(s)
  /\ Abort(s) /\ UNCHANGED faults

Crash(s) ==
  /\ job[s] # idle
  /\ Strikes("crash")
  /\ Abort(s)

-----------------------------------------------------------------------------
(* EvidenceService.discard                                                 *)

\* get_pending: a token works while its row is there and has not expired.
Live(u) == u \in pending \ stale

BeginDiscard(s, u) ==
  /\ job[s] = idle /\ s \in Workers
  /\ u \in told /\ Live(u)
  /\ job' = [job EXCEPT ![s] = Job("erase", <<u>>, u)]
  /\ UNCHANGED <<bucket, kept, pending, stale, evidence, begun, told, faults>>

\* Mutant: the row is committed away first, the object second.
DropRowFirst(s) ==
  /\ At(s, "erase")
  /\ pending' = pending \ {Head(job[s].todo)}
  /\ MoveOn(s, "drop")
  /\ UNCHANGED <<bucket, kept, stale, evidence, begun, told, faults>>

EraseObject(s) ==
  /\ At(s, "erase")
  /\ DeleteObject(Head(job[s].todo))
  /\ MoveOn(s, "drop")
  /\ UNCHANGED <<pending, stale, evidence, begun, told>>

\* Deleting a row that is gone by now deletes nothing and raises nothing.
DropRow(s) ==
  /\ At(s, "drop") /\ Holders(s) = {}
  /\ pending' = pending \ {Head(job[s].todo)}
  /\ Finish(s)
  /\ UNCHANGED <<bucket, kept, stale, evidence, begun, told, faults>>

-----------------------------------------------------------------------------
(* attach_all and ReportService._attach_evidence: every token or none      *)

\* A list that is too long or names a token twice is refused before any query.
Acceptable(list) ==
  /\ Len(list) <= MaxPerReport
  /\ \A i, j \in DOMAIN list : list[i] = list[j] => i = j

BeginClaim(s, list, r) ==
  /\ job[s] = idle /\ s \in Workers
  /\ \A i \in DOMAIN list : list[i] \in told
  /\ list # <<>> /\ Acceptable(list)
  /\ job' = [job EXCEPT ![s] = Job("claim", list, r)]
  /\ UNCHANGED <<bucket, kept, pending, stale, evidence, begun, told, faults>>

ReadToken(s) ==
  /\ At(s, "claim") /\ job[s].todo # <<>>
  /\ Live(Head(job[s].todo))
  /\ MoveOn(s, "take")
  /\ UNCHANGED <<bucket, kept, pending, stale, evidence, begun, told, faults>>

RefuseClaim(s) ==
  /\ At(s, "claim") /\ job[s].todo # <<>>
  /\ ~Live(Head(job[s].todo))
  /\ Abort(s) /\ UNCHANGED faults

\* The evidence row is inserted and the pending row deleted, both uncommitted.
TakeToken(s) ==
  /\ At(s, "take") /\ Holders(s) = {}
  /\ job' = [job EXCEPT ![s].pc = "claim", ![s].todo = Tail(@),
                        ![s].held = Append(@, Head(job[s].todo))]
  /\ UNCHANGED <<bucket, kept, pending, stale, evidence, begun, told, faults>>

NewRows(s) ==
  [i \in DOMAIN job[s].held |->
     [of |-> job[s].held[i], on |-> job[s].report, purged |-> FALSE, lapsed |-> FALSE]]

CommitClaim(s) ==
  /\ At(s, "claim") /\ job[s].todo = <<>>
  /\ pending' = pending \ Locked(s)
  /\ evidence' = evidence \o NewRows(s)
  /\ Finish(s)
  /\ UNCHANGED <<bucket, kept, stale, begun, told, faults>>

-----------------------------------------------------------------------------
(* reap_and_purge_evidence.py: both tasks, one commit at the very end      *)

\* What a query with LIMIT and no ORDER BY may return of the rows that qualify.
Batches(rows) ==
  {batch \in SUBSET rows :
     IF Cardinality(rows) <= BatchLimit THEN batch = rows
     ELSE Cardinality(batch) = BatchLimit}

Orders(batch) ==
  {order \in [1 .. Cardinality(batch) -> batch] :
     \A i, j \in DOMAIN order : order[i] = order[j] => i = j}

BeginCleanup(s) ==
  /\ job[s] = idle /\ s \in Cleaners
  /\ \E batch \in Batches(pending \cap stale) : \E order \in Orders(batch) :
       job' = [job EXCEPT ![s] = Job("reap", order, "none")]
  /\ UNCHANGED <<bucket, kept, pending, stale, evidence, begun, told, faults>>

ReapObject(s) ==
  /\ At(s, "reap") /\ job[s].todo # <<>>
  /\ DeleteObject(Head(job[s].todo))
  /\ MoveOn(s, "reaped")
  /\ UNCHANGED <<pending, stale, evidence, begun, told>>

ReapRow(s) ==
  /\ At(s, "reaped") /\ Holders(s) = {}
  /\ job' = [job EXCEPT ![s].pc = "reap", ![s].todo = Tail(@),
                        ![s].held = Append(@, Head(job[s].todo))]
  /\ UNCHANGED <<bucket, kept, pending, stale, evidence, begun, told, faults>>

BeginPurge(s) ==
  /\ At(s, "reap") /\ job[s].todo = <<>>
  /\ \E batch \in Batches({i \in DOMAIN evidence : evidence[i].lapsed /\ ~evidence[i].purged}) :
       job' = [job EXCEPT ![s].pc = "purge", ![s].due = batch]
  /\ UNCHANGED <<bucket, kept, pending, stale, evidence, begun, told, faults>>

\* Mutant: the row is marked, the bytes are not deleted.
MarkOnly(s) ==
  /\ At(s, "purge")
  /\ \E i \in job[s].due :
       job' = [job EXCEPT ![s].due = @ \ {i}, ![s].marked = @ \cup {i}]
  /\ UNCHANGED <<bucket, kept, pending, stale, evidence, begun, told, faults>>

\* Mutant: the bytes are deleted, the row is not marked.
EraseUnmarked(s) ==
  /\ At(s, "purge")
  /\ \E i \in job[s].due :
       /\ DeleteObject(evidence[i].of)
       /\ job' = [job EXCEPT ![s].due = @ \ {i}]
  /\ UNCHANGED <<pending, stale, evidence, begun, told>>

PurgeObject(s) ==
  /\ At(s, "purge")
  /\ \E i \in job[s].due :
       /\ DeleteObject(evidence[i].of)
       /\ job' = [job EXCEPT ![s].due = @ \ {i}, ![s].marked = @ \cup {i}]
  /\ UNCHANGED <<pending, stale, evidence, begun, told>>

Marked(rows) ==
  [i \in DOMAIN evidence |->
     IF i \in rows THEN [evidence[i] EXCEPT !.purged = TRUE] ELSE evidence[i]]

\* Mutant: every row past its retention is marked, whether this run saw it or not.
MarkAllLapsed(s) ==
  /\ At(s, "purge") /\ job[s].due = {}
  /\ pending' = pending \ Locked(s)
  /\ evidence' = Marked({i \in DOMAIN evidence : evidence[i].lapsed})
  /\ Finish(s)
  /\ UNCHANGED <<bucket, kept, stale, begun, told, faults>>

\* Mutant: the reaped rows are not part of what is committed.
CommitPurgeOnly(s) ==
  /\ At(s, "purge") /\ job[s].due = {}
  /\ evidence' = Marked(job[s].marked)
  /\ Finish(s)
  /\ UNCHANGED <<bucket, kept, pending, stale, begun, told, faults>>

CommitCleanup(s) ==
  /\ At(s, "purge") /\ job[s].due = {}
  /\ pending' = pending \ Locked(s)
  /\ evidence' = Marked(job[s].marked)
  /\ Finish(s)
  /\ UNCHANGED <<bucket, kept, stale, begun, told, faults>>

-----------------------------------------------------------------------------
(* Time                                                                    *)

Expire(u) ==
  /\ u \in pending \ stale
  /\ stale' = stale \cup {u}
  /\ UNCHANGED <<bucket, kept, pending, evidence, begun, told, job, faults>>

\* Retention is counted in days: no request is still running from before.
RetentionLapses(i) ==
  /\ \A s \in Workers : job[s] = idle
  /\ ~evidence[i].lapsed
  /\ evidence' = [evidence EXCEPT ![i].lapsed = TRUE]
  /\ UNCHANGED <<bucket, kept, pending, stale, begun, told, job, faults>>

Handle(s) ==
  \/ RefuseImage(s) \/ StoreObject(s) \/ StoreFails(s) \/ RecordUpload(s) \/ RowFails(s)
  \/ EraseObject(s) \/ DropRow(s)
  \/ ReadToken(s) \/ RefuseClaim(s) \/ TakeToken(s) \/ CommitClaim(s)

Clean(s) ==
  \/ BeginCleanup(s) \/ ReapObject(s) \/ ReapRow(s)
  \/ BeginPurge(s) \/ PurgeObject(s) \/ CommitCleanup(s)

Next ==
  \/ \E s \in Workers :
       \/ \E u \in Uploads : BeginUpload(s, u) \/ BeginDiscard(s, u)
       \/ \E list \in Claims, r \in Reports : BeginClaim(s, list, r)
       \/ Handle(s)
  \/ \E s \in Cleaners : Clean(s)
  \/ \E s \in Sessions : DeadlockVictim(s) \/ Crash(s)
  \/ \E u \in Uploads : Expire(u)
  \/ \E i \in DOMAIN evidence : RetentionLapses(i)

Spec == Init /\ [][Next]_vars

\* A request that was taken up runs on, and the cleanup script is scheduled
\* again and again (its own docstring asks the deployment for that).
FairSpec ==
  /\ Spec
  /\ \A s \in Workers : WF_vars(Handle(s) \/ DeadlockVictim(s))
  /\ \A s \in Cleaners : WF_vars(Clean(s) \/ DeadlockVictim(s))
-----------------------------------------------------------------------------
(* What holds however requests and cleanups interleave                     *)

\* Types of the objects, the rows and the sessions in flight.
TypeOK ==
  /\ stale \subseteq begun /\ told \subseteq begun /\ begun \subseteq Uploads
  /\ pending \subseteq begun /\ bucket \subseteq begun /\ kept \subseteq begun
  /\ evidence \in Seq(EvidenceRow)
  /\ faults \in 0 .. MaxFaults
  /\ \A s \in Sessions : job[s] # idle =>
       /\ job[s].pc \in Stages
       /\ job[s].todo \in Seq(begun) /\ job[s].held \in Seq(begun)
       /\ job[s].due \cup job[s].marked \subseteq DOMAIN evidence
       /\ job[s].pc \in {"put", "staged", "erase", "drop", "take", "reaped"}
            => job[s].todo # <<>>

\* The rows that give the upload a place on a report, bytes included.
Owners(u) == {i \in DOMAIN evidence : evidence[i].of = u /\ ~evidence[i].purged}

InUpload(u) == \E s \in Workers : job[s].pc \in {"put", "staged"} /\ job[s].todo = <<u>>

Governed(u) == u \in pending \/ Owners(u) # {} \/ InUpload(u)

\* While nothing fails, no photograph stays in the bucket without a row some
\* policy governs: discards, claims and cleanups may race as they like.
NothingUngoverned == faults = 0 => \A u \in bucket : Governed(u)

\* Even across crashes, rejected uploads, failing rows and failing deletes, a
\* photograph whose token was ever handed out is not left in the bucket without a
\* row, unless it is itself one the store kept when it was asked to delete it.
ToldIsGoverned == \A u \in (bucket \cap told) \ kept : Governed(u)

\* A photograph a report shows as purged is not retrievable, even where two rows
\* came to share it, unless it is one the store kept when asked to delete it.
PurgedIsGone ==
  \A i \in DOMAIN evidence : evidence[i].purged => evidence[i].of \notin bucket \ kept

\* Evidence is never taken off a report, and a purge is never undone.
EvidenceOnlyGrows ==
  [][/\ Len(evidence') >= Len(evidence)
     /\ \A i \in DOMAIN evidence :
          /\ evidence'[i].of = evidence[i].of /\ evidence'[i].on = evidence[i].on
          /\ evidence[i].purged => evidence'[i].purged]_vars

\* An abandoned upload goes, however often a cleanup dies halfway.
AbandonedIsReaped == \A u \in Uploads : (u \in stale) ~> (u \notin pending \cup bucket \/ Owners(u) # {})

Lapsed(i) == i \in DOMAIN evidence /\ evidence[i].lapsed
Purged(i) == i \in DOMAIN evidence /\ evidence[i].purged /\ evidence[i].of \notin bucket

\* Evidence past its retention loses its bytes and is marked, however often a
\* cleanup dies halfway.
LapsedIsPurged == \A i \in 1 .. Cardinality(Uploads) : Lapsed(i) ~> Purged(i)

-----------------------------------------------------------------------------
(* What the code's own comments promise                                    *)

\* EvidenceService.discard: if the object delete fails the row survives and the
\* reaper will retry.
FailedDeleteIsRetried == \A u \in bucket \cap told : Governed(u)

\* ReportService._attach_evidence: no image silently goes missing from a report.
NoneMissing ==
  \A i \in DOMAIN evidence :
    evidence[i].of \notin bucket => evidence[i].purged \/ evidence[i].lapsed
=============================================================================
