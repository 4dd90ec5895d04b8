# CampusShield, verified

TLA+ models of CampusShield, a campus incident reporting service: a Flask API
over PostgreSQL and a Firebase storage bucket, a React client for reporters and
responders, and a trained text classifier that assists triage. The modules
model the code under `src/`; TLC checks them on small instances and TLAPS proves
the main theorems for every instance. `PROJECT.json` maps each definition to the
lines it stands for, and lists runs, mutants, hazards and theorems.

## 1. The system and what makes it hard

Every handler of the API has the same shape: resolve the caller's account, load
rows, decide, write, append to the access log, commit once. PostgreSQL runs at
READ COMMITTED, the application never locks a row it reads, and gunicorn serves
requests with several workers (`PRODUCTION_READINESS.md:209`). So everything a
handler decided may be stale when its writes commit; what still holds then is
what triggers, CHECKs, unique indexes and row locks enforce. The storage bucket,
a model's file and a browser's memory take part in no transaction at all. That
is where the hard behaviours are.

| Component | State it keeps | Operations | What makes it correct | Where |
|---|---|---|---|---|
| Case lifecycle | `report.current_status`, `closed_at`, `case_status_history`, `case_assignment` | change status, assign, unassign | legal moves, an owner where one is required, nothing after the end, one owner, the report row equal to its trail, every write audited | **modelled, proved** |
| Evidence | bucket objects, `pending_upload`, `evidence_object` | upload, discard, claim, reap, purge | no bytes without a row that governs them, purged means gone, abandoned uploads go | **modelled, proved** |
| Emergency dispatch | `emergency_dispatch` | raise, acknowledge, set off, arrive, close, stand down | one dispatch, its steps in order, state and stamps agreeing, the answerer on record | **modelled, proved** |
| Report submission | `report`, attribution, access token, quota, alerts | wizard, SOS | all or nothing, anonymity, exact counting, one SOS per window | **modelled, proved** |
| Accounts | `identity.app_user`, `g` of a request, token counters, read marks | register, resolve the principal, rename, open a report or its evidence, mark read; edits by hand | one account per Firebase uid and per address, every request acts as its own credential, every use counted | **modelled, proved** |
| Notifications | `notify.notification` | create, mark read | told of what is visible; own inbox only | **modelled** in CaseLifecycle, ReportSubmission and Accounts |
| Access policy | none | `can_view_report`, `can_view_narrative`, `can_manage_case`, the queue's query, ... | a link never lets anybody read what the policy hides; query and predicate agree | **modelled** as operators |
| Triage | `report_classification`, `risk_assessment`, `report_link`, `embedding` | run, detail view, override category, review a link | similar reports are proposed, a link widens nobody's access, a human's last word stands | **modelled, proved** |
| Location resolution | `report_location` | resolve a signal against the campus, send a responder | a responder goes where help was asked for | **modelled, proved** in CampusMap |
| Campus location import | `campus_zone`, `campus_location` | validate, upsert a CSV, demo seed | whole files or nothing, in every interleaving of two | **modelled, proved** in CampusMap |
| Database schema | every table, migrations 0001 to 0008 | upgrade, downgrade, insert, update, delete with its cascades | no dangling key, append-only records keep their authors, migrated rows are valid | **modelled, proved** |
| Web client: responder queue | list, baseline, alarm, audio context | poll, filter, mute, unlock, tones | each emergency rings once, is heard in the end, no tone starts beside another | queue and sound **modelled, proved**; the open incident is not |
| Offline evaluation | corpus, groups, splits, results | load, merge duplicates, split, check, train, score | nothing scored was trained on | **modelled, proved** |
| Model export and serving | model file, `ml.model_version`, a process's bundle | export, register, load at start, classify | one active model, a suggestion names a registered model | **modelled, proved** |
| Audit log, error handling | `audit.access_log` | success, denied, 409, 503 | see each handler | where a handler meets it |

How they meet: submission claims staged evidence in its own transaction, opens
the trail the case lifecycle continues, runs triage on the narrative, stores a
location verdict, and alerts responders through notifications; an emergency
report may be dispatched while its case is worked on, two state machines that
share nothing but the report; the access policy reads the case's active
assignment; the cleanup script works on the rows that submission and upload
leave; the responder's page polls the queue those rows fill; triage asks the
bundle a process loaded at its start, which the export wrote.

## 2. How handlers are modelled

* A **worker** serves one request at a time: `job[w]` holds what its handler has
  read so far, `pc` how far it has come. Each query of the handler is one step.
* **Writes and commit** are one step: until the commit nobody sees them, and the
  row locks they take only delay others. Where a lock taken before the commit
  can be felt (pending rows in EvidenceLifecycle, the quota row in
  ReportSubmission, codes under a unique index in CampusMap) it is modelled.
* An UPDATE changes the columns the handler assigned of the row **as it is by
  then**; constraints judge the result.
* The handler's `now` is drawn from a counter where the code reads its clock,
  so that requests may commit in another order than they were stamped in.
* **Failures**: a crash of the worker before its commit may happen at any step
  and leaves nothing; a service refusal is rolled back and audited as DENIED
  where `_audited` wraps the call; a constraint violation is rolled back and
  audited nowhere.
* A **migration** is its up and its down step on a private copy of the database;
  an alembic command runs several of them in one transaction.
* A **promise** of the browser (a fetch, `resume()`, a tone's end) is a step
  that may come at any time, or, where nothing forces it, never.

## 3. The modules

**CaseVocabulary** — roles, statuses, the legal graph `CASE_TRANSITIONS`, what
each target status demands. **CaseContract** — the abstract promise: a `status`,
an `owner` and the clients at work on them, with three moves. To a client nobody
overtook it promises a legal successor of the status as it is, an owner where one
is required, and no new owner after the end. A client that another one's write
overtook acts on what was so before: it still moves to a successor of a status the
case has had (`had`), and not unless the case was owned once (`owned`).
**CaseLifecycle** — the three
endpoints in full, with `fn_sync_report_status`, the partial unique index on
active assignments, the release-order CHECK, notifications, access log, crashes
and accounts deactivated by an operator. It implements the contract under
`Contract == INSTANCE CaseContract`, with any number of workers for clients:
`owner` is the assignee of the active assignment row, `NoUser` where there is none,
`had` and `owned` are read off the trail and the assignment rows. `overtaken` (the
workers past whose reads somebody has committed) and `belated` (the times of the
rows such workers wrote) are history variables.

**EvidenceLifecycle** — one token and one storage path per upload. `bucket`
changes the moment a handler touches it, rows at commit. A claim reads and takes
its tokens one at a time holding the locks of rows it has deleted; the cleanup
script fetches one batch of expired uploads and one of lapsed evidence, in any
order the query may return, and commits once at its very end. Deadlocks between
lock holders are detected and a victim dies. Faults are named (`crash`, `put`,
`row`, `delete`) and each run says which may happen and how often; `kept` is the
history of what the store did not delete when it was told to.

**EmergencyDispatch** — the dispatch row with its five timestamp columns, the
four CHECKs that compare them, the unique index, both handlers. Who is entitled
is a constant here (the access policy decides it).

**ReportSubmission** — both ways to file, the quota's check, second read, flush
and lock, the SOS window over the reporter's own latest report, triage as the
three outcomes a caller can tell apart, alerts. `filed` and `overlapped` are
history variables: who really filed a report (the database does not know for
an anonymous one), and whose requests ever ran at the same time. Validation of
the body and the claim of evidence can refuse a submission (`Reject`); the claim
itself is EvidenceLifecycle's.

**AccessPolicy** — the predicates of `authorization.py` over a caller and the
facts of a report, and the queue's WHERE clause, which states one of them again.
**RiskScorer** — factors, points and bands, as functions. **Triage** — both, with
the rows they are about: a run beside each submission, the suggestion and the
links it flushes row by row, the detail view, override and review, which write
only the columns whose value differs from the one they read. Models are registered
one after another, may be missing, and compare a narrative with those they have
embedded themselves, with a limit on how many.

**Accounts** — registration against two unique indexes (one on the lowered
address) and the ILIKE look-up before them, the principal `g` keeps for a
request, the caller's name, look-ups by token with their counter, inbox marks,
and what an operator may do to an account by hand.

**CampusMap** — places and signals are points on a line. Commands of the import and
of the seed interleave row by row in open transactions; reports and SOS are anchored
meanwhile, and an SOS pressed again is answered with the report there is (`Repeat`);
a surveyor corrects a point; a responder asks where to go. `RowsOf` is what a
command brings, in its order; `job[c].have` the codes it need not insert, because it
read them, skipped them or wrote them; `wrote` its open transaction. The import does
not refuse a code that begins with `DEMO-`: that such codes are the seed's alone is
an assumption (`CampusAssumptions`).

**SchemaCatalog** — the tables in creation order, each foreign key with its ON
DELETE rule, and what each migration adds and removes. Two ASSUMEs check that every
key points to a table that exists by then and that no cascade starts another.
**SchemaDatabase** — rows under that catalogue: statements with their cascades and
triggers, and commands that migrate up and down under them. A DELETE is refused by a
key that restricts, by the triggers of the access and disclosure logs
(`fn_append_only`), and for a line of the history unless its report goes too
(`Tampers`). What stays of a row that referred to what went is `Survivor`; a row
that may not lose the reference refuses the whole statement (`RefusesNull`). 0007's
downgrade deletes its two rows by the same rules. `RowsAssumption` says that nobody
deletes the two rows 0007 inserts: locations and categories are retired by
`is_active`.

**EmergencyAudio** and **ResponderQueue** — the page that extends the sound it
drives: polls whose answers come late, out of order or not at all, the filter
that restarts them, the baseline that tells an arrival from what was there, and
the single follow-up tone. The sound has two clocks. Oscillators run on the audio
context's, which stands still while the browser suspends it: `tones` counts those
not yet ended, `frozen` how many of them a suspension interrupted. The promise of a
tone, `isPlaying`, also ends by a timer of the page, which goes on. Chirps look at
neither and are steps of their own (`TestButton`, the end of `enable`).

**TrainingSplit** — the evaluation pipeline over texts and a relation of
likeness: union-find over pairs in any order, every shuffle, the leakage checks,
what is fitted and what is scored. The threshold of likeness is the caller's; from
1.0 on the splitter compares nothing (`Compares`), while the check still does. An
export takes the default and makes no check. **ModelRelease** — extends it with the export
(file first, row second, killed anywhere) and with processes that serve.

Each `MC…` module holds the casts, datasets and request sets of its runs; the
`…Proofs` modules hold the theorems. The submission, dispatch and case modules
are not composed over one report: they write disjoint tables and read nothing of
each other's but the report's immutable columns, so every interleaving of them is
already an interleaving of the parts.

## 4. The runs

| Run | Bounds | Shows |
|---|---|---|
| `case_serial` | 1 worker, 6 requests of 20 kinds | the case keeps CaseContract all the way to its end, where nobody is ever overtaken |
| `case_racing` | 2 workers, 3 requests of 9 kinds, an emergency case, one officer may be deactivated | the case keeps CaseContract under races; one owner, the report equal to its trail, its timeline ending in its status unless the last write was belated, writes audited, the reporter told what is visible |
| `evidence_race` | 2 handlers, 1 cleanup, 2 uploads, lists of up to 2 tokens, 1 fault of any kind, a failing delete included | nothing ungoverned while nothing fails; nothing told and lost, purged is gone, but for what the store kept |
| `evidence_cleanup` | 1 handler, 1 cleanup that may crash once, batches of 1 | abandoned uploads are reaped and lapsed evidence purged, eventually |
| `dispatch_racing` | 2 workers, 5 requests | one dispatch with its steps in order, the answerer on record |
| `submission_racing` | 2 workers, 2 users, 3 requests, 2 ticks across a midnight | complete or absent, never overcharged, exact counting, one SOS per window |
| `accounts_racing` | 2 workers, 3 requests, 1 edit by hand, 2 clashing addresses | one account per identity, requests act as themselves, uses counted, no student ever named |
| `triage_racing` | 2 workers, 3 requests, 3 alike reports, 2 models that judge them differently, at most 2 embeddings compared, 3 officers, one case may close | a link widens nobody's access, similar is proposed, the last word stands |
| `campus_racing` | 6 commands, 2 at a time, 1 report, a repeated press, 1 correction | imports are whole; a responder is sent where help was asked for |
| `schema_cascades` | 10 rows, one for each table the rules tell apart and the two of 0007, 5 tables rows are deleted from; base, 3, 6 and head | whole schema, no dangling key, contactable means attributed, migrated data valid, records keep their authors |
| `queue_alarm` | 2 emergencies, 2 statuses, 1 restart, 2 different answers in flight | no tone starts beside one that sounds, unless that one was suspended; one alarm per arrival, every arrival heard |
| `release_serving` | every dataset of a small corpus, thresholds 0.95 and 1.0, 2 exports, 2 names, 1 process | no leakage however pairs and shuffles fall, refused for size only, one active model, suggestions as registered |

Why the bounds are enough to be interesting. Every race of these handlers is between
a read and another handler's commit, so two workers exhibit it; a third request lets
a third commit fall between. The case needs five requests to reach an end through
the working statuses, which `case_serial` allows with one to spare. The dispatch
needs five to reach `closed`. Two uploads give two orders of locking and lists that
repeat a token. A limit of one report a day and two users make the quota bind and
the isolation between users visible; three requests are enough for SOS, another
report, SOS. Three alike reports make one of them the second-best match of another
under `TopK = 1`. Two files that share zones in opposite orders deadlock. A chain of
three near duplicates whose ends are not alike is what transitive grouping is for.
Two answers in flight arrive out of order; a third only repeats it.
`schema_cascades` has no anonymous report beside the identified one, with which it
would run too long to be repeated at every change: that an anonymous report is never
contactable is left to the theorem. Server processes do not interact, so one stands
for all.

Deadlock checking is on in `campus_racing`, where transactions wait for each
other; its step `Rest` is the end of all commands. It is off elsewhere: a bounded number
of requests, exports or faults is served and then there is nothing to do.

**Fairness** is assumed in two runs. `evidence_cleanup`: a request that was taken
up runs on, and the script is run again and again, which its docstring requires
of the deployment. `queue_alarm`: the page's timer ticks (weak fairness of
`Poll`), an answer that is asked for again and again gets through in the end
(strong fairness of `Deliver`), a tone ends or its timer fires, and a call whose
context the browser lets run goes on. Nothing is assumed about clients, about the
user touching the page, or about a browser that withholds sound.

Each property of a run has a mutant: a plausible bug in one mapped definition
(kept next to the definition it replaces, marked `Mutant`) that breaks it.

## 5. Where the code and its documents part

None of these is a run: a property of the first table states one sentence of a
document or comment and is kept in its module, the others are named below it. To
see a counterexample, put the property into the named configuration with the changes
given.

| Property | To see it | What is promised, and what the code does |
|---|---|---|
| `TerminalIsFinal` | `case_racing` | Terminal statuses have no successors (`CASE_LIFECYCLE.md:84`, `case_service.py:31-35`); of two requests that close a case at once both succeed (`case_service.py:198` checks the status it read). |
| `AssignmentGate` | `case_racing` | Some targets "require an *active* `core.case_assignment` row at the moment of the transition" (`CASE_LIFECYCLE.md:81`); the row is read before (`case_service.py:236`) and may be released by then. |
| `NoneMissing` | `evidence_cleanup` with `Spec`, `MaxPerReport = BatchLimit = 2`, no faults | A report is filed with its photographs or refused (`report_service.py:520-521`); the reaper erases the bytes before it commits (`evidence_service.py:181`) and the claim does not look. |
| `FailedDeleteIsRetried` | `evidence_race` | "If the object delete fails the row survives and the reaper will retry" (`evidence_service.py:175-176`); `firebase_provider.py:85` answers a failed delete with False, which nobody looks at, so the row goes and the bytes stay. |
| `RaisableAfterEnd` | `dispatch_racing`, 1 worker, 3 requests | A dispatch that ended does not block another (`incident_repository.py:216-217`); the unique index on the report does (`0001_initial_schema.py:1063`). |
| `EndComesLast` | `dispatch_racing` | The working sequence ends with the end (`incident_service.py:50-52`); `now` is taken (line 381) before the row is read (line 383), and the CHECK compares `closed_at` with `raised_at` only, so a dispatch may close earlier than it arrived. |
| `StoodDownNeverArrived` | `dispatch_racing` | "A dispatch that was stood down never reached a scene" (`incident_service.py:56-59`); a stale request stands one down that has arrived since, which is also a way back (line 20). |
| `SosAlertsResponders` | `submission_racing`, 1 worker, 1 user, 2 requests, `MaxTime = 1` | Responders are alerted "when an emergency SOS is submitted" (`notification_service.py:107`); an SOS within the window of an emergency filed through the wizard is answered with that report, of which nobody was alerted (`report_service.py:265`). |
| `UpgradeIsRepeatable` | `schema_cascades` | Down and up again is promised by `test_migration.sh:10` and `PRODUCTION_DEPLOYMENT.md:223`; 0004's backfill (line 66) fails on rows written after it first ran. |
| `VerdictIsSomebodys` | `triage_racing` with `Requests <- TornRequests`, `MaxRequests = 4` | "A half-recorded override cannot exist" (`ml_repository.py:149-155`); two overrides that read the same row leave one's category under the other's name (line 157). |
| `RowAndFileAgree` | `release_serving` | "The row in `ml.model_version` and the file on disk cannot disagree about which model this is" (`artifact.py:18-19`); the file is replaced whether or not a row follows (`export_baseline_model.py:142`), and a second registration always fails on `uq_model_version_name_version`, the version being fixed. |
| `ManifestIsOfUnseen` | `release_serving` | The manifest's numbers "are from data the model never saw" (`export_baseline_model.py:105-106`); with `deduplicate` off the export groups nothing and makes no leakage check. |
| `NeverOverlaps` | `queue_alarm` | The sound "avoids overlapping / audio distortion" (`emergencyAudio.ts:22`); a suspension stops a tone's oscillators but not the timer that clears `isPlaying` (line 320), so the next call resumes (line 244) and starts a tone beside the rest of the first. |

Read in the code while modelling, and not the subject of a property:

* *Evidence.* Two claims of one token leave two owners of one object
  (`evidence_repository.py:99`); the image limit is per call
  (`evidence_service.py:198`); a sanitised upload saves and restores the
  process-wide `Image.MAX_IMAGE_PIXELS`, which is not atomic under threads.
* *Case and dispatch.* An emergency may be managed by a role that may not be
  assigned to it (`case_service.py:278`, `313`); a timeline sorted by `changed_at`
  ends in another status than the report's when the request that wrote last had
  been overtaken.
* *Access log.* A 400 leaves no row although every attempt is said to
  (`CASE_LIFECYCLE.md:158`); the row of an anonymous submission names actor and
  reference (`routes/reports.py:56`), which the comment at line 106 denies; a
  reader's `via_token` is set by a token that is not valid.
* *Accounts.* A second `/auth/register` of the same caller that races the first
  is answered 409 although `account_service.py:50-54` calls it idempotent; the
  ILIKE look-up refuses free addresses that contain `_` or `%`; two `mark_read`
  overwrite the first `read_at`.
* *Triage and policy.* An override never moves a report to another role's queue
  (`0007:40-41`); a category that is confidential and routes elsewhere than to the
  ICC makes the narrative readable by more people than the report; recent repeats
  are counted by `timedelta.days`, which floors (`triage_service.py:258`). Of two
  alike reports filed at the same time neither sees the other, and nothing compares
  them later; nor are reports compared that different models embedded
  (`ml_repository.py:191`), so a new model starts from none; and of more than 5000
  embeddings an arbitrary 5000 are looked at.
* *Schema.* Accounts are to be SET NULL on deletion where append-only tables
  forbid the UPDATE that this is (`DATABASE_SETUP.md:358-366`).
* *Location.* An unsurveyed place "can never be offered", but provisional rows
  with coordinates are; `Destination` is "never the reporter's device position",
  which `destination_for` returns for an SOS that matched no place; names and
  coordinates are unique within an imported file only; the position of a press that
  is taken for a repeat is dropped (`report_service.py:262-287`), so a responder goes
  to where the first press came from.
* *Machine learning.* At a threshold of 1.0 or more the splitter compares no two
  texts (`splitting.py:95`), while the check still refuses what is that alike; the
  export does not pass the threshold on, so it and the evaluation share a corpus out
  alike only while 0.95 is configured; a process keeps its bundle until it restarts
  and ascribes its answers to whichever model is active; near duplicates are sought
  between training and test set only; the two results files are written one after
  the other.
* *Web client.* The detail of an incident may be answered after another was selected
  (`IncidentsPage.tsx`, `openIncident`), and a late error covers it; a status filter
  hides a new emergency of another status, and one that a filter kept out of the
  first answer rings when the filter is lifted, however old it is
  (`IncidentsPage.tsx:122` calls what rings genuinely new); chirps and the test
  sound look at no tone that plays, and no tone at them; the queue asks for 100
  incidents, so with more of them open an emergency may not be among those it sees;
  a mute pressed while a call waits for `resume()` is overruled; an answer of
  `/auth/me` that comes after a sign-out restores the account; the SOS button's
  timer survives a sign-out; a photograph removed while it uploads leaves its token
  to the reaper.

## 6. The proofs

They hold for all values of the constants under the named assumption of the
module they are about, and every strengthening was checked with TLC on the
instances of the runs before it was proved. What is assumed beyond that is said.

* **CaseLifecycleProofs.** `TypeCorrect`: `TypeOK` is inductive; besides the types
  it says that the assignment row a worker remembers exists, which holds since
  rows are never removed. `AtMostOneOwner`: `RecordAssignment` is the only step
  that adds an active row, and where the index admits it every other active row
  is the one it releases. `RowsAlwaysLegal`: a worker in stage `ready` carries a
  target that is a legal successor of the status it *saw*, and a reason that
  fits; the row records exactly that pair, which is why rows are legal one by one
  although consecutive ones need not join. `ReportIsItsTrail`: inductive once the
  three cases of the trigger (not terminal, newly terminal, still terminal) are
  apart; the third is where COALESCE is needed. `NothingIsRewritten`: an action
  property. `EveryWriteIsAudited` and `ReporterIsToldWhatIsVisible`: the access
  log and the inbox are related to the rows by their times, so the invariant
  (`LogInv`) is first that no two requests, finished or in flight, carry the same
  time (`StampsApart`), then that log and inbox follow the rows.
  `CaseIsKept` is the refinement, for any number of workers: a request that nobody
  overtook commits against the status and the ownership it read, and what an
  overtaken one read was so at some time, so that it is in `had` and `owned`; every
  step maps to a move of the contract or to a stutter. `TimelineEndsRight`: a request
  that nobody overtook carries a later time than every row committed before, so if
  such a request wrote last, its row is the latest.
* **EmergencyProofs**, the dispatch. The checks on the row compare two columns and say
  nothing of a missing one, so that no step is skipped must come from the
  handlers, whose read may be stale. `Warranted` is why it does: an advance that
  was accepted found its predecessor's stamp set, stamps are overwritten but
  never taken back, so it is set still when the advance commits. With it
  `OneDispatch`, `StepsInOrder` and `StateHasItsStamp` are inductive together
  (`DispatchInv`); `JourneyIsInOrder` is the first two. What it says of the end is what
  the code keeps: not before the raising. `AnswererIsOnRecord` and `StampsAreAudited`
  are proved beside them.
* **ReportSubmissionProofs.** A submission writes the counter it *read* plus one.
  `NeverOvercharged` needs that what was read never exceeds what is filed, by
  then or later. `CountedExactly` needs more: that users outside `overlapped`
  have one request at a time (`OneAtATime`), so that nobody but the submission
  itself moves its counter between the check, the second read and the commit.
  `SubmissionInv` is their conjunction; the cardinalities come from
  `CommitCounts`. `CompleteOrAbsent` is inductive beside it. `OneSosPerWindow`:
  the window looks at one report only, the latest under the user's name. The
  invariant `SosInv` says that such a user's reports are committed in the order
  in which they began (`InTurn`), so that when the latest is out of the window
  every earlier one is, and that a press let through stays warranted until its
  commit (`Pressed`).
* **EvidenceLifecycleProofs.** `EvidenceInv` is about what each session may rely
  on (`Clear`): an upload being stored is in no row and in nobody else's hands
  (`Apart`), and what a session has erased is not in the bucket. From it
  `NothingIsUngoverned` while nothing has failed; `WhatIsToldIsGoverned` and
  `PurgedStaysGone` however often whatever fails, deletes included, for every upload
  outside `kept`. To prove them for those the invariant speaks of the objects that
  are in the bucket though the store was never told to delete them.
* **AccountsProofs.** `AccountsInv`: every worker's principal and its own cached
  row come from its own credential (`Serves`), no two accounts share a subject or
  an address up to case (`Apart`), counters equal uses (`Counted`). An account
  changes only in columns the indexes do not cover, or where both admit it.
  `AccountsStayWellFormed` is `TypeOK`, which says two things a type does not: no
  account of a student has a display name, though the role a PATCH relies on may
  have been taken away since it was read, because the constraint judges the row
  that is written; and the counters stay within the requests served, because each
  request makes at most one account and counts at most one use, as it ends. The
  invariant counts the requests in flight against those taken up (`Budget`).
* **EmergencyProofs**, the queue. `NoOverlap`: a tone that is not suspended holds
  `isPlaying` until it ends, so a call that finds it cleared finds at most interrupted
  ones (`SoundInv`). `OneAlarmEach`: the baseline of what was seen only grows while a
  page is open. Both for any set of reports, filters and orders of answers.
* **TriageProofs.** `NoLinkWidensAccess`: what a request sees is part of its
  officer's queue, and the query behind the queue admits no report the predicate
  refuses (`VisibleIsViewable`); the policy reads facts nothing updates, so what was
  allowed when it was read is allowed when the answer leaves. `TheLastWordIsKept`:
  two sessions that hold one row have contested it (`ReadersApart`), so a session
  whose row is not contested holds it as it stands (`Fresh`), and the UPDATE of the
  columns that differ leaves its verdict and its name; a submission writes only
  where there was no row, because a report is filed once (`FiledOnce`).
  `AlikeReportsAreLinked`, for finitely many reports: the sort keeps the `TOP_K` most
  alike of what a draft found, so each report it found is proposed or crowded out by
  `TOP_K` others at least as alike (`DraftCovers`); the commit writes every proposal,
  a link is never taken back, and what was filed before stays so. A row that another
  session has written meanwhile is left to it and is a link all the same. The claim is
  model by model, and leaves open what a limit may have cut off.
* **DatabaseProofs**, the schema. `SchemaInv` says of the committed database and of
  the copy a command works on that they are sound, and how they may differ. A
  database is sound (`Sound`) if its objects are those of its version and its rows
  are in tables that exist (`Placed`), its references resolve (`Resolved`), its
  contactable reports are attributed (`Attributed`) and its migrated rows obey what
  the migrations promise (`Migrated`). A DELETE is the hard step: what stays refers
  to what goes only by nullable columns, since a cascade has taken the rest
  (`SurvivorsResolve`), and no cascade starts another. What the proof knows of the
  catalogue, 35 tables and eight migrations written out, is stated in a few lemmas
  (`TablesAreRegular`, `RefsAreRegular`, `AddsAreNew`, `DropsUndo`).
  `AuthorsAreKept` is the action property, for which `Drift` says that a command
  that does not go to the base has dropped no record from its copy.
* **DatabaseProofs**, the campus. `MapInv`: every location obeys the CHECKs and is
  synthetic exactly if its code is the seed's (`Vocabulary`); what an open
  transaction has written is of its command's file, and every row it is still to
  write names a zone that is committed or comes before it (`Commanded`); a draft and
  a filed report have the anchor their signal asks for (`Drafted`, `Filed`).
  `ImportsAreWhole` and `ResponderIsSentWhereAsked` follow, and `MapTypeCorrect`: no
  CHECK ever fails half way into a transaction.
* **ModelReleaseProofs.** `DuplicatesStayTogether`: alike texts are merged or
  still to be compared (`MergedOrToDo`), nothing is shared out before the last
  pair, and a group goes to one split whole. `NothingSeenIsScored` follows from
  what the checks before training refuse. `ExportsStraddleNothing` and
  `ExportsSpoilNoScore` are the same of the specification in which exports run the
  pipeline too, fit and score (`SplitInv`). An export makes no check, so for it only
  the grouping stands between what was fitted and what is scored, and the claim is for
  a configuration that deduplicates. `ExactlyOneActive`: the active row is
  the last one. `SuggestionsAreTraced`: until its file is written over, a row, the
  file and what a process has loaded from it are one (`ReleaseInv`). The proof does
  not ask whether the process started before or after the registration, and the
  property says so.

`SplitterPassesItsChecks`, in ModelReleaseProofs, has a hypothesis about the
configuration: `TestSize + ValSize <= 50`, at most half of the groups held out
(`default.yaml` holds out 20 and 10 hundredths). Then every label of two groups or
more leaves one to train on (`SharesLeaveOne`), what is scored is covered
(`Covered`), and with `NothingStraddles` only the check of sizes can fail. For every
configuration the splitter accepts it is false: TLC refutes it for `TestSize = 90`
and `ValSize = 5`, where a label of three groups goes to the test set entirely.

Only model-checked: what needs fairness (`AbandonedIsReaped`, `LapsedIsPurged`,
`EveryArrivalIsHeard`), which is out of the prover's reach.

## 7. Not modelled

* **Rate limiting, configuration, headers, correlation ids**: delegated to
  Flask-Limiter, or decoration of a response that no later request reads.
* **Image sanitiser and EXIF reader**: functions of bytes. Their outcome, taken
  or refused, is a step of EvidenceLifecycle.
* **Catalogue, health, serialisers**: reads. What they may show is the policy's.
* **Seed, smoke and end-to-end scripts**: straight-line scripts that call the
  application; the demo seed, which shares tables with the import, is in CampusMap.
* **Token verification, haversine distance, the classifiers and their metrics**:
  cryptography and real arithmetic. They appear as a bit, a difference on a line,
  a set of labels.
* **Web client, other parts**: the session, the SOS button, the upload widget and
  the wizard each hold one timer or one request; what can go wrong in them is in
  section 5, and what they leave behind at the server is in the modules. The open
  incident panel beside the queue has the race described there and no state the
  queue reads.
