------------------------------- MODULE Triage -------------------------------
(***************************************************************************)
(* Machine assistance beside a report, and the humans who correct it:      *)
(* TriageService.run_for_report inside the submission's transaction, the   *)
(* responder's detail view, POST .../category and POST .../links/<id>.     *)
(*                                                                         *)
(* A judgement row is a category suggestion (its key is the report) or a   *)
(* proposed link (its key is the canonical pair).  Both are read, changed  *)
(* in the session and flushed: the UPDATE names only the columns whose     *)
(* value differs from the one that was read.  Narratives are abstracted to *)
(* their pairwise similarity, in hundredths, which is each model's own:    *)
(* the vectors of different models are never compared.                     *)
(***************************************************************************)
EXTENDS AccessPolicy, RiskScorer, FiniteSets, FiniteSetsExt

CONSTANTS
  Workers,             \* concurrent request handlers
  Reports,             \* report ids, a set of naturals: their order is the uuids'
  RoleOf,              \* [Users -> Roles]
  Categories,          \* active categories
  Severity, RoutesTo,  \* [Categories -> ...]: base_severity, routes_to_role
  Facts,               \* [Reports -> ReportFacts]: the columns nothing updates
  MaxModels,           \* bound: models registered, named in that order
  Similarity,          \* [Models -> [Reports -> [Reports -> 0..100]]]: cosine of the vectors
  Labels,              \* what the classifier may answer
  EmbeddingLimit,      \* limit of embeddings_for_model
  TopK,                \* TOP_K
  MayClose,            \* the reports whose case may be closed
  Requests,            \* the requests clients may send
  MaxRequests          \* bound: requests taken up

NoCategory == "no category"
None == "none"
Models == 1 .. MaxModels
NoModel == 0

ReportFacts ==
  [category: Categories \cup {NoCategory}, emergency: BOOLEAN, ongoing: BOOLEAN,
   occurred: Int, place: Nat, reporter: Users \cup {Nobody}]

Pair(r, s) == {r, s}
Pairs == {Pair(r, s) : r, s \in Reports} \ {{r} : r \in Reports}

FileRequest == [kind: {"file"}, report: Reports]
ViewRequest == [kind: {"view"}, user: Users, report: Reports]
OverrideRequest == [kind: {"override"}, user: Users, report: Reports,
                    verdict: Categories \cup {NoCategory}]
ReviewRequest == [kind: {"review"}, user: Users, report: Reports, link: Pairs,
                  verdict: {"confirmed", "rejected"}]

ASSUME TriageAssumption ==
  /\ Reports \subseteq Nat /\ IsFiniteSet(Reports)
  /\ RoleOf \in [Users -> Roles]
  /\ NoCategory \notin Categories /\ None \notin Categories
  /\ Severity \in [Categories -> 1 .. 5]
  /\ RoutesTo \in [Categories -> Roles \ {"student"}]
  /\ Facts \in [Reports -> ReportFacts]
  /\ MaxModels \in Nat /\ EmbeddingLimit \in Nat
  /\ Similarity \in [Models -> [Reports -> [Reports -> 0 .. 100]]]
  /\ Labels \subseteq Categories \cup {NoCategory}
  /\ MayClose \subseteq Reports
  /\ TopK \in Nat /\ MaxRequests \in Nat
  /\ Requests \subseteq FileRequest \cup ViewRequest \cup OverrideRequest \cup ReviewRequest

VARIABLES
  status,      \* [Reports -> "absent", or the report's current_status]
  suggestions, \* ml.report_classification: [Reports -> a suggestion or NoRow]
  links,       \* core.report_link: [Pairs -> a link or NoRow]
  risk,        \* core.risk_assessment: [Reports -> a band or None]
  active,      \* the model whose ml.model_version row is active
  embedded,    \* ml.report_embedding: [Models -> the reports it has embedded]
  audit,       \* audit.access_log rows of judgements
  taken,       \* requests taken up
  job,         \* [Workers -> what the worker is in the middle of]
  before,      \* history: the reports already there when each one's filing began
  lastWord,    \* history: the last judgement committed on each row
  contested    \* history: rows two sessions had read at the same time

judgements == <<suggestions, links>>
stored == <<status, judgements, risk, active, embedded, audit>>
history == <<before, lastWord, contested>>
vars == <<stored, taken, job, history>>

\* verdict and by: the human's, None and Nobody until there is one.
NoRow == [about |-> None, verdict |-> None, by |-> Nobody]
LinkTypes == {"duplicate", "same_pattern", "related"}
Suggestions == [about: Categories \cup {NoCategory}, verdict: Categories \cup {None},
                by: Users \cup {Nobody}]
Links == [about: LinkTypes, verdict: {None, "confirmed", "rejected"}, by: Users \cup {Nobody}]

\* Where a judgement is kept: a link at its pair, a suggestion at its report alone.
Keys == {{r} : r \in Reports} \cup Pairs
RowOf(k) == IF k \in Pairs THEN links[k] ELSE suggestions[CHOOSE r \in k : TRUE]

idle == [pc |-> "idle"]
NoDraft == [about |-> None, model |-> NoModel, proposes |-> {}, band |-> None]

Init ==
  /\ status = [r \in Reports |-> "absent"]
  /\ suggestions = [r \in Reports |-> NoRow]
  /\ links = [p \in Pairs |-> NoRow]
  /\ risk = [r \in Reports |-> None]
  /\ active = NoModel /\ embedded = [m \in Models |-> {}] /\ audit = {}
  /\ taken = 0
  /\ job = [w \in Workers |-> idle]
  /\ before = [r \in Reports |-> {}]
  /\ lastWord = [k \in Keys |-> NoRow]
  /\ contested = {}

Stored == {r \in Reports : status[r] # "absent"}
OpenReports == {r \in Reports : status[r] \in Open}

At(w, stage, kind) == job[w].pc = stage /\ job[w].req.kind = kind
Finish(w) == job' = [job EXCEPT ![w] = idle]

Dropped(w) == Finish(w) /\ UNCHANGED <<stored, taken, history>>

Receive(w, r) ==
  /\ job[w] = idle
  /\ taken < MaxRequests
  /\ taken' = taken + 1
  /\ IF r.kind = "file"
     THEN /\ r.report \notin Stored
          /\ \A v \in Workers : job[v] # idle => job[v].req # r
          /\ job' = [job EXCEPT ![w] = [pc |-> "filing", req |-> r, draft |-> NoDraft]]
          /\ before' = [before EXCEPT ![r.report] = Stored]
     ELSE /\ job' = [job EXCEPT ![w] = [pc |-> "received", req |-> r, sees |-> {}, read |-> NoRow]]
          /\ UNCHANGED before
  /\ UNCHANGED <<stored, lastWord, contested>>

-----------------------------------------------------------------------------
(* TriageService.run_for_report                                            *)

Drafted(w, pc, draft) ==
  /\ job' = [job EXCEPT ![w].pc = pc, ![w].draft = draft]
  /\ UNCHANGED <<stored, taken, history>>

\* No active model, no artifact or no narrative: nothing but the score.
Unassisted(w) == At(w, "filing", "file") /\ Drafted(w, "related", job[w].draft)

\* The best label may name no category of the table; a narrative of which the
\* vectoriser knows no word is classified and compared with nothing.
Classify(w) ==
  /\ At(w, "filing", "file") /\ active # NoModel
  /\ \E c \in Labels : Drafted(w, "related", [job[w].draft EXCEPT !.about = c])

\* What other transactions have committed on open reports, under the model the
\* report is embedded by; in no order, should the limit cut it.
embeddings_for_model(m, r) ==
  LET rows == (embedded[m] \cap OpenReports) \ {r}
  IN kSubset(Least(EmbeddingLimit, Cardinality(rows)), rows)

\* timedelta.days rounds towards minus infinity, then abs; occurred is in hours.
DaysApart(r, s) ==
  LET days == (Facts[r].occurred - Facts[s].occurred) \div 24
  IN IF days < 0 THEN -days ELSE days

DUPLICATE_THRESHOLD == 88
RELATED_THRESHOLD == 72
DUPLICATE_MAX_DAYS_APART == 14

LinkType(m, r, s) ==
  IF Similarity[m][r][s] < DUPLICATE_THRESHOLD THEN "related"
  ELSE IF DaysApart(r, s) <= DUPLICATE_MAX_DAYS_APART THEN "duplicate" ELSE "same_pattern"

Alike(m, r, candidates) == {s \in candidates : Similarity[m][r][s] >= RELATED_THRESHOLD}

\* Mutant: the sort is the wrong way round.
LeastAlike(m, r, alike) ==
  {best \in kSubset(Least(TopK, Cardinality(alike)), alike) :
     \A s \in best, t \in alike \ best : Similarity[m][r][s] <= Similarity[m][r][t]}

\* The first TOP_K of the candidates sorted by similarity; ties fall either way.
MostAlike(m, r, alike) ==
  {best \in kSubset(Least(TopK, Cardinality(alike)), alike) :
     \A s \in best, t \in alike \ best : Similarity[m][r][s] >= Similarity[m][r][t]}

EmbedAndRelate(w) ==
  LET r == job[w].req.report
  IN /\ At(w, "filing", "file") /\ active # NoModel
     /\ \E c \in Labels, candidates \in embeddings_for_model(active, r) :
          \E best \in MostAlike(active, r, Alike(active, r, candidates)) :
            Drafted(w, "related",
                    [about |-> c, model |-> active, proposes |-> best, band |-> None])

SeverityOf(r) == IF Facts[r].category = NoCategory THEN 3 ELSE Severity[Facts[r].category]

\* An instance is shorter than LOCATION_REPEAT_WINDOW_DAYS.
count_recent_open_at_location(r) ==
  Cardinality({s \in OpenReports \ {r} : Facts[s].place = Facts[r].place})

Score(w) ==
  LET r == job[w].req.report
      score == score_report(SeverityOf(r), Facts[r].emergency, Facts[r].ongoing, 0,
                            Facts[r].occurred % 24, count_recent_open_at_location(r))
  IN /\ At(w, "related", "file")
     /\ Drafted(w, "assisted", [job[w].draft EXCEPT !.band = band_for(score)])

\* Whatever Python raises is swallowed: what was flushed so far is kept, and
\* the score that would have come after it is not taken.
Fail(w) ==
  /\ \/ At(w, "related", "file") /\ Drafted(w, "assisted", job[w].draft)
     \/ At(w, "filing", "file")
          /\ \E c \in {None} \cup (IF active = NoModel THEN {} ELSE Labels) :
               Drafted(w, "assisted", [job[w].draft EXCEPT !.about = c])

CommitFiling(w) ==
  LET r == job[w].req.report
      d == job[w].draft
  IN /\ At(w, "assisted", "file")
     /\ status' = [status EXCEPT ![r] = "submitted"]
     /\ suggestions' = [suggestions EXCEPT ![r] = IF d.about = None THEN NoRow
                          ELSE [about |-> d.about, verdict |-> None, by |-> Nobody]]
     /\ links' = [p \in Pairs |->
                    IF \E s \in d.proposes : p = Pair(r, s) /\ links[p] = NoRow
                    THEN [about |-> LinkType(d.model, r, CHOOSE s \in d.proposes : p = Pair(r, s)),
                          verdict |-> None, by |-> Nobody]
                    ELSE links[p]]
     /\ risk' = [risk EXCEPT ![r] = d.band]
     /\ embedded' = [m \in Models |-> IF m = d.model THEN embedded[m] \cup {r} ELSE embedded[m]]
     /\ Finish(w)
     /\ UNCHANGED <<active, audit, taken, history>>

-----------------------------------------------------------------------------
(* The responder's requests                                                *)

Caller(w) == [user |-> job[w].req.user, role |-> RoleOf[job[w].req.user]]

\* The assignee is left out: a case is assigned within the role it routes to.
access_context(r) ==
  [routesTo |-> IF Facts[r].category = NoCategory THEN "none" ELSE RoutesTo[Facts[r].category],
   confidential |-> FALSE, reporter |-> Facts[r].reporter, assignee |-> Nobody,
   viaToken |-> FALSE, emergency |-> Facts[r].emergency]

MayOpen(u, r) == can_view_report([user |-> u, role |-> RoleOf[u]], access_context(r))

\* What the request judges.
Key(w) == IF job[w].req.kind = "review" THEN job[w].req.link ELSE {job[w].req.report}
Judges(w) == job[w] # idle /\ job[w].req.kind \in {"override", "review"}

Logged(w, outcome) ==
  audit' = IF Judges(w) THEN audit \cup {[by |-> job[w].req.user, on |-> Key(w),
                                          verdict |-> job[w].req.verdict, outcome |-> outcome]}
           ELSE audit

\* 403, 404 and 409: rolled back, recorded as DENIED, committed.
Denied(w) ==
  /\ Logged(w, "denied")
  /\ Finish(w)
  /\ UNCHANGED <<status, judgements, risk, active, embedded, taken, history>>

Authorise(w) ==
  /\ job[w].pc = "received"
  /\ can_use_responder_view(Caller(w), TRUE)
  /\ job[w].req.report \in Stored /\ MayOpen(job[w].req.user, job[w].req.report)
  /\ job' = [job EXCEPT ![w].pc = IF job[w].req.kind = "override" THEN "sighted" ELSE "authorised"]
  /\ UNCHANGED <<stored, taken, history>>

Refuse(w) ==
  /\ job[w].pc = "received"
  /\ ~ /\ can_use_responder_view(Caller(w), TRUE)
       /\ job[w].req.report \in Stored /\ MayOpen(job[w].req.user, job[w].req.report)
  /\ Denied(w)

\* Mutant: whoever may use the responder view may see every link.
sees_all(w) == Stored

\* _visible_report_ids: the caller's open queue, not everything they may open.
visible_report_ids(w) ==
  {r \in Stored : visible_to(Caller(w).role, access_context(r), status[r])}

Sight(w) ==
  /\ job[w].pc = "authorised"
  /\ job' = [job EXCEPT ![w].pc = "sighted", ![w].sees = visible_report_ids(w)]
  /\ UNCHANGED <<stored, taken, history>>

\* view_for: the links of the report that nobody rejected, as far as `sees' goes.
related_for(r) == {s \in Reports \ {r} : links[Pair(r, s)] # NoRow
                                         /\ links[Pair(r, s)].verdict # "rejected"}

View(w) ==
  /\ At(w, "sighted", "view")
  /\ job' = [job EXCEPT ![w].pc = "answered",
                        ![w].sees = related_for(job[w].req.report) \cap @]
  /\ UNCHANGED <<stored, taken, history>>

Answer(w) == At(w, "answered", "view") /\ Dropped(w)

\* A link is judged from one of its ends by who sees the other.
OtherSideVisible(w) == job[w].req.link \ {job[w].req.report} \subseteq job[w].sees

Judgeable(w) ==
  /\ RowOf(Key(w)) # NoRow
  /\ job[w].req.kind = "review" => job[w].req.report \in job[w].req.link /\ OtherSideVisible(w)

\* The id of an override is looked up among the active categories.
KnownCategory(w) == job[w].req.verdict # NoCategory

\* The row is read; from here to its commit the session writes what it decided on.
Read(w) ==
  /\ Judges(w) /\ job[w].pc = "sighted"
  /\ Judgeable(w) /\ KnownCategory(w)
  /\ job' = [job EXCEPT ![w].pc = "read", ![w].read = RowOf(Key(w))]
  /\ contested' = IF \E v \in Workers \ {w} : job[v].pc = "read" /\ Key(v) = Key(w)
                  THEN contested \cup {Key(w)} ELSE contested
  /\ UNCHANGED <<stored, taken, before, lastWord>>

NotFound(w) ==
  /\ Judges(w) /\ job[w].pc = "sighted"
  /\ ~Judgeable(w)
  /\ Denied(w)

\* 400: no such active category, or an id that is not a smallint.
BadCategory(w) ==
  /\ At(w, "sighted", "override")
  /\ Judgeable(w) /\ ~KnownCategory(w)
  /\ Dropped(w)

\* Mutant: the first reviewer stays on the row.
KeepsFirstReviewer(row, read, verdict, by) ==
  [row EXCEPT !.verdict = verdict, !.by = IF @ = Nobody THEN by ELSE @]

\* UPDATE of the columns that changed since the row was read, and no other.
Flushed(row, read, verdict, by) ==
  [row EXCEPT !.verdict = IF verdict = read.verdict THEN @ ELSE verdict,
              !.by = IF by = read.by THEN @ ELSE by]

Judge(w) ==
  LET k == Key(w)
      q == job[w].req
      row == Flushed(RowOf(k), job[w].read, q.verdict, q.user)
  IN /\ Judges(w) /\ job[w].pc = "read"
     /\ IF q.kind = "review"
        THEN links' = [links EXCEPT ![k] = row] /\ UNCHANGED suggestions
        ELSE suggestions' = [suggestions EXCEPT ![q.report] = row] /\ UNCHANGED links
     /\ Logged(w, "success")
     /\ lastWord' = [lastWord EXCEPT ![k] = [about |-> row.about, verdict |-> q.verdict, by |-> q.user]]
     /\ Finish(w)
     /\ UNCHANGED <<status, risk, active, embedded, taken, before, contested>>

\* The process dies, or the database refuses: nothing of the request remains.
Crash(w) == job[w] # idle /\ Dropped(w)

\* CaseService closes a case.
Close(r) ==
  /\ r \in OpenReports
  /\ status' = [status EXCEPT ![r] = "closed_no_action"]
  /\ UNCHANGED <<judgements, risk, active, embedded, audit, taken, job, history>>

\* register_model: a further model becomes the active one.
Register ==
  /\ active < MaxModels
  /\ active' = active + 1
  /\ UNCHANGED <<status, judgements, risk, embedded, audit, taken, job, history>>

Next ==
  \/ \E w \in Workers :
       \/ \E r \in Requests : Receive(w, r)
       \/ Unassisted(w) \/ Classify(w) \/ EmbedAndRelate(w) \/ Score(w) \/ Fail(w)
       \/ CommitFiling(w)
       \/ Authorise(w) \/ Refuse(w) \/ Sight(w) \/ View(w) \/ Answer(w)
       \/ Read(w) \/ NotFound(w) \/ BadCategory(w) \/ Judge(w) \/ Crash(w)
  \/ \E r \in MayClose : Close(r)
  \/ Register

Spec == Init /\ [][Next]_vars
-----------------------------------------------------------------------------
(* What holds                                                              *)

\* Types of the rows and of the judgements in flight.
TypeOK ==
  /\ status \in [Reports -> Statuses \cup {"absent"}]
  /\ suggestions \in [Reports -> Suggestions \cup {NoRow}]
  /\ links \in [Pairs -> Links \cup {NoRow}]
  /\ risk \in [Reports -> Bands \cup {None}]
  /\ active \in Models \cup {NoModel}
  /\ embedded \in [Models -> SUBSET Stored] /\ contested \subseteq Keys
  /\ \A w \in Workers : job[w] # idle => job[w].req \in Requests

\* "A link never widens access": what a responder is shown beside a report,
\* and the other side of every link they have judged, is a report they could
\* have opened on their own, whatever was filed, closed or judged meanwhile.
LinksNeverWidenAccess ==
  /\ \A w \in Workers : (job[w].pc = "answered") =>
       \A s \in job[w].sees : MayOpen(job[w].req.user, s)
  /\ \A a \in audit : (a.outcome = "success" /\ a.on \in Pairs) =>
       \A s \in a.on : MayOpen(a.by, s)

\* Two open reports whose narratives the model that embedded both finds alike are
\* linked, unless they were filed at the same time, the limit may have cut the earlier
\* one, or the later one has TOP_K links to reports at least as alike that were not
\* themselves filed after it.
SimilarIsProposed ==
  \A m \in Models :
    \A r \in embedded[m] \cap OpenReports, s \in embedded[m] \cap OpenReports :
      s \in before[r] /\ Similarity[m][r][s] >= RELATED_THRESHOLD =>
        \/ links[Pair(r, s)] # NoRow
        \/ Cardinality(embedded[m] \ {r}) > EmbeddingLimit
        \/ Cardinality({t \in Reports \ {r, s} : /\ r \notin before[t]
                                               /\ links[Pair(r, t)] # NoRow
                                               /\ Similarity[m][r][t] >= Similarity[m][r][s]}) >= TopK

\* A judgement read and written by one session at a time is the last one given,
\* with the name of who gave it.
LastWordStands ==
  \A k \in Keys \ contested : lastWord[k] # NoRow => RowOf(k) = lastWord[k]

-----------------------------------------------------------------------------
(* What the code's comments promise                                        *)

\* MlRepository.record_override: "a half-recorded override cannot exist".
\* Whoever a row names gave that very verdict at some time.
VerdictIsSomebodys ==
  \A k \in Keys : RowOf(k).verdict # None =>
    [by |-> RowOf(k).by, on |-> k, verdict |-> RowOf(k).verdict, outcome |-> "success"] \in audit
=============================================================================
