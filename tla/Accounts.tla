------------------------------ MODULE Accounts ------------------------------
(***************************************************************************)
(* Who a caller is, and what a caller may open: registration of an account *)
(* behind a verified Firebase credential, the principal a request resolves *)
(* once and keeps, the caller's own display name, a report or its evidence *)
(* opened by a person or by the holder of an access token, and the         *)
(* caller's own notifications.  An account's identifier is its place in    *)
(* accounts; every step of a worker is one statement or one commit of its  *)
(* READ COMMITTED transaction.  Operator is the person with database       *)
(* access who makes authority accounts.                                    *)
(***************************************************************************)
EXTENDS AccessPolicy, Integers, Sequences, FiniteSets

CONSTANTS
  Workers,
  Uids, NoUid,        \* the subjects of verified credentials
  Emails, NoEmail,    \* well-formed addresses; NoEmail is a missing or malformed one
  EmailOf,            \* the address in a subject's token
  Lower,              \* lower(institutional_email)
  Like,               \* pairs of an address and a stored address it matches under ILIKE
  Names, NoName,
  Reports, ContextOf, \* the facts of each report the policy reads
  Tokens, NoToken, ReportOf,
  Notices, RecipientOf,
  Seeded,             \* the accounts made out of band before the service starts
  Requests,
  MaxRequests, MaxEdits   \* the bounds of an instance

AppUser == [uid: Uids, email: Emails, role: Roles, active: BOOLEAN, name: Names \cup {NoName}]

Needs == {"me", "rename", "read"}          \* @authenticated
Optional == {"view", "evidence"}           \* open to the holder of a token too

Request ==
  [op: {"register"} \cup Needs \cup Optional, uid: Uids \cup {NoUid},
   email: Emails \cup {NoEmail}, name: Names \cup {NoName}, report: Reports,
   token: Tokens \cup {NoToken}, notice: Notices]

ASSUME AccountAssumptions ==
  /\ EmailOf \in [Uids -> Emails \cup {NoEmail}]
  /\ Lower \in [Emails -> Emails]
  /\ \A e \in Emails : <<e, e>> \in Like
  /\ ReportOf \in [Tokens -> Reports]
  /\ RecipientOf \in [Notices -> DOMAIN Seeded]
  /\ NoUid \notin Uids /\ NoEmail \notin Emails /\ NoToken \notin Tokens
  /\ Seeded \in Seq(AppUser)
  /\ \A i \in DOMAIN Seeded : Seeded[i].role = "student" => Seeded[i].name = NoName
  /\ MaxRequests \in Nat
  /\ 1 .. (Len(Seeded) + MaxRequests) \subseteq Users   \* every identifier an account can get
  /\ \A i, j \in DOMAIN Seeded :
       i # j => /\ Seeded[i].uid # Seeded[j].uid
                /\ Lower[Seeded[i].email] # Lower[Seeded[j].email]
  /\ Requests \subseteq Request

VARIABLES
  accounts,   \* identity.app_user
  live,       \* the access tokens neither revoked nor expired
  uses,       \* use_count of each token
  readBy,     \* who has marked each notification, Nobody while it is unread
  audit,      \* audit.access_log
  cached,     \* flask.g.principal of each worker
  job,        \* the request each worker is serving
  since,      \* every principal that a request's credential has named since it arrived
  taken, edits

vars == <<accounts, live, uses, readBy, audit, cached, job, since, taken, edits>>

Anonymous == [user |-> Nobody, role |-> "none"]
PrincipalOf(i, row) == [user |-> i, role |-> row.role]

Ids == DOMAIN accounts
ByUid(uid) == {i \in Ids : accounts[i].uid = uid}

\* An unknown or a deactivated account is nobody's principal.
_principal_for(rows, uid) ==
  {PrincipalOf(i, rows[i]) : i \in {j \in DOMAIN rows : rows[j].uid = uid /\ rows[j].active}}

StudentNameless(row) == row.role = "student" => row.name = NoName

\* Mutant: the constraint is not in the schema.
AnyName(row) == TRUE

\* ck_app_user_student_has_no_name, checked by the database on every write.
StudentHasNoName(row) == StudentNameless(row)

\* Mutant: the case-folding index on the address is forgotten.
UniqueUidOnly(rows, uid, email) == \A i \in DOMAIN rows : rows[i].uid # uid

\* uq_app_user_firebase_uid and uq_app_user_email_lower.
Unique(rows, uid, email) ==
  \A i \in DOMAIN rows : rows[i].uid # uid /\ Lower[rows[i].email] # Lower[email]

-----------------------------------------------------------------------------
(* The request a worker is serving: where it stands (pc), who it acts for, *)
(* the display name and the use count its session has loaded, and whether  *)
(* what it looked up was there.                                            *)

Idle == [pc |-> "idle", req |-> [op |-> "none"], who |-> Anonymous, text |-> NoName,
         count |-> 0, ok |-> FALSE]

Init ==
  /\ accounts = Seeded
  /\ live = Tokens
  /\ uses = [t \in Tokens |-> 0]
  /\ readBy = [n \in Notices |-> Nobody]
  /\ audit = <<>>
  /\ cached = [w \in Workers |-> {}]
  /\ job = [w \in Workers |-> Idle]
  /\ since = [w \in Workers |-> {}]
  /\ taken = 0
  /\ edits = 0

At(w, pc, ops) == job[w].pc = pc /\ job[w].req.op \in ops
Goes(w, pc) == job' = [job EXCEPT ![w].pc = pc] /\ UNCHANGED since

\* History: whom each request's credential names once the accounts are rows.
Watched(rows) ==
  [w \in Workers |-> IF job[w].pc = "idle" THEN {}
                     ELSE since[w] \cup _principal_for(rows, job[w].req.uid)]

Finish(w) == job' = [job EXCEPT ![w] = Idle] /\ since' = [since EXCEPT ![w] = {}]

stored == <<accounts, live, uses, readBy, audit>>
bounds == <<taken, edits>>

\* A refusal or a failure before the commit rolls the request back.
Dropped(w) == Finish(w) /\ UNCHANGED <<stored, cached, bounds>>

\* One row of audit.access_log; valid is ours: whether the token presented was good.
AuditRow(w, action, who, outcome) ==
  [action |-> action, actor |-> who.user, role |-> who.role, outcome |-> outcome,
   token |-> IF job[w].req.op \in Optional THEN job[w].req.token ELSE NoToken,
   valid |-> job[w].ok]

Logs(w, action, who) == audit' = Append(audit, AuditRow(w, action, who, "success"))

\* Mutant: whoever was resolved last on this worker's context stays.
KeepsPrincipal(w) == cached[w]

\* _reset_principal.
Reset(w) == {}

Receive(w, r) ==
  /\ job[w].pc = "idle"
  /\ taken < MaxRequests
  /\ taken' = taken + 1
  /\ job' = [job EXCEPT ![w] = [Idle EXCEPT !.pc = "received", !.req = r]]
  /\ cached' = [cached EXCEPT ![w] = Reset(w)]
  /\ since' = [since EXCEPT ![w] = _principal_for(accounts, r.uid)]
  /\ UNCHANGED <<stored, edits>>

\* Expired, revoked, disabled or invalid, no certificates to check it with, or
\* none where one is needed: 401 or 503.
RefuseCredential(w) ==
  /\ job[w].pc = "received"
  /\ job[w].req.uid # NoUid \/ job[w].req.op \notin Optional
  /\ Dropped(w)

-----------------------------------------------------------------------------
(* load_principal and require_principal                                    *)

\* The principal cached for the request, else the account the credential names.
Resolved(w) == IF cached[w] # {} THEN cached[w] ELSE _principal_for(accounts, job[w].req.uid)

Authenticate(w) ==
  /\ At(w, "received", Needs \cup Optional)
  /\ job[w].req.uid # NoUid
  /\ \E p \in Resolved(w) :
       /\ cached' = [cached EXCEPT ![w] = {p}]
       /\ job' = [job EXCEPT ![w].pc = "act", ![w].who = p, ![w].text = accounts[p.user].name]
  /\ UNCHANGED <<stored, since, bounds>>

NoAccount(w) ==
  /\ At(w, "received", Needs \cup Optional)
  /\ job[w].req.uid # NoUid
  /\ Resolved(w) = {}
  /\ Dropped(w)

GoesAnonymous(w) ==
  /\ At(w, "received", Optional)
  /\ job[w].req.uid = NoUid
  /\ Goes(w, "act")
  /\ UNCHANGED <<stored, cached, bounds>>

-----------------------------------------------------------------------------
(* POST /auth/register                                                     *)

\* A retry of a registration that was served finds its account.
FindAccount(w) ==
  /\ At(w, "received", {"register"})
  /\ job[w].req.uid # NoUid
  /\ \E i \in ByUid(job[w].req.uid) :
       /\ accounts[i].active
       /\ Logs(w, "account.provision_noop", PrincipalOf(i, accounts[i]))
  /\ Finish(w)
  /\ UNCHANGED <<accounts, live, uses, readBy, cached, bounds>>

Deactivated(w) ==
  /\ At(w, "received", {"register"})
  /\ \E i \in ByUid(job[w].req.uid) : ~accounts[i].active
  /\ Dropped(w)

\* The verified address wins; the body's is used when the token carries none.
Address(r) == IF EmailOf[r.uid] # NoEmail THEN EmailOf[r.uid] ELSE r.email

NoSuchAccount(w) ==
  /\ At(w, "received", {"register"})
  /\ job[w].req.uid # NoUid
  /\ ByUid(job[w].req.uid) = {}
  /\ Goes(w, "unknown")
  /\ UNCHANGED <<stored, cached, bounds>>

Clashes(email) == \E i \in Ids : <<email, accounts[i].email>> \in Like

CheckEmail(w) ==
  /\ At(w, "unknown", {"register"})
  /\ Address(job[w].req) # NoEmail
  /\ ~Clashes(Address(job[w].req))
  /\ Goes(w, "free")
  /\ UNCHANGED <<stored, cached, bounds>>

RefuseEmail(w) ==
  /\ At(w, "unknown", {"register"})
  /\ Address(job[w].req) = NoEmail \/ Clashes(Address(job[w].req))
  /\ Dropped(w)

\* The flush, the audit row and the commit.
Provision(w) ==
  LET r == job[w].req
      row == [uid |-> r.uid, email |-> Address(r), role |-> "student", active |-> TRUE,
              name |-> NoName]
  IN /\ At(w, "free", {"register"})
     /\ Unique(accounts, r.uid, row.email)
     /\ accounts' = Append(accounts, row)
     /\ Logs(w, "account.provision", PrincipalOf(Len(accounts) + 1, row))
     /\ since' = [Watched(accounts') EXCEPT ![w] = {}]
     /\ job' = [job EXCEPT ![w] = Idle]
     /\ UNCHANGED <<live, uses, readBy, cached, bounds>>

\* IntegrityError: 409.
DuplicateAccount(w) ==
  /\ At(w, "free", {"register"})
  /\ ~Unique(accounts, job[w].req.uid, Address(job[w].req))
  /\ Dropped(w)

-----------------------------------------------------------------------------
(* GET and PATCH /auth/me                                                  *)

Me(w) == At(w, "act", {"me"}) /\ Dropped(w)

\* The session writes the column only if it differs from the value it loaded.
Renamed(w) ==
  [accounts EXCEPT ![job[w].who.user].name = IF job[w].req.name = job[w].text THEN @
                                             ELSE job[w].req.name]

Rename(w) ==
  /\ At(w, "act", {"rename"})
  /\ job[w].who.role # "student"
  /\ StudentHasNoName(Renamed(w)[job[w].who.user])
  /\ accounts' = Renamed(w)
  /\ Logs(w, "account.update_profile", job[w].who)
  /\ Finish(w)
  /\ UNCHANGED <<live, uses, readBy, cached, bounds>>

\* 403 for a student; 409 for one who became a student meanwhile.
RefuseRename(w) ==
  /\ At(w, "act", {"rename"})
  /\ job[w].who.role = "student" \/ ~StudentHasNoName(Renamed(w)[job[w].who.user])
  /\ Dropped(w)

-----------------------------------------------------------------------------
(* GET /reports/<ref> and GET /evidence/<id>                               *)

\* resolve: the token is live and of this report.
Valid(r) == r.token \in live /\ ReportOf[r.token] = r.report

Context(w) == [ContextOf[job[w].req.report] EXCEPT !.viaToken = job[w].ok]

ResolveToken(w) ==
  /\ At(w, "act", Optional)
  /\ job' = [job EXCEPT ![w].pc = "open", ![w].ok = Valid(job[w].req),
                         ![w].count = IF Valid(job[w].req) THEN uses[job[w].req.token] ELSE 0]
  /\ UNCHANGED <<stored, cached, since, bounds>>

\* Mutant: the count of the row that was loaded, plus one.
CountsFromLoaded(w) == [uses EXCEPT ![job[w].req.token] = job[w].count + 1]

\* use_count + 1, computed by the database.
record_use(w) == [uses EXCEPT ![job[w].req.token] = @ + 1]

ViewReport(w) ==
  /\ At(w, "open", {"view"})
  /\ can_view_report(job[w].who, Context(w))
  /\ uses' = IF job[w].ok THEN record_use(w) ELSE uses
  /\ Logs(w, "report.view", job[w].who)
  /\ Finish(w)
  /\ UNCHANGED <<accounts, live, readBy, cached, bounds>>

\* 404; the use recorded before the check is rolled back with the rest.
RefuseReport(w) ==
  /\ At(w, "open", {"view"})
  /\ ~can_view_report(job[w].who, Context(w))
  /\ Dropped(w)

\* The denial is committed; a token's use is not recorded here.
ViewEvidence(w) ==
  /\ At(w, "open", {"evidence"})
  /\ audit' = Append(audit, AuditRow(w, "evidence.view", job[w].who,
                IF can_view_report(job[w].who, Context(w)) THEN "success" ELSE "denied"))
  /\ Finish(w)
  /\ UNCHANGED <<accounts, live, uses, readBy, cached, bounds>>

-----------------------------------------------------------------------------
(* POST /notifications/<id>/read                                           *)

Own(w) == RecipientOf[job[w].req.notice] = job[w].who.user

\* get_own: ok says that the row was unread when it was loaded.
GetOwn(w) ==
  /\ At(w, "act", {"read"})
  /\ Own(w)
  /\ job' = [job EXCEPT ![w].pc = "mark", ![w].ok = readBy[job[w].req.notice] = Nobody]
  /\ UNCHANGED <<stored, cached, since, bounds>>

NotOwn(w) == At(w, "act", {"read"}) /\ ~Own(w) /\ Dropped(w)

MarkRead(w) ==
  /\ At(w, "mark", {"read"})
  /\ readBy' = [readBy EXCEPT ![job[w].req.notice] = IF job[w].ok THEN job[w].who.user ELSE @]
  /\ Finish(w)
  /\ UNCHANGED <<accounts, live, uses, audit, cached, bounds>>

-----------------------------------------------------------------------------
(* What happens to a request from outside it                               *)

\* The database goes away or the process dies: nothing was committed.
Crash(w) ==
  /\ job[w].pc # "idle"
  /\ Finish(w)
  /\ cached' = [cached EXCEPT ![w] = {}]
  /\ UNCHANGED <<stored, bounds>>

\* Somebody with database access sets a role, which takes a student's name
\* away, or deactivates or reactivates an account.
Operator(i, role, active) ==
  /\ edits < MaxEdits
  /\ edits' = edits + 1
  /\ <<role, active>> # <<accounts[i].role, accounts[i].active>>
  /\ accounts' = [accounts EXCEPT ![i].role = role, ![i].active = active,
                                  ![i].name = IF role = "student" THEN NoName ELSE @]
  /\ since' = Watched(accounts')
  /\ UNCHANGED <<live, uses, readBy, audit, cached, job, taken>>

\* A token is revoked or expires.
TokenLapses(t) ==
  /\ t \in live
  /\ live' = live \ {t}
  /\ UNCHANGED <<accounts, uses, readBy, audit, cached, job, since, bounds>>

Next ==
  \/ \E w \in Workers :
       \/ \E r \in Requests : Receive(w, r)
       \/ RefuseCredential(w) \/ Authenticate(w) \/ NoAccount(w) \/ GoesAnonymous(w)
       \/ FindAccount(w) \/ Deactivated(w) \/ NoSuchAccount(w) \/ CheckEmail(w)
       \/ RefuseEmail(w) \/ Provision(w) \/ DuplicateAccount(w)
       \/ Me(w) \/ Rename(w) \/ RefuseRename(w)
       \/ ResolveToken(w) \/ ViewReport(w) \/ RefuseReport(w) \/ ViewEvidence(w)
       \/ GetOwn(w) \/ NotOwn(w) \/ MarkRead(w) \/ Crash(w)
  \/ \E i \in Ids, role \in Roles, active \in BOOLEAN : Operator(i, role, active)
  \/ \E t \in Tokens : TokenLapses(t)

Spec == Init /\ [][Next]_vars

-----------------------------------------------------------------------------
\* The rows that are stored and the principals a request keeps have their types, counters
\* included; and an account of a student has no display name, whatever demotions race its
\* owner's PATCH.
TypeOK ==
  /\ \A i \in Ids : accounts[i] \in AppUser /\ StudentNameless(accounts[i])
  /\ live \subseteq Tokens
  /\ uses \in [Tokens -> 0 .. MaxRequests]
  /\ readBy \in [Notices -> Ids \cup {Nobody}]
  /\ \A w \in Workers : \A p \in cached[w] : p \in Principal /\ p.user \in Ids

\* One person is one account: neither a subject nor an address, however it is spelt,
\* has two rows, whichever registrations race; and every account that was not made
\* out of band is accounted for by one account.provision row (AccountService.provision
\* and the two unique indexes behind its checks).
OneAccountPerIdentity ==
  /\ \A i, j \in Ids :
       i # j => /\ accounts[i].uid # accounts[j].uid
                /\ Lower[accounts[i].email] # Lower[accounts[j].email]
  /\ \A i \in Ids :
       Cardinality({n \in DOMAIN audit : /\ audit[n].action = "account.provision"
                                         /\ audit[n].actor = i})
         = IF i \in DOMAIN Seeded THEN 0 ELSE 1

\* A request acts for the account its own credential names and with a role that
\* account has held, while active, since the request arrived: never for the caller
\* before it on the same worker, and never with a role the credential carried
\* (load_principal, _reset_principal).  A notification is marked by its recipient.
ActsAsItself ==
  /\ \A w \in Workers : job[w].who # Anonymous => job[w].who \in since[w]
  /\ \A n \in Notices : readBy[n] \in {Nobody, RecipientOf[n]}

\* A token's use_count is the number of views of its own report, in the access log,
\* that were answered to its holder, by any number of requests at once; a refused or
\* failed one leaves no count and no row (get_report_detail, record_use).
UsesCounted ==
  \A t \in Tokens :
    uses[t] = Cardinality({n \in DOMAIN audit : /\ audit[n].action = "report.view"
                                                /\ audit[n].token = t /\ audit[n].valid})
=============================================================================
