--------------------------- MODULE AccountsProofs ---------------------------
(***************************************************************************)
(* Theorems about Accounts, for every set of workers, people, reports,     *)
(* tokens and notifications and any number of requests and edits.          *)
(***************************************************************************)
EXTENDS Accounts, SequenceTheorems, FiniteSetTheorems, TLAPS

-----------------------------------------------------------------------------
(* The inductive invariant                                                 *)

Stages == {"received", "act", "unknown", "free", "open", "mark"}
Who == [user: Nat \cup {Nobody}, role: Roles \cup {"none"}]

JobRecord ==
  [pc: Stages, req: Requests, who: Who, text: Names \cup {NoName}, count: Nat, ok: BOOLEAN]

AuditRecord ==
  [action: {"account.provision", "account.provision_noop", "account.update_profile",
            "report.view", "evidence.view"},
   actor: Nat \cup {Nobody}, role: Roles \cup {"none"}, outcome: {"success", "denied"},
   token: Tokens \cup {NoToken}, valid: BOOLEAN]

Types ==
  /\ accounts \in Seq(AppUser) /\ Len(Seeded) <= Len(accounts)
  /\ live \subseteq Tokens
  /\ uses \in [Tokens -> Nat]
  /\ DOMAIN readBy = Notices
  /\ audit \in Seq(AuditRecord)
  /\ cached \in [Workers -> SUBSET Who]
  /\ job \in [Workers -> {Idle} \cup JobRecord]
  /\ DOMAIN since = Workers

\* What a request may rely on: the account it acts for was its credential's, a
\* notification it is about to mark is that account's, and a token found good exists.
Serves(w) ==
  /\ job[w].pc = "received" => /\ cached[w] = {} /\ job[w].who = Anonymous
                               /\ _principal_for(accounts, job[w].req.uid) \subseteq since[w]
  /\ job[w].who # Anonymous => job[w].who \in since[w]
  /\ job[w].pc = "mark" => Own(w)
  /\ job[w].pc = "open" /\ job[w].ok => job[w].req.token \in Tokens
  /\ job[w].pc \in {"unknown", "free"} => job[w].req.uid \in Uids
  /\ job[w].pc = "free" => Address(job[w].req) \in Emails

Apart(rows) ==
  \A i, j \in DOMAIN rows :
    i # j => /\ rows[i].uid # rows[j].uid
             /\ Lower[rows[i].email] # Lower[rows[j].email]

\* The rows of the access log that speak of an account's making, or of a token's use.
Makings(log, i) ==
  {n \in DOMAIN log : log[n].action = "account.provision" /\ log[n].actor = i}
Views(log, t) ==
  {n \in DOMAIN log : log[n].action = "report.view" /\ log[n].token = t /\ log[n].valid}

Counted ==
  /\ \A i \in Ids : Cardinality(Makings(audit, i)) = IF i \in DOMAIN Seeded THEN 0 ELSE 1
  /\ \A n \in DOMAIN audit : audit[n].action = "account.provision" => audit[n].actor \in Ids
  /\ \A t \in Tokens : uses[t] = Cardinality(Views(audit, t))

AccountsInv ==
  /\ Types
  /\ \A w \in Workers : Serves(w)
  /\ \A n \in Notices : readBy[n] \in {Nobody, RecipientOf[n]}
  /\ Apart(accounts)
  /\ Counted

-----------------------------------------------------------------------------
(* Rows, principals and the access log                                     *)

LEMMA IdleIsNoRecord ==
  /\ \A j \in JobRecord : j # Idle /\ j.pc # "idle"
  /\ Idle.pc = "idle" /\ Idle.who = Anonymous
BY DEF Idle, JobRecord, Stages

\* A worker past the idle stage has a record.
LEMMA Busy ==
  ASSUME AccountsInv, NEW w \in Workers, job[w].pc # "idle"
  PROVE  /\ job[w] \in JobRecord /\ job[w].req \in Request /\ job[w].req \in Requests
         /\ job[w].who \in Who /\ job[w].pc \in Stages
<1>1. job[w] \in JobRecord
  BY IdleIsNoRecord DEF AccountsInv, Types
<1> QED
  BY <1>1, AccountAssumptions DEF JobRecord

LEMMA Account ==
  ASSUME Types, NEW i \in Ids
  PROVE  i \in Nat /\ i \in 1 .. Len(accounts) /\ accounts[i] \in AppUser
BY DEF Types, Ids

LEMMA PrincipalIsSomebody ==
  ASSUME Types, NEW i \in Ids
  PROVE  /\ PrincipalOf(i, accounts[i]) \in Who /\ PrincipalOf(i, accounts[i]) # Anonymous
<1>1. i \in Nat /\ accounts[i].role \in Roles
  BY Account DEF AppUser
<1> QED
  BY <1>1 DEF PrincipalOf, Who, Anonymous, Roles

LEMMA PrincipalsAreSomebody ==
  ASSUME Types, NEW uid, NEW p \in _principal_for(accounts, uid)
  PROVE  p \in Who /\ p # Anonymous /\ p.user \in Ids
<1>1. PICK i \in Ids : p = PrincipalOf(i, accounts[i])
  BY DEF _principal_for, Ids
<1> QED
  BY <1>1, PrincipalIsSomebody DEF PrincipalOf

\* One row more in the access log.
LEMMA Logged ==
  ASSUME NEW log \in Seq(AuditRecord), NEW row \in AuditRecord
  PROVE  LET more == Append(log, row)
         IN /\ more \in Seq(AuditRecord)
            /\ DOMAIN more = DOMAIN log \cup {Len(log) + 1} /\ Len(log) + 1 \notin DOMAIN log
            /\ more[Len(log) + 1] = row
            /\ \A n \in DOMAIN log : more[n] = log[n]
<1>1. Len(log) \in Nat /\ DOMAIN log = 1 .. Len(log)
  OBVIOUS
<1>2. /\ Append(log, row) \in Seq(AuditRecord)
      /\ DOMAIN Append(log, row) = 1 .. (Len(log) + 1)
      /\ Append(log, row)[Len(log) + 1] = row
      /\ \A n \in 1 .. Len(log) : Append(log, row)[n] = log[n]
  BY AppendProperties
<1> QED
  BY <1>1, <1>2

LEMMA FiniteLog ==
  ASSUME NEW log \in Seq(AuditRecord)
  PROVE  /\ IsFiniteSet(DOMAIN log)
         /\ \A i : IsFiniteSet(Makings(log, i))
         /\ \A t : IsFiniteSet(Views(log, t))
<1>1. IsFiniteSet(DOMAIN log)
  <2>1. Len(log) \in Nat /\ DOMAIN log = 1 .. Len(log)
    OBVIOUS
  <2> QED
    BY <2>1, FS_Interval
<1>2. \A i : Makings(log, i) \subseteq DOMAIN log
  BY DEF Makings
<1>3. \A t : Views(log, t) \subseteq DOMAIN log
  BY DEF Views
<1> QED
  BY <1>1, <1>2, <1>3, FS_Subset

\* What that row adds to the counts.
LEMMA CountsAfter ==
  ASSUME NEW log \in Seq(AuditRecord), NEW row \in AuditRecord
  PROVE  /\ \A i : Cardinality(Makings(Append(log, row), i))
                     = IF row.action = "account.provision" /\ row.actor = i
                       THEN Cardinality(Makings(log, i)) + 1 ELSE Cardinality(Makings(log, i))
         /\ \A t : Cardinality(Views(Append(log, row), t))
                     = IF row.action = "report.view" /\ row.token = t /\ row.valid
                       THEN Cardinality(Views(log, t)) + 1 ELSE Cardinality(Views(log, t))
<1> DEFINE more == Append(log, row)
           new == Len(log) + 1
<1>1. /\ DOMAIN more = DOMAIN log \cup {new} /\ new \notin DOMAIN log
      /\ more[new] = row /\ \A n \in DOMAIN log : more[n] = log[n]
  BY Logged
<1> HIDE DEF more, new
<1>2. ASSUME NEW i
      PROVE  Cardinality(Makings(more, i))
               = IF row.action = "account.provision" /\ row.actor = i
                 THEN Cardinality(Makings(log, i)) + 1 ELSE Cardinality(Makings(log, i))
  <2>1. Makings(more, i) = IF row.action = "account.provision" /\ row.actor = i
                           THEN Makings(log, i) \cup {new} ELSE Makings(log, i)
    BY <1>1 DEF Makings
  <2>2. new \notin Makings(log, i) /\ IsFiniteSet(Makings(log, i))
    BY <1>1, FiniteLog DEF Makings
  <2>3. Cardinality(Makings(log, i) \cup {new}) = Cardinality(Makings(log, i)) + 1
    BY <2>2, FS_AddElement
  <2> QED
    BY <2>1, <2>3
<1>3. ASSUME NEW t
      PROVE  Cardinality(Views(more, t))
               = IF row.action = "report.view" /\ row.token = t /\ row.valid
                 THEN Cardinality(Views(log, t)) + 1 ELSE Cardinality(Views(log, t))
  <2>1. Views(more, t) = IF row.action = "report.view" /\ row.token = t /\ row.valid
                         THEN Views(log, t) \cup {new} ELSE Views(log, t)
    BY <1>1 DEF Views
  <2>2. new \notin Views(log, t) /\ IsFiniteSet(Views(log, t))
    BY <1>1, FiniteLog DEF Views
  <2>3. Cardinality(Views(log, t) \cup {new}) = Cardinality(Views(log, t)) + 1
    BY <2>2, FS_AddElement
  <2> QED
    BY <2>1, <2>3
<1>4. more = Append(log, row)
  BY DEF more
<1>5. /\ \A i : Cardinality(Makings(more, i))
              = IF row.action = "account.provision" /\ row.actor = i
                THEN Cardinality(Makings(log, i)) + 1 ELSE Cardinality(Makings(log, i))
      /\ \A t : Cardinality(Views(more, t))
              = IF row.action = "report.view" /\ row.token = t /\ row.valid
                THEN Cardinality(Views(log, t)) + 1 ELSE Cardinality(Views(log, t))
  BY <1>2, <1>3
<1> QED
  BY <1>4, <1>5, Zenon

-----------------------------------------------------------------------------
(* What a step of one worker leaves to the others                          *)

\* An update that touches neither the subject, the role nor the state of an account
\* changes nobody's principal.
LEMMA SamePrincipals ==
  ASSUME NEW old \in Seq(AppUser), NEW new \in Seq(AppUser), Len(old) = Len(new),
         \A i \in DOMAIN old : /\ new[i].uid = old[i].uid /\ new[i].role = old[i].role
                               /\ new[i].active = old[i].active
  PROVE  \A uid : _principal_for(new, uid) = _principal_for(old, uid)
<1>1. DOMAIN old = 1 .. Len(old) /\ DOMAIN new = 1 .. Len(new)
  OBVIOUS
<1>2. DOMAIN old = DOMAIN new
  BY <1>1
<1>3. \A i \in DOMAIN old : PrincipalOf(i, old[i]) = PrincipalOf(i, new[i])
  BY DEF PrincipalOf
<1>4. ASSUME NEW uid
      PROVE  _principal_for(new, uid) = _principal_for(old, uid)
  <2>1. {j \in DOMAIN new : new[j].uid = uid /\ new[j].active}
          = {j \in DOMAIN old : old[j].uid = uid /\ old[j].active}
    BY <1>2
  <2> QED
    BY <1>2, <1>3, <2>1 DEF _principal_for
<1> QED
  BY <1>4

LEMMA OtherServes ==
  ASSUME AccountsInv, NEW v \in Workers,
         job'[v] = job[v], cached'[v] = cached[v], since[v] \subseteq since'[v],
         job[v].pc = "received"
            => _principal_for(accounts', job[v].req.uid) \subseteq since'[v]
  PROVE  Serves(v)'
<1>1. Serves(v) /\ Own(v)' = Own(v) /\ Address(job[v].req)' = Address(job[v].req)
  BY DEF AccountsInv, Own, Address
<1> QED
  BY <1>1 DEF Serves

LEMMA IdleServes ==
  ASSUME NEW w \in Workers, job'[w] = Idle
  PROVE  Serves(w)'
BY DEF Serves, Idle

\* A request moves on; nothing stored changes.
LEMMA MovesOn ==
  ASSUME AccountsInv, NEW w \in Workers, NEW k \in JobRecord, job' = [job EXCEPT ![w] = k],
         \A v \in Workers \ {w} : cached'[v] = cached[v] /\ since'[v] = since[v],
         cached' \in [Workers -> SUBSET Who], DOMAIN since' = Workers,
         UNCHANGED stored, Serves(w)'
  PROVE  AccountsInv'
<1>1. \A v \in Workers \ {w} : job'[v] = job[v]
  BY DEF AccountsInv, Types
<1>2. Types'
  BY DEF AccountsInv, Types, stored
<1>3. ASSUME NEW v \in Workers, v # w
      PROVE  Serves(v)'
  <2>1. job[v].pc = "received" => _principal_for(accounts, job[v].req.uid) \subseteq since[v]
    BY DEF AccountsInv, Serves
  <2> QED
    BY <1>1, <1>3, <2>1, OtherServes DEF stored
<1>4. Counted' /\ Apart(accounts)' /\ \A n \in Notices : readBy'[n] \in {Nobody, RecipientOf[n]}
  BY DEF AccountsInv, Counted, stored, Ids, Apart
<1> QED
  BY <1>2, <1>3, <1>4 DEF AccountsInv

\* A request is over; whoever the accounts' subjects, roles and addresses are, they stay.
LEMMA RequestOver ==
  ASSUME AccountsInv, NEW w \in Workers, Finish(w),
         cached' = cached \/ cached' = [cached EXCEPT ![w] = {}],
         accounts' \in Seq(AppUser), Len(accounts') = Len(accounts),
         \A i \in Ids : /\ accounts'[i].uid = accounts[i].uid
                        /\ accounts'[i].email = accounts[i].email
                        /\ accounts'[i].role = accounts[i].role
                        /\ accounts'[i].active = accounts[i].active,
         live' = live, uses' \in [Tokens -> Nat], audit' \in Seq(AuditRecord),
         DOMAIN readBy' = Notices,
         \A n \in Notices : readBy'[n] \in {Nobody, RecipientOf[n]},
         Counted'
  PROVE  AccountsInv'
<1>1. /\ job' = [job EXCEPT ![w] = Idle] /\ job'[w] = Idle
      /\ \A v \in Workers \ {w} : /\ job'[v] = job[v] /\ since'[v] = since[v]
                                  /\ cached'[v] = cached[v]
      /\ cached' \in [Workers -> SUBSET Who] /\ DOMAIN since' = Workers
  BY DEF Finish, AccountsInv, Types
<1>2. Types'
  BY <1>1 DEF AccountsInv, Types
<1>3. \A uid : _principal_for(accounts', uid) = _principal_for(accounts, uid)
  <2>1. /\ accounts \in Seq(AppUser) /\ Len(accounts) = Len(accounts')
        /\ \A i \in DOMAIN accounts : /\ accounts'[i].uid = accounts[i].uid
                                     /\ accounts'[i].role = accounts[i].role
                                     /\ accounts'[i].active = accounts[i].active
    BY DEF AccountsInv, Types, Ids
  <2> QED
    BY <2>1, SamePrincipals
<1>4. ASSUME NEW v \in Workers, v # w
      PROVE  Serves(v)'
  <2>1. job[v].pc = "received" => _principal_for(accounts, job[v].req.uid) \subseteq since[v]
    BY DEF AccountsInv, Serves
  <2> QED
    BY <1>1, <1>3, <1>4, <2>1, OtherServes
<1>5. Apart(accounts)'
  <2>1. DOMAIN accounts' = Ids
    <3>1. DOMAIN accounts' = 1 .. Len(accounts') /\ Ids = 1 .. Len(accounts)
      BY DEF AccountsInv, Types, Ids
    <3> QED
      BY <3>1
  <2> QED
    BY <2>1 DEF AccountsInv, Apart, Ids
<1> QED
  BY <1>1, <1>2, <1>4, <1>5, IdleServes DEF AccountsInv

\* In particular when nothing was stored.
LEMMA NothingStored ==
  ASSUME AccountsInv, NEW w \in Workers, Finish(w), UNCHANGED stored,
         cached' = cached \/ cached' = [cached EXCEPT ![w] = {}]
  PROVE  AccountsInv'
<1>1. Counted'
  BY DEF AccountsInv, Counted, stored, Ids
<1> QED
  BY <1>1, RequestOver DEF AccountsInv, Types, stored

\* A row of the access log other than a making or a view counts for nothing.
LEMMA CountsKept ==
  ASSUME AccountsInv, NEW row \in AuditRecord, audit' = Append(audit, row),
         row.action # "account.provision", row.action # "report.view",
         uses' = uses, Ids' = Ids
  PROVE  audit' \in Seq(AuditRecord) /\ Counted'
<1>1. audit \in Seq(AuditRecord) /\ Counted
  BY DEF AccountsInv, Types
<1>2. /\ \A i : Cardinality(Makings(audit', i)) = Cardinality(Makings(audit, i))
      /\ \A t : Cardinality(Views(audit', t)) = Cardinality(Views(audit, t))
  BY <1>1, CountsAfter
<1>3. /\ audit' \in Seq(AuditRecord)
      /\ \A n \in DOMAIN audit' : audit'[n].action = "account.provision" => audit'[n].actor \in Ids
  BY <1>1, Logged DEF Counted
<1> QED
  BY <1>1, <1>2, <1>3 DEF Counted

\* What AuditRow writes is a row of the log.
LEMMA AuditRowType ==
  ASSUME AccountsInv, NEW w \in Workers, job[w].pc # "idle",
         NEW who \in Who, NEW outcome \in {"success", "denied"},
         NEW action \in {"account.provision", "account.provision_noop", "account.update_profile",
                         "report.view", "evidence.view"}
  PROVE  /\ AuditRow(w, action, who, outcome) \in AuditRecord
         /\ AuditRow(w, action, who, outcome).action = action
         /\ AuditRow(w, action, who, outcome).actor = who.user
         /\ AuditRow(w, action, who, outcome).valid = job[w].ok
         /\ job[w].req.op \in Optional
              => AuditRow(w, action, who, outcome).token = job[w].req.token
<1>1. job[w].ok \in BOOLEAN /\ job[w].req.token \in Tokens \cup {NoToken}
      /\ who.user \in Nat \cup {Nobody} /\ who.role \in Roles \cup {"none"}
  BY Busy DEF JobRecord, Request, Who
<1> QED
  BY <1>1 DEF AuditRow, AuditRecord

-----------------------------------------------------------------------------
(* The invariant holds initially                                           *)

LEMMA AccountsInit == Init => AccountsInv
<1> SUFFICES ASSUME Init
             PROVE  AccountsInv
  OBVIOUS
<1>1. Seeded \in Seq(AppUser) /\ accounts = Seeded
  BY AccountAssumptions DEF Init
<1>2. Types
  <2>1. Len(Seeded) \in Nat /\ <<>> \in Seq(AuditRecord)
    BY <1>1
  <2> QED
    BY <1>1, <2>1 DEF Init, Types
<1>3. \A w \in Workers : Serves(w)
  BY DEF Init, Serves, Idle
<1>4. Counted
  <2>1. audit = <<>> /\ DOMAIN audit = {} /\ Ids = DOMAIN Seeded
    BY <1>1 DEF Init, Ids
  <2>2. (\A i : Makings(audit, i) = {}) /\ \A t : Views(audit, t) = {}
    BY <2>1 DEF Makings, Views
  <2>3. Cardinality({}) = 0
    BY FS_EmptySet
  <2> QED
    BY <2>1, <2>2, <2>3 DEF Counted, Init
<1>5. Apart(accounts) /\ \A n \in Notices : readBy[n] \in {Nobody, RecipientOf[n]}
  BY <1>1, AccountAssumptions DEF Apart, Init
<1> QED
  BY <1>2, <1>3, <1>4, <1>5 DEF AccountsInv

-----------------------------------------------------------------------------
(* One lemma for each kind of step                                         *)

LEMMA DroppedKeeps ==
  ASSUME AccountsInv, NEW w \in Workers, Dropped(w)
  PROVE  AccountsInv'
BY NothingStored DEF Dropped

LEMMA CrashKeeps ==
  ASSUME AccountsInv, NEW w \in Workers, Crash(w)
  PROVE  AccountsInv'
BY NothingStored DEF Crash

LEMMA ReceiveKeeps ==
  ASSUME AccountsInv, NEW w \in Workers, NEW r \in Requests, Receive(w, r)
  PROVE  AccountsInv'
<1> DEFINE k == [Idle EXCEPT !.pc = "received", !.req = r]
<1>1. job' = [job EXCEPT ![w] = k] /\ UNCHANGED stored
  BY DEF Receive
<1>2. k \in JobRecord /\ k.pc = "received" /\ k.req = r /\ k.who = Anonymous
  BY DEF Idle, JobRecord, Stages, Who, Anonymous
<1> HIDE DEF k
<1>3. /\ job'[w] = k /\ cached'[w] = {} /\ since'[w] = _principal_for(accounts, r.uid)
      /\ \A v \in Workers \ {w} : cached'[v] = cached[v] /\ since'[v] = since[v]
      /\ cached' \in [Workers -> SUBSET Who] /\ DOMAIN since' = Workers
  BY <1>1 DEF Receive, Reset, AccountsInv, Types
<1>4. Serves(w)'
  BY <1>1, <1>2, <1>3 DEF Serves, stored
<1> QED
  BY <1>1, <1>2, <1>3, <1>4, MovesOn

\* A request moved on to its next stage is still one.
LEMMA Moved ==
  ASSUME NEW j \in JobRecord, NEW stage \in Stages
  PROVE  LET k == [j EXCEPT !.pc = stage]
         IN k \in JobRecord /\ k.pc = stage /\ k.req = j.req /\ k.who = j.who /\ k.ok = j.ok
BY DEF JobRecord

\* A step that only moves the request on, to a stage that relies on nothing new.
LEMMA GoesKeeps ==
  ASSUME AccountsInv, NEW w \in Workers, job[w].pc # "idle",
         NEW pc \in {"act", "unknown", "free"}, Goes(w, pc), UNCHANGED <<stored, cached>>,
         pc \in {"unknown", "free"} => job[w].req.uid \in Uids,
         pc = "free" => Address(job[w].req) \in Emails
  PROVE  AccountsInv'
<1>1. job[w] \in JobRecord /\ Serves(w)
  BY Busy DEF AccountsInv
<1> DEFINE k == [job[w] EXCEPT !.pc = pc]
<1>2. job' = [job EXCEPT ![w] = k] /\ since' = since
  BY DEF Goes
<1>3. k \in JobRecord /\ k.pc = pc /\ k.who = job[w].who /\ k.req = job[w].req
  <2>1. pc \in Stages
    BY DEF Stages
  <2> QED
    BY <1>1, <2>1, Moved
<1> HIDE DEF k
<1>4. job'[w] = k /\ DOMAIN since = Workers /\ cached \in [Workers -> SUBSET Who]
  BY <1>2 DEF AccountsInv, Types
<1>5. Serves(w)'
  BY <1>1, <1>2, <1>3, <1>4 DEF Serves, Address
<1> QED
  BY <1>2, <1>3, <1>4, <1>5, MovesOn

LEMMA GoesAnonymousKeeps ==
  ASSUME AccountsInv, NEW w \in Workers, GoesAnonymous(w)
  PROVE  AccountsInv'
BY GoesKeeps DEF GoesAnonymous, At

LEMMA NoSuchAccountKeeps ==
  ASSUME AccountsInv, NEW w \in Workers, NoSuchAccount(w)
  PROVE  AccountsInv'
<1>1. job[w].req.uid \in Uids
  BY Busy DEF NoSuchAccount, At, Request
<1> QED
  BY <1>1, GoesKeeps DEF NoSuchAccount, At

LEMMA CheckEmailKeeps ==
  ASSUME AccountsInv, NEW w \in Workers, CheckEmail(w)
  PROVE  AccountsInv'
<1>1. job[w].req.uid \in Uids /\ job[w].req \in Request
  BY Busy DEF CheckEmail, At, AccountsInv, Serves
<1>2. Address(job[w].req) \in Emails
  BY <1>1, AccountAssumptions DEF CheckEmail, Address, Request
<1> QED
  BY <1>1, <1>2, GoesKeeps DEF CheckEmail, At

LEMMA AuthenticateKeeps ==
  ASSUME AccountsInv, NEW w \in Workers, Authenticate(w)
  PROVE  AccountsInv'
<1>1. job[w].pc = "received" /\ job[w] \in JobRecord /\ Serves(w) /\ Types /\ UNCHANGED <<stored, since>>
  BY Busy DEF Authenticate, At, AccountsInv
<1>2. PICK p \in Resolved(w) :
        /\ cached' = [cached EXCEPT ![w] = {p}]
        /\ job' = [job EXCEPT ![w].pc = "act", ![w].who = p, ![w].text = accounts[p.user].name]
  BY DEF Authenticate
<1>3. p \in _principal_for(accounts, job[w].req.uid) /\ p \in since[w]
  BY <1>1, <1>2 DEF Resolved, Serves
<1>4. p \in Who /\ p.user \in Ids
  BY <1>1, <1>3, PrincipalsAreSomebody
<1>5. accounts[p.user].name \in Names \cup {NoName}
  BY <1>1, <1>4, Account DEF AppUser
<1> DEFINE text == accounts[p.user].name
           k == [job[w] EXCEPT !.pc = "act", !.who = p, !.text = text]
<1>6. job' = [job EXCEPT ![w] = k]
  BY <1>1, <1>2 DEF Types
<1>7. k \in JobRecord /\ k.pc = "act" /\ k.who = p
  <2> HIDE DEF text
  <2>1. text \in Names \cup {NoName}
    BY <1>5 DEF text
  <2> QED
    BY <1>1, <1>4, <2>1 DEF JobRecord, Stages
<1> HIDE DEF k, text
<1>8. job'[w] = k /\ DOMAIN since' = Workers /\ cached' \in [Workers -> SUBSET Who]
      /\ \A v \in Workers \ {w} : cached'[v] = cached[v] /\ since'[v] = since[v]
  BY <1>1, <1>2, <1>4, <1>6 DEF Types
<1>9. Serves(w)'
  BY <1>1, <1>3, <1>7, <1>8 DEF Serves
<1> QED
  BY <1>1, <1>6, <1>7, <1>8, <1>9, MovesOn

LEMMA ResolveTokenKeeps ==
  ASSUME AccountsInv, NEW w \in Workers, ResolveToken(w)
  PROVE  AccountsInv'
<1>1. job[w].pc = "act" /\ job[w] \in JobRecord /\ Serves(w) /\ Types
      /\ UNCHANGED <<stored, cached, since>>
  BY Busy DEF ResolveToken, At, AccountsInv
<1> DEFINE good == Valid(job[w].req)
           count == IF Valid(job[w].req) THEN uses[job[w].req.token] ELSE 0
           k == [job[w] EXCEPT !.pc = "open", !.ok = good, !.count = count]
<1>2. good \in BOOLEAN /\ count \in Nat /\ (good => job[w].req.token \in Tokens)
  BY <1>1 DEF Valid, Types
<1>3. job' = [job EXCEPT ![w] = k]
  BY <1>1 DEF ResolveToken, Types
<1>4. k \in JobRecord /\ k.pc = "open" /\ k.who = job[w].who /\ k.req = job[w].req /\ k.ok = good
  <2> HIDE DEF good, count
  <2> QED
    BY <1>1, <1>2 DEF JobRecord, Stages
<1> HIDE DEF k, good, count
<1>5. job'[w] = k
  BY <1>1, <1>3 DEF Types
<1>6. Serves(w)'
  BY <1>1, <1>2, <1>4, <1>5 DEF Serves
<1> QED
  BY <1>1, <1>3, <1>4, <1>6, MovesOn DEF Types

LEMMA GetOwnKeeps ==
  ASSUME AccountsInv, NEW w \in Workers, GetOwn(w)
  PROVE  AccountsInv'
<1>1. job[w].pc = "act" /\ job[w] \in JobRecord /\ Serves(w) /\ Types /\ Own(w)
      /\ UNCHANGED <<stored, cached, since>>
  BY Busy DEF GetOwn, At, AccountsInv
<1> DEFINE unread == readBy[job[w].req.notice] = Nobody
           k == [job[w] EXCEPT !.pc = "mark", !.ok = unread]
<1>2. job' = [job EXCEPT ![w] = k]
  BY <1>1 DEF GetOwn, Types
<1>3. k \in JobRecord /\ k.pc = "mark" /\ k.who = job[w].who /\ k.req = job[w].req
  <2>1. unread \in BOOLEAN
    OBVIOUS
  <2> HIDE DEF unread
  <2> QED
    BY <1>1, <2>1 DEF JobRecord, Stages
<1> HIDE DEF k, unread
<1>4. job'[w] = k
  BY <1>1, <1>2 DEF Types
<1>5. Serves(w)'
  BY <1>1, <1>3, <1>4 DEF Serves, Own
<1> QED
  BY <1>1, <1>2, <1>3, <1>5, MovesOn DEF Types

-----------------------------------------------------------------------------
(* Steps that store something                                              *)

LEMMA FindAccountKeeps ==
  ASSUME AccountsInv, NEW w \in Workers, FindAccount(w)
  PROVE  AccountsInv'
<1>1. job[w].pc # "idle" /\ Types /\ Finish(w)
      /\ UNCHANGED <<accounts, live, uses, readBy, cached>>
  BY DEF FindAccount, At, AccountsInv
<1>2. PICK i \in ByUid(job[w].req.uid) :
        Logs(w, "account.provision_noop", PrincipalOf(i, accounts[i]))
  BY DEF FindAccount
<1> DEFINE p == PrincipalOf(i, accounts[i])
           row == AuditRow(w, "account.provision_noop", p, "success")
<1>3. p \in Who
  BY <1>1, PrincipalIsSomebody DEF ByUid
<1>4. audit' = Append(audit, row)
  BY <1>2 DEF Logs
<1> HIDE DEF p
<1>5. row \in AuditRecord /\ row.action = "account.provision_noop"
  BY <1>1, <1>3, AuditRowType
<1> HIDE DEF row
<1>6. audit' \in Seq(AuditRecord) /\ Counted'
  <2>1. Ids' = Ids
    BY <1>1 DEF Ids
  <2> QED
    BY <1>1, <1>4, <1>5, <2>1, CountsKept
<1> QED
  BY <1>1, <1>6, RequestOver DEF AccountsInv, Types

\* Writing a display name leaves everything else of the account as it was.
LEMMA RenamedRows ==
  ASSUME AccountsInv, NEW w \in Workers, job[w].pc # "idle"
  PROVE  /\ Renamed(w) \in Seq(AppUser) /\ Len(Renamed(w)) = Len(accounts)
         /\ DOMAIN Renamed(w) = Ids
         /\ \A i \in Ids : /\ Renamed(w)[i].uid = accounts[i].uid
                           /\ Renamed(w)[i].email = accounts[i].email
                           /\ Renamed(w)[i].role = accounts[i].role
                           /\ Renamed(w)[i].active = accounts[i].active
<1>1. job[w].req.name \in Names \cup {NoName}
  BY Busy DEF Request
<1>2. accounts \in Seq(AppUser) /\ Len(accounts) \in Nat /\ Ids = 1 .. Len(accounts)
      /\ \A i \in Ids : accounts[i] \in AppUser
  BY DEF AccountsInv, Types, Ids
<1> DEFINE new == Renamed(w)
<1>3. /\ DOMAIN new = Ids
      /\ \A i \in Ids : /\ new[i] \in AppUser
                        /\ new[i].uid = accounts[i].uid /\ new[i].email = accounts[i].email
                        /\ new[i].role = accounts[i].role /\ new[i].active = accounts[i].active
  <2> DEFINE name == IF job[w].req.name = job[w].text THEN accounts[job[w].who.user].name
                     ELSE job[w].req.name
  <2>1. new = [accounts EXCEPT ![job[w].who.user].name = name]
    BY DEF Renamed
  <2>2. DOMAIN new = Ids
    BY <2>1 DEF Ids
  <2>3. ASSUME NEW i \in Ids, i # job[w].who.user
        PROVE  new[i] = accounts[i]
    <3> HIDE DEF name, new
    <3> QED
      BY <2>1, <2>3 DEF Ids
  <2>4. ASSUME NEW i \in Ids, i = job[w].who.user
        PROVE  name \in Names \cup {NoName} /\ new[i] = [accounts[i] EXCEPT !.name = name]
    <3>1. name \in Names \cup {NoName}
      BY <1>1, <1>2, <2>4 DEF AppUser
    <3> HIDE DEF name, new
    <3> QED
      BY <2>1, <2>4, <3>1 DEF Ids
  <2> HIDE DEF name, new
  <2>5. ASSUME NEW i \in Ids
        PROVE  /\ new[i] \in AppUser
               /\ new[i].uid = accounts[i].uid /\ new[i].email = accounts[i].email
               /\ new[i].role = accounts[i].role /\ new[i].active = accounts[i].active
    <3>1. CASE i # job[w].who.user
      BY <1>2, <2>3, <3>1
    <3>2. CASE i = job[w].who.user
      <4>1. /\ accounts[i] \in AppUser /\ name \in Names \cup {NoName}
            /\ new[i] = [accounts[i] EXCEPT !.name = name]
        BY <1>2, <2>4, <3>2
      <4> QED
        BY <4>1 DEF AppUser
    <3> QED
      BY <3>1, <3>2
  <2> QED
    BY <2>2, <2>5
<1>4. new \in [1 .. Len(accounts) -> AppUser]
  <2>1. new = [i \in DOMAIN new |-> new[i]]
    BY DEF Renamed
  <2> HIDE DEF new
  <2> QED
    BY <1>2, <1>3, <2>1
<1> HIDE DEF new
<1>5. new \in Seq(AppUser) /\ Len(new) = Len(accounts)
  BY <1>2, <1>4
<1> QED
  BY <1>3, <1>5 DEF new

LEMMA RenameKeeps ==
  ASSUME AccountsInv, NEW w \in Workers, Rename(w)
  PROVE  AccountsInv'
<1>1. job[w].pc # "idle" /\ Types /\ Finish(w) /\ accounts' = Renamed(w)
      /\ UNCHANGED <<live, uses, readBy, cached>>
      /\ Logs(w, "account.update_profile", job[w].who)
  BY DEF Rename, At, AccountsInv
<1> DEFINE row == AuditRow(w, "account.update_profile", job[w].who, "success")
<1>2. audit' = Append(audit, row) /\ row \in AuditRecord /\ row.action = "account.update_profile"
  BY <1>1, Busy, AuditRowType DEF Logs
<1> HIDE DEF row
<1>3. Ids' = Ids
  BY <1>1, RenamedRows DEF Ids
<1>4. audit' \in Seq(AuditRecord) /\ Counted'
  BY <1>1, <1>2, <1>3, CountsKept
<1> QED
  BY <1>1, <1>4, RenamedRows, RequestOver DEF AccountsInv, Types

LEMMA ViewEvidenceKeeps ==
  ASSUME AccountsInv, NEW w \in Workers, ViewEvidence(w)
  PROVE  AccountsInv'
<1>1. job[w].pc # "idle" /\ Types /\ Finish(w)
      /\ UNCHANGED <<accounts, live, uses, readBy, cached>>
  BY DEF ViewEvidence, At, AccountsInv
<1>2. PICK outcome \in {"success", "denied"} :
        audit' = Append(audit, AuditRow(w, "evidence.view", job[w].who, outcome))
  BY DEF ViewEvidence
<1> DEFINE row == AuditRow(w, "evidence.view", job[w].who, outcome)
<1>3. row \in AuditRecord /\ row.action = "evidence.view" /\ audit' = Append(audit, row)
  BY <1>1, <1>2, Busy, AuditRowType
<1> HIDE DEF row
<1>4. audit' \in Seq(AuditRecord) /\ Counted'
  <2>1. Ids' = Ids
    BY <1>1 DEF Ids
  <2> QED
    BY <1>1, <1>3, <2>1, CountsKept
<1> QED
  BY <1>1, <1>4, RequestOver DEF AccountsInv, Types

\* The count and the row are written together, for the token the row names.
LEMMA ViewReportKeeps ==
  ASSUME AccountsInv, NEW w \in Workers, ViewReport(w)
  PROVE  AccountsInv'
<1>1. /\ job[w].pc = "open" /\ job[w].req.op \in Optional /\ Types /\ Finish(w) /\ Serves(w) /\ Counted
      /\ UNCHANGED <<accounts, live, readBy, cached>>
      /\ uses' = IF job[w].ok THEN record_use(w) ELSE uses
      /\ Logs(w, "report.view", job[w].who)
  BY DEF ViewReport, At, AccountsInv, Optional
<1> DEFINE row == AuditRow(w, "report.view", job[w].who, "success")
<1>2. /\ audit' = Append(audit, row) /\ row \in AuditRecord /\ row.action = "report.view"
      /\ row.valid = job[w].ok /\ row.token = job[w].req.token /\ row.valid \in BOOLEAN
  BY <1>1, Busy, AuditRowType DEF Logs, AuditRecord
<1> HIDE DEF row
<1>3. audit' \in Seq(AuditRecord) /\ Ids' = Ids
      /\ \A n \in DOMAIN audit' : audit'[n].action = "account.provision" => audit'[n].actor \in Ids
  BY <1>1, <1>2, Logged DEF Types, Counted, Ids
<1>4. /\ uses' \in [Tokens -> Nat]
      /\ \A t \in Tokens : uses'[t] = IF row.valid /\ row.token = t THEN uses[t] + 1 ELSE uses[t]
  BY <1>1, <1>2 DEF Types, record_use, Serves
<1>5. /\ \A i : Cardinality(Makings(audit', i)) = Cardinality(Makings(audit, i))
      /\ \A t : Cardinality(Views(audit', t))
                  = IF row.token = t /\ row.valid THEN Cardinality(Views(audit, t)) + 1
                    ELSE Cardinality(Views(audit, t))
  BY <1>1, <1>2, CountsAfter DEF Types
<1>6. Counted'
  BY <1>1, <1>3, <1>4, <1>5 DEF Counted
<1> QED
  BY <1>1, <1>3, <1>4, <1>6, RequestOver DEF AccountsInv, Types

LEMMA MarkReadKeeps ==
  ASSUME AccountsInv, NEW w \in Workers, MarkRead(w)
  PROVE  AccountsInv'
<1>1. /\ job[w].pc = "mark" /\ Types /\ Finish(w) /\ Serves(w)
      /\ UNCHANGED <<accounts, live, uses, audit, cached>>
      /\ readBy' = [readBy EXCEPT ![job[w].req.notice] = IF job[w].ok THEN job[w].who.user ELSE @]
  BY DEF MarkRead, At, AccountsInv
<1>2. RecipientOf[job[w].req.notice] = job[w].who.user
  BY <1>1 DEF Serves, Own
<1>3. DOMAIN readBy' = Notices /\ \A n \in Notices : readBy'[n] \in {Nobody, RecipientOf[n]}
  BY <1>1, <1>2 DEF AccountsInv, Types
<1>4. Counted'
  BY <1>1 DEF AccountsInv, Counted, Ids
<1> QED
  BY <1>1, <1>3, <1>4, RequestOver DEF AccountsInv, Types

\* The accounts change under requests in flight, and the history takes note.
LEMMA Watching ==
  ASSUME AccountsInv, NEW v \in Workers, job'[v] = job[v], cached'[v] = cached[v],
         since'[v] = Watched(accounts')[v]
  PROVE  Serves(v)'
<1>1. since'[v] = IF job[v].pc = "idle" THEN {}
                  ELSE since[v] \cup _principal_for(accounts', job[v].req.uid)
  BY DEF Watched
<1>2. CASE job[v].pc = "idle"
  <2>1. job'[v] = Idle
    BY <1>2, IdleIsNoRecord DEF AccountsInv, Types
  <2> QED
    BY <2>1, IdleServes
<1>3. CASE job[v].pc # "idle"
  BY <1>1, <1>3, OtherServes
<1> QED
  BY <1>2, <1>3

\* A new account comes with the one row of the log that makes it.
LEMMA ProvisionKeeps ==
  ASSUME AccountsInv, NEW w \in Workers, Provision(w)
  PROVE  AccountsInv'
<1> DEFINE r == job[w].req
           row == [uid |-> r.uid, email |-> Address(r), role |-> "student", active |-> TRUE,
                   name |-> NoName]
           new == Len(accounts) + 1
           p == PrincipalOf(new, row)
           entry == AuditRow(w, "account.provision", p, "success")
<1>1. /\ job[w].pc = "free" /\ Types /\ Serves(w) /\ Counted /\ Apart(accounts)
      /\ Unique(accounts, row.uid, row.email) /\ accounts' = Append(accounts, row)
      /\ audit' = Append(audit, entry)
      /\ since' = [Watched(accounts') EXCEPT ![w] = {}] /\ job' = [job EXCEPT ![w] = Idle]
      /\ UNCHANGED <<live, uses, readBy, cached>>
  BY DEF Provision, At, AccountsInv, Logs
<1>2. row \in AppUser
  BY <1>1 DEF Serves, AppUser, Roles
<1>3. /\ Len(accounts) \in Nat /\ Ids = 1 .. Len(accounts) /\ accounts' \in Seq(AppUser)
      /\ Len(accounts') = new /\ Ids' = Ids \cup {new} /\ new \notin Ids
      /\ accounts'[new] = row /\ \A i \in Ids : accounts'[i] = accounts[i]
  <2>1. accounts \in Seq(AppUser) /\ Len(accounts) \in Nat /\ Ids = 1 .. Len(accounts)
    BY <1>1 DEF Types, Ids
  <2> HIDE DEF row
  <2>2. /\ Append(accounts, row) \in Seq(AppUser)
        /\ Len(Append(accounts, row)) = Len(accounts) + 1
        /\ DOMAIN Append(accounts, row) = 1 .. (Len(accounts) + 1)
        /\ Append(accounts, row)[Len(accounts) + 1] = row
        /\ \A i \in 1 .. Len(accounts) : Append(accounts, row)[i] = accounts[i]
    BY <1>2, <2>1, AppendProperties
  <2>3. Ids' = 1 .. (Len(accounts) + 1)
    BY <1>1, <2>2 DEF Ids
  <2> QED
    BY <1>1, <2>1, <2>2, <2>3
<1>4. p \in Who /\ p.user = new
  BY <1>3 DEF PrincipalOf, Who, Roles
<1> HIDE DEF p, row
<1>5. entry \in AuditRecord /\ entry.action = "account.provision" /\ entry.actor = new
  BY <1>1, <1>4, AuditRowType
<1> HIDE DEF entry
<1>6. Types'
  <2>1. DOMAIN since' = Workers /\ job' \in [Workers -> {Idle} \cup JobRecord]
    BY <1>1 DEF Types, Watched
  <2>2. audit' \in Seq(AuditRecord)
    BY <1>1, <1>5, Logged DEF Types
  <2>3. Len(Seeded) <= Len(accounts')
    <3>1. Len(Seeded) \in Nat
      BY AccountAssumptions
    <3> QED
      BY <1>1, <1>3, <3>1 DEF Types
  <2> QED
    BY <1>1, <1>3, <2>1, <2>2, <2>3 DEF Types
<1>7. ASSUME NEW v \in Workers
      PROVE  Serves(v)'
  <2>1. CASE v = w
    BY <1>1, <2>1, IdleServes DEF Types
  <2>2. CASE v # w
    <3>1. job'[v] = job[v] /\ cached'[v] = cached[v] /\ since'[v] = Watched(accounts')[v]
      BY <1>1, <2>2 DEF Types
    <3> QED
      BY <3>1, Watching
  <2> QED
    BY <2>1, <2>2
<1>8. Apart(accounts)'
  <2>1. \A i \in Ids : accounts[i].uid # row.uid /\ Lower[accounts[i].email] # Lower[row.email]
    BY <1>1 DEF Unique, Ids
  <2> QED
    BY <1>1, <1>3, <2>1 DEF Apart, Ids
<1>9. Counted'
  <2>1. /\ \A i : Cardinality(Makings(audit', i))
                    = IF new = i THEN Cardinality(Makings(audit, i)) + 1
                      ELSE Cardinality(Makings(audit, i))
        /\ \A t : Cardinality(Views(audit', t)) = Cardinality(Views(audit, t))
    BY <1>1, <1>5, CountsAfter DEF Types
  <2>2. Makings(audit, new) = {}
    BY <1>1, <1>3 DEF Makings, Counted
  <2>3. Cardinality(Makings(audit', new)) = 1
    <3>1. Cardinality(Makings(audit, new)) = 0
      BY <2>2, FS_EmptySet
    <3> HIDE DEF new
    <3>2. Cardinality(Makings(audit', new)) = Cardinality(Makings(audit, new)) + 1
      BY <2>1
    <3> QED
      BY <3>1, <3>2
  <2>4. new \notin DOMAIN Seeded /\ DOMAIN Seeded \subseteq Ids
    <3>1. Len(Seeded) \in Nat /\ DOMAIN Seeded = 1 .. Len(Seeded)
      BY AccountAssumptions
    <3> QED
      BY <1>1, <1>3, <3>1 DEF Types
  <2>5. \A n \in DOMAIN audit' : audit'[n].action = "account.provision" => audit'[n].actor \in Ids'
    BY <1>1, <1>3, <1>5, Logged DEF Types, Counted
  <2>6. \A i \in Ids' : Cardinality(Makings(audit', i)) = IF i \in DOMAIN Seeded THEN 0 ELSE 1
    BY <1>1, <1>3, <2>1, <2>3, <2>4 DEF Counted
  <2> QED
    BY <1>1, <2>1, <2>5, <2>6 DEF Counted
<1>10. \A n \in Notices : readBy'[n] \in {Nobody, RecipientOf[n]}
  BY <1>1 DEF AccountsInv
<1> QED
  BY <1>6, <1>7, <1>8, <1>9, <1>10 DEF AccountsInv

LEMMA OperatorKeeps ==
  ASSUME AccountsInv, NEW i \in Ids, NEW role \in Roles, NEW active \in BOOLEAN,
         Operator(i, role, active)
  PROVE  AccountsInv'
<1>1. /\ Types /\ since' = Watched(accounts')
      /\ accounts' = [accounts EXCEPT ![i].role = role, ![i].active = active,
                                      ![i].name = IF role = "student" THEN NoName ELSE @]
      /\ UNCHANGED <<live, uses, readBy, audit, cached, job>>
  BY DEF Operator, AccountsInv
<1>2. /\ Len(accounts) \in Nat /\ Ids = 1 .. Len(accounts)
      /\ \A n \in Ids : accounts[n] \in AppUser
  BY <1>1 DEF Types, Ids
<1> DEFINE name == IF role = "student" THEN NoName ELSE accounts[i].name
           row == [accounts[i] EXCEPT !.role = role, !.active = active, !.name = name]
<1>3. name \in Names \cup {NoName}
  BY <1>2 DEF AppUser
<1>4. accounts' = [accounts EXCEPT ![i] = row]
  BY <1>1 DEF Types
<1>5. row \in AppUser /\ row.uid = accounts[i].uid /\ row.email = accounts[i].email
  <2> HIDE DEF name
  <2> QED
    BY <1>2, <1>3 DEF AppUser
<1> HIDE DEF row, name
<1>6. accounts' \in Seq(AppUser) /\ Len(accounts') = Len(accounts) /\ Ids' = Ids
      /\ \A n \in Ids : /\ accounts'[n].uid = accounts[n].uid
                        /\ accounts'[n].email = accounts[n].email
  <2>1. accounts' \in Seq(AppUser) /\ Len(accounts') = Len(accounts)
    <3>1. accounts' \in [1 .. Len(accounts) -> AppUser]
      BY <1>1, <1>2, <1>4, <1>5 DEF Types, Ids
    <3> QED
      BY <1>2, <3>1
  <2>2. DOMAIN accounts' = DOMAIN accounts
    BY <1>4
  <2>3. \A n \in Ids : accounts'[n] = IF n = i THEN row ELSE accounts[n]
    BY <1>4 DEF Ids
  <2> QED
    BY <1>5, <2>1, <2>2, <2>3 DEF Ids
<1>7. Types'
  <2>1. DOMAIN since' = Workers
    BY <1>1 DEF Watched
  <2> QED
    BY <1>1, <1>6, <2>1 DEF Types
<1>8. \A v \in Workers : Serves(v)'
  BY <1>1, Watching
<1>9. Apart(accounts)' /\ Counted'
  BY <1>1, <1>6 DEF AccountsInv, Apart, Counted, Ids
<1>10. \A n \in Notices : readBy'[n] \in {Nobody, RecipientOf[n]}
  BY <1>1 DEF AccountsInv
<1> QED
  BY <1>7, <1>8, <1>9, <1>10 DEF AccountsInv

LEMMA TokenLapsesKeeps ==
  ASSUME AccountsInv, NEW t \in Tokens, TokenLapses(t)
  PROVE  AccountsInv'
<1>1. UNCHANGED <<accounts, uses, readBy, audit, cached, job, since>> /\ live' \subseteq live
  BY DEF TokenLapses
<1>2. Types'
  BY <1>1 DEF AccountsInv, Types
<1>3. \A w \in Workers : Serves(w)'
  BY <1>1 DEF AccountsInv, Serves, Own, Address
<1>4. Apart(accounts)' /\ Counted'
  BY <1>1 DEF AccountsInv, Apart, Counted, Ids
<1> QED
  BY <1>1, <1>2, <1>3, <1>4 DEF AccountsInv

-----------------------------------------------------------------------------
(* Every step, and the theorems                                            *)

LEMMA StutterKeeps ==
  ASSUME AccountsInv, UNCHANGED vars
  PROVE  AccountsInv'
<1>1. UNCHANGED <<accounts, live, uses, readBy, audit, cached, job, since>>
  BY DEF vars
<1>2. Types'
  BY <1>1 DEF AccountsInv, Types
<1>3. \A w \in Workers : Serves(w)'
  BY <1>1 DEF AccountsInv, Serves, Own, Address
<1>4. Apart(accounts)' /\ Counted'
  BY <1>1 DEF AccountsInv, Apart, Counted, Ids
<1> QED
  BY <1>1, <1>2, <1>3, <1>4 DEF AccountsInv

LEMMA AccountsStep == AccountsInv /\ [Next]_vars => AccountsInv'
<1> SUFFICES ASSUME AccountsInv, [Next]_vars
             PROVE  AccountsInv'
  OBVIOUS
<1>1. ASSUME NEW w \in Workers,
             \/ \E r \in Requests : Receive(w, r)
             \/ RefuseCredential(w) \/ Authenticate(w) \/ NoAccount(w) \/ GoesAnonymous(w)
             \/ FindAccount(w) \/ Deactivated(w) \/ NoSuchAccount(w) \/ CheckEmail(w)
             \/ RefuseEmail(w) \/ Provision(w) \/ DuplicateAccount(w)
             \/ Me(w) \/ Rename(w) \/ RefuseRename(w)
             \/ ResolveToken(w) \/ ViewReport(w) \/ RefuseReport(w) \/ ViewEvidence(w)
             \/ GetOwn(w) \/ NotOwn(w) \/ MarkRead(w) \/ Crash(w)
      PROVE  AccountsInv'
  <2>1. CASE \E r \in Requests : Receive(w, r)
    BY <2>1, ReceiveKeeps
  <2>2. CASE \/ RefuseCredential(w) \/ NoAccount(w) \/ Deactivated(w) \/ RefuseEmail(w)
             \/ DuplicateAccount(w) \/ Me(w) \/ RefuseRename(w) \/ RefuseReport(w) \/ NotOwn(w)
    <3>1. Dropped(w)
      BY <2>2 DEF RefuseCredential, NoAccount, Deactivated, RefuseEmail, DuplicateAccount, Me,
                  RefuseRename, RefuseReport, NotOwn
    <3> QED
      BY <3>1, DroppedKeeps
  <2>3. CASE Authenticate(w) \/ GoesAnonymous(w) \/ NoSuchAccount(w) \/ CheckEmail(w)
             \/ ResolveToken(w) \/ GetOwn(w)
    BY <2>3, AuthenticateKeeps, GoesAnonymousKeeps, NoSuchAccountKeeps, CheckEmailKeeps,
       ResolveTokenKeeps, GetOwnKeeps
  <2>4. CASE FindAccount(w) \/ Provision(w) \/ Rename(w) \/ ViewReport(w) \/ ViewEvidence(w)
             \/ MarkRead(w) \/ Crash(w)
    BY <2>4, FindAccountKeeps, ProvisionKeeps, RenameKeeps, ViewReportKeeps, ViewEvidenceKeeps,
       MarkReadKeeps, CrashKeeps
  <2> QED
    BY <1>1, <2>1, <2>2, <2>3, <2>4
<1>2. ASSUME NEW i \in Ids, NEW role \in Roles, NEW active \in BOOLEAN, Operator(i, role, active)
      PROVE  AccountsInv'
  BY <1>2, OperatorKeeps
<1>3. ASSUME NEW t \in Tokens, TokenLapses(t)
      PROVE  AccountsInv'
  BY <1>3, TokenLapsesKeeps
<1>4. CASE UNCHANGED vars
  BY <1>4, StutterKeeps
<1> QED
  BY <1>1, <1>2, <1>3, <1>4 DEF Next

\* The invariant holds of every reachable state.
THEOREM AccountsInvariant == Spec => []AccountsInv
BY AccountsInit, AccountsStep, PTL DEF Spec

\* However many registrations race, no subject and no address has two accounts, and
\* every account that was not made out of band has exactly one row that makes it.
THEOREM OneAccountEach == Spec => []OneAccountPerIdentity
<1>1. AccountsInv => OneAccountPerIdentity
  BY DEF AccountsInv, Apart, Counted, Makings, OneAccountPerIdentity, Ids
<1> QED
  BY <1>1, AccountsInvariant, PTL

\* A request acts for its own credential's account, with a role that account had
\* while the request was served; a notification is marked by its recipient.
THEOREM EveryRequestActsAsItself == Spec => []ActsAsItself
<1>1. AccountsInv => ActsAsItself
  BY DEF AccountsInv, Serves, ActsAsItself
<1> QED
  BY <1>1, AccountsInvariant, PTL

\* The use_count of a token is the number of logged views its holders were answered.
THEOREM EveryUseIsCounted == Spec => []UsesCounted
<1>1. AccountsInv => UsesCounted
  BY DEF AccountsInv, Counted, Views, UsesCounted
<1> QED
  BY <1>1, AccountsInvariant, PTL

-----------------------------------------------------------------------------
(* Types, and names                                                        *)

\* The requests in flight.
Serving == {w \in Workers : job[w].pc # "idle"}

\* Every request makes at most one account and counts at most one use, as it ends.
Budget ==
  /\ taken \in 0 .. MaxRequests
  /\ IsFiniteSet(Serving)
  /\ \A t \in Tokens : uses[t] + Cardinality(Serving) <= taken
  /\ Len(accounts) + Cardinality(Serving) <= Len(Seeded) + taken

Named == \A i \in Ids : StudentNameless(accounts[i])
Remembered == \A w \in Workers : \A p \in cached[w] : p.role \in Roles /\ p.user \in Ids
Marked == readBy = [n \in Notices |-> readBy[n]]

TypeInv == AccountsInv /\ Budget /\ Named /\ Remembered /\ Marked

LEMMA TypeInit == Init => TypeInv
<1> SUFFICES ASSUME Init
             PROVE  TypeInv
  OBVIOUS
<1>1. AccountsInv /\ Types
  BY AccountsInit DEF AccountsInv
<1>2. Seeded \in Seq(AppUser) /\ Len(Seeded) \in Nat /\ MaxRequests \in Nat /\ accounts = Seeded
  BY AccountAssumptions DEF Init
<1>3. Serving = {} /\ IsFiniteSet({}) /\ Cardinality({}) = 0
  BY FS_EmptySet DEF Serving, Init, Idle
<1>4. Budget
  BY <1>2, <1>3 DEF Budget, Init
<1>5. Named /\ Remembered /\ Marked
  BY <1>2, AccountAssumptions DEF Named, Ids, StudentNameless, Remembered, Marked, Init
<1> QED
  BY <1>1, <1>4, <1>5 DEF TypeInv

\* A request that is over leaves room for the account or the use it stored.
LEMMA BudgetAfter ==
  ASSUME TypeInv, NEW w \in Workers, job[w].pc # "idle", job' = [job EXCEPT ![w] = Idle],
         taken' = taken, uses' \in [Tokens -> Nat],
         \A t \in Tokens : uses'[t] \in {uses[t], uses[t] + 1},
         Len(accounts') \in {Len(accounts), Len(accounts) + 1}
  PROVE  Budget'
<1>1. /\ Budget /\ uses \in [Tokens -> Nat] /\ Len(accounts) \in Nat /\ Len(Seeded) \in Nat
      /\ MaxRequests \in Nat /\ IsFiniteSet(Serving)
  BY AccountAssumptions DEF TypeInv, AccountsInv, Types, Budget
<1>2. Serving' = Serving \ {w} /\ w \in Serving
  BY DEF Serving, Idle, TypeInv, AccountsInv, Types
<1>3. /\ IsFiniteSet(Serving \ {w}) /\ Cardinality(Serving \ {w}) = Cardinality(Serving) - 1
      /\ Cardinality(Serving) \in Nat
  BY <1>1, <1>2, FS_RemoveElement, FS_CardinalityType
<1>4. PICK n \in Nat : n = Cardinality(Serving)
  BY <1>3
<1>5. IsFiniteSet(Serving') /\ Cardinality(Serving') = n - 1
  BY <1>2, <1>3, <1>4
<1>6. PICK s \in Nat : s = Len(Seeded)
  BY <1>1
<1>7. /\ taken \in 0 .. MaxRequests /\ \A t \in Tokens : uses[t] + n <= taken
      /\ Len(accounts) + n <= s + taken
  BY <1>1, <1>4, <1>6 DEF Budget
<1>8. ASSUME NEW t \in Tokens
      PROVE  uses'[t] + (n - 1) <= taken'
  <2>1. PICK k \in Nat : k = uses[t]
    BY <1>1
  <2>2. uses'[t] \in {k, k + 1} /\ k + n <= taken /\ taken \in Int
    BY <1>7, <2>1
  <2> QED
    BY <2>2
<1>9. Len(accounts') + (n - 1) <= s + taken'
  BY <1>1, <1>7
<1>10. taken' \in 0 .. MaxRequests
  BY <1>7
<1> QED
  BY <1>5, <1>6, <1>8, <1>9, <1>10 DEF Budget

\* One that goes on is still in flight.
LEMMA BudgetKept ==
  ASSUME TypeInv, Serving' = Serving,
         UNCHANGED <<taken, uses>>, Len(accounts') = Len(accounts)
  PROVE  Budget'
BY DEF TypeInv, Budget

LEMMA StillServing ==
  ASSUME TypeInv, NEW w \in Workers, job[w].pc # "idle", job'[w].pc # "idle",
         \A v \in Workers \ {w} : job'[v] = job[v]
  PROVE  Serving' = Serving
BY DEF Serving

\* Steps that leave the accounts and the notifications alone.
LEMMA TidyKept ==
  ASSUME TypeInv, UNCHANGED <<accounts, readBy>>,
         \A v \in Workers : \A p \in cached'[v] : p \in cached[v]
  PROVE  Named' /\ Remembered' /\ Marked'
BY DEF TypeInv, Named, Remembered, Marked, Ids

LEMMA DroppedTypes ==
  ASSUME TypeInv, NEW w \in Workers, job[w].pc # "idle", Finish(w),
         UNCHANGED <<stored, taken>>,
         cached' = cached \/ cached' = [cached EXCEPT ![w] = {}]
  PROVE  Budget' /\ Named' /\ Remembered' /\ Marked'
<1>1. uses \in [Tokens -> Nat] /\ Len(accounts) \in Nat
      /\ cached \in [Workers -> SUBSET Who]
  BY DEF TypeInv, AccountsInv, Types
<1>2. Budget'
  BY <1>1, BudgetAfter DEF Finish, stored
<1>3. \A v \in Workers : \A p \in cached'[v] : p \in cached[v]
  BY <1>1
<1> QED
  BY <1>2, <1>3, TidyKept DEF stored

LEMMA ReceiveTypes ==
  ASSUME TypeInv, NEW w \in Workers, NEW r \in Requests, Receive(w, r)
  PROVE  Budget' /\ Named' /\ Remembered' /\ Marked'
<1>1. /\ uses \in [Tokens -> Nat] /\ Len(accounts) \in Nat /\ Len(Seeded) \in Nat
      /\ MaxRequests \in Nat /\ Budget /\ cached \in [Workers -> SUBSET Who]
      /\ job \in [Workers -> {Idle} \cup JobRecord]
  BY AccountAssumptions DEF TypeInv, AccountsInv, Types
<1>2. /\ taken < MaxRequests /\ taken' = taken + 1 /\ UNCHANGED stored
      /\ job[w].pc = "idle" /\ cached' = [cached EXCEPT ![w] = {}]
      /\ job'[w].pc # "idle" /\ \A v \in Workers \ {w} : job'[v] = job[v]
  BY <1>1 DEF Receive, Reset, Idle
<1>3. Serving' = Serving \cup {w} /\ w \notin Serving /\ IsFiniteSet(Serving)
  BY <1>1, <1>2 DEF Serving, Budget
<1>4. /\ IsFiniteSet(Serving') /\ Cardinality(Serving') = Cardinality(Serving) + 1
      /\ Cardinality(Serving) \in Nat
  BY <1>3, FS_AddElement, FS_CardinalityType
<1>5. Budget'
  BY <1>1, <1>2, <1>4 DEF Budget, stored
<1>6. \A v \in Workers : \A p \in cached'[v] : p \in cached[v]
  BY <1>1, <1>2
<1> QED
  BY <1>2, <1>5, <1>6, TidyKept DEF stored

\* The principal a request resolves is one of the accounts.
LEMMA AuthenticateTypes ==
  ASSUME TypeInv, NEW w \in Workers, Authenticate(w)
  PROVE  Budget' /\ Named' /\ Remembered' /\ Marked'
<1>1. /\ Types /\ cached \in [Workers -> SUBSET Who] /\ Serves(w) /\ Remembered
      /\ job \in [Workers -> {Idle} \cup JobRecord]
  BY DEF TypeInv, AccountsInv, Types
<1>2. job[w].pc = "received" /\ UNCHANGED <<stored, taken>>
  BY DEF Authenticate, At, bounds
<1>3. PICK p \in Resolved(w) :
        /\ cached' = [cached EXCEPT ![w] = {p}]
        /\ job' = [job EXCEPT ![w].pc = "act", ![w].who = p, ![w].text = accounts[p.user].name]
  BY DEF Authenticate
<1>4. PICK i \in Ids : p = PrincipalOf(i, accounts[i])
  <2>1. p \in _principal_for(accounts, job[w].req.uid)
    BY <1>1, <1>2, <1>3 DEF Resolved, Serves
  <2> QED
    BY <2>1 DEF _principal_for, Ids
<1>5. p.role \in Roles /\ p.user \in Ids
  BY <1>1, <1>4, Account DEF PrincipalOf, AppUser
<1>6. Remembered'
  BY <1>1, <1>2, <1>3, <1>5 DEF Remembered, Ids, stored
<1>7. Serving' = Serving
  <2>1. job[w].pc # "idle" /\ \A v \in Workers \ {w} : job'[v] = job[v]
    BY <1>1, <1>2, <1>3
  <2>2. job'[w].pc # "idle"
    <3>1. job[w] \in JobRecord
      BY <1>1, <1>2 DEF Idle
    <3> DEFINE text == accounts[p.user].name
    <3>2. job' = [job EXCEPT ![w] = [job[w] EXCEPT !.pc = "act", !.who = p, !.text = text]]
      BY <1>1, <1>3
    <3> HIDE DEF text
    <3> QED
      BY <1>1, <3>1, <3>2 DEF JobRecord
  <2> QED
    BY <2>1, <2>2, StillServing
<1>8. Budget'
  BY <1>2, <1>7, BudgetKept DEF stored
<1>9. Named' /\ Marked'
  BY <1>2 DEF TypeInv, Named, Marked, Ids, stored
<1> QED
  BY <1>6, <1>8, <1>9

LEMMA MovesTypes ==
  ASSUME TypeInv, NEW w \in Workers,
         GoesAnonymous(w) \/ NoSuchAccount(w) \/ CheckEmail(w) \/ ResolveToken(w) \/ GetOwn(w)
  PROVE  Budget' /\ Named' /\ Remembered' /\ Marked'
<1>1. job[w].pc # "idle" /\ UNCHANGED <<stored, cached, taken>>
  BY DEF GoesAnonymous, NoSuchAccount, CheckEmail, ResolveToken, GetOwn, At, bounds
<1>2. job[w] \in JobRecord /\ job \in [Workers -> {Idle} \cup JobRecord]
  BY <1>1, Busy DEF TypeInv, AccountsInv, Types
<1>3. job'[w].pc # "idle" /\ \A v \in Workers \ {w} : job'[v] = job[v]
  <2>1. CASE GoesAnonymous(w) \/ NoSuchAccount(w) \/ CheckEmail(w)
    <3>1. PICK pc \in Stages : job' = [job EXCEPT ![w].pc = pc]
      BY <2>1 DEF GoesAnonymous, NoSuchAccount, CheckEmail, Goes, Stages
    <3> QED
      BY <1>2, <3>1 DEF JobRecord, Stages
  <2>2. CASE ResolveToken(w)
    <3>1. PICK good, n : job' = [job EXCEPT ![w].pc = "open", ![w].ok = good, ![w].count = n]
      BY <2>2 DEF ResolveToken
    <3> QED
      BY <1>2, <3>1 DEF JobRecord
  <2>3. CASE GetOwn(w)
    <3>1. PICK unread : job' = [job EXCEPT ![w].pc = "mark", ![w].ok = unread]
      BY <2>3 DEF GetOwn
    <3> QED
      BY <1>2, <3>1 DEF JobRecord
  <2> QED
    BY <2>1, <2>2, <2>3
<1>4. Serving' = Serving
  BY <1>1, <1>3, StillServing
<1>5. \A v \in Workers : \A p \in cached'[v] : p \in cached[v]
  BY <1>1
<1> QED
  BY <1>1, <1>4, <1>5, BudgetKept, TidyKept DEF stored

\* A row of the access log, or the use of a token, and nothing else of note.
LEMMA AnsweredTypes ==
  ASSUME TypeInv, NEW w \in Workers, FindAccount(w) \/ ViewReport(w) \/ ViewEvidence(w)
  PROVE  Budget' /\ Named' /\ Remembered' /\ Marked'
<1>1. /\ job[w].pc # "idle" /\ job' = [job EXCEPT ![w] = Idle]
      /\ UNCHANGED <<accounts, readBy, cached, taken>>
      /\ uses' = uses \/ uses' = record_use(w)
  BY DEF FindAccount, ViewReport, ViewEvidence, At, Finish, bounds
<1>2. uses \in [Tokens -> Nat] /\ Len(accounts) \in Nat
  BY DEF TypeInv, AccountsInv, Types
<1>3. uses' \in [Tokens -> Nat] /\ \A t \in Tokens : uses'[t] \in {uses[t], uses[t] + 1}
  BY <1>1, <1>2 DEF record_use
<1>4. Budget'
  BY <1>1, <1>2, <1>3, BudgetAfter
<1> QED
  BY <1>1, <1>4, TidyKept

LEMMA MarkReadTypes ==
  ASSUME TypeInv, NEW w \in Workers, MarkRead(w)
  PROVE  Budget' /\ Named' /\ Remembered' /\ Marked'
<1>1. /\ job[w].pc # "idle" /\ job' = [job EXCEPT ![w] = Idle]
      /\ UNCHANGED <<accounts, uses, cached, taken>>
      /\ readBy' = [readBy EXCEPT ![job[w].req.notice] = IF job[w].ok THEN job[w].who.user ELSE @]
  BY DEF MarkRead, At, Finish, bounds
<1>2. uses \in [Tokens -> Nat] /\ Len(accounts) \in Nat
  BY DEF TypeInv, AccountsInv, Types
<1>3. Budget'
  BY <1>1, <1>2, BudgetAfter
<1>4. Marked'
  BY <1>1 DEF TypeInv, Marked
<1> QED
  BY <1>1, <1>3, <1>4 DEF TypeInv, Named, Remembered, Ids

\* A new account is a student's, and has no name.
LEMMA ProvisionTypes ==
  ASSUME TypeInv, NEW w \in Workers, Provision(w)
  PROVE  Budget' /\ Named' /\ Remembered' /\ Marked'
<1>1. /\ job[w].pc # "idle" /\ job' = [job EXCEPT ![w] = Idle]
      /\ UNCHANGED <<uses, readBy, cached, taken>> /\ Types
  BY DEF Provision, At, bounds, TypeInv, AccountsInv
<1>2. PICK row : accounts' = Append(accounts, row) /\ row.name = NoName
  BY DEF Provision
<1>3. /\ accounts \in Seq(AppUser) /\ Len(accounts) \in Nat /\ Ids = 1 .. Len(accounts)
      /\ uses \in [Tokens -> Nat]
  BY <1>1 DEF Types, Ids
<1>4. /\ Len(accounts') = Len(accounts) + 1 /\ Ids' = 1 .. (Len(accounts) + 1)
      /\ \A i \in Ids' : accounts'[i] = IF i = Len(accounts) + 1 THEN row ELSE accounts[i]
  BY <1>2, <1>3 DEF Ids
<1>5. Budget'
  BY <1>1, <1>3, <1>4, BudgetAfter
<1>6. Named'
  BY <1>2, <1>3, <1>4 DEF TypeInv, Named, StudentNameless
<1>7. Remembered' /\ Marked'
  BY <1>1, <1>3, <1>4 DEF TypeInv, Remembered, Marked
<1> QED
  BY <1>5, <1>6, <1>7

\* The constraint lets no name be written to an account that has become a student's.
LEMMA RenameTypes ==
  ASSUME TypeInv, NEW w \in Workers, Rename(w)
  PROVE  Budget' /\ Named' /\ Remembered' /\ Marked'
<1>1. /\ job[w].pc # "idle" /\ job' = [job EXCEPT ![w] = Idle] /\ accounts' = Renamed(w)
      /\ StudentNameless(Renamed(w)[job[w].who.user])
      /\ UNCHANGED <<uses, readBy, cached, taken>> /\ AccountsInv /\ Named
  BY DEF Rename, At, Finish, bounds, StudentHasNoName, TypeInv
<1>2. Len(accounts') = Len(accounts) /\ Ids' = Ids
  BY <1>1, RenamedRows DEF Ids
<1>3. Len(accounts) \in Nat /\ uses \in [Tokens -> Nat]
  BY <1>1 DEF AccountsInv, Types
<1>4. Budget'
  BY <1>1, <1>2, <1>3, BudgetAfter
<1>5. \A i \in Ids : i # job[w].who.user => accounts'[i] = accounts[i]
  <2>1. PICK name : accounts' = [accounts EXCEPT ![job[w].who.user].name = name]
    BY <1>1 DEF Renamed
  <2> QED
    BY <2>1 DEF Ids
<1>6. Named'
  BY <1>1, <1>2, <1>5 DEF Named
<1> QED
  BY <1>1, <1>2, <1>4, <1>6 DEF TypeInv, Remembered, Marked

\* A demotion to student takes the name away.
LEMMA OperatorTypes ==
  ASSUME TypeInv, NEW i \in Ids, NEW role \in Roles, NEW active \in BOOLEAN,
         Operator(i, role, active)
  PROVE  Budget' /\ Named' /\ Remembered' /\ Marked'
<1>1. /\ Types /\ UNCHANGED <<uses, readBy, cached, job, taken>> /\ Named
      /\ accounts' = [accounts EXCEPT ![i].role = role, ![i].active = active,
                                      ![i].name = IF role = "student" THEN NoName ELSE @]
  BY DEF Operator, TypeInv, AccountsInv
<1>2. /\ Len(accounts) \in Nat /\ Ids = 1 .. Len(accounts) /\ accounts[i] \in AppUser
  BY <1>1 DEF Types, Ids
<1>3. PICK name : /\ accounts' = [accounts EXCEPT ![i].role = role, ![i].active = active,
                                                  ![i].name = name]
                  /\ role = "student" => name = NoName
  BY <1>1
<1>4. /\ DOMAIN accounts' = Ids
      /\ \A n \in Ids : n # i => accounts'[n] = accounts[n]
      /\ accounts'[i].role = role /\ accounts'[i].name = name
  <2> DEFINE row == [accounts[i] EXCEPT !.role = role, !.active = active, !.name = name]
  <2>1. accounts' = [accounts EXCEPT ![i] = row]
    BY <1>1, <1>3 DEF Types
  <2>2. row.role = role /\ row.name = name
    BY <1>2 DEF AppUser
  <2> HIDE DEF row
  <2> QED
    BY <2>1, <2>2 DEF Ids
<1>5. Len(accounts') = Len(accounts)
  BY <1>2, <1>4, OperatorKeeps DEF TypeInv, AccountsInv, Types, Ids
<1>6. Serving' = Serving
  BY <1>1 DEF Serving
<1>7. Budget'
  BY <1>1, <1>5, <1>6, BudgetKept
<1>8. Named'
  BY <1>1, <1>3, <1>4 DEF Named, Ids, StudentNameless
<1> QED
  BY <1>1, <1>4, <1>7, <1>8 DEF TypeInv, Remembered, Marked, Ids

LEMMA QuietTypes ==
  ASSUME TypeInv, (\E t \in Tokens : TokenLapses(t)) \/ UNCHANGED vars
  PROVE  Budget' /\ Named' /\ Remembered' /\ Marked'
<1>1. UNCHANGED <<accounts, uses, readBy, cached, job, taken>>
  BY DEF TokenLapses, bounds, vars
<1>2. Serving' = Serving
  BY <1>1 DEF Serving
<1> QED
  BY <1>1, <1>2, BudgetKept, TidyKept

LEMMA TypeStep == TypeInv /\ [Next]_vars => TypeInv'
<1> SUFFICES ASSUME TypeInv, [Next]_vars
             PROVE  TypeInv'
  OBVIOUS
<1>1. AccountsInv'
  BY AccountsStep DEF TypeInv
<1>2. ASSUME NEW w \in Workers,
             \/ \E r \in Requests : Receive(w, r)
             \/ RefuseCredential(w) \/ Authenticate(w) \/ NoAccount(w) \/ GoesAnonymous(w)
             \/ FindAccount(w) \/ Deactivated(w) \/ NoSuchAccount(w) \/ CheckEmail(w)
             \/ RefuseEmail(w) \/ Provision(w) \/ DuplicateAccount(w)
             \/ Me(w) \/ Rename(w) \/ RefuseRename(w)
             \/ ResolveToken(w) \/ ViewReport(w) \/ RefuseReport(w) \/ ViewEvidence(w)
             \/ GetOwn(w) \/ NotOwn(w) \/ MarkRead(w) \/ Crash(w)
      PROVE  TypeInv'
  <2>1. CASE \E r \in Requests : Receive(w, r)
    BY <1>1, <2>1, ReceiveTypes DEF TypeInv
  <2>2. CASE \/ RefuseCredential(w) \/ NoAccount(w) \/ Deactivated(w) \/ RefuseEmail(w)
             \/ DuplicateAccount(w) \/ Me(w) \/ RefuseRename(w) \/ RefuseReport(w) \/ NotOwn(w)
             \/ Crash(w)
    <3>1. /\ job[w].pc # "idle" /\ Finish(w) /\ UNCHANGED <<stored, taken>>
          /\ cached' = cached \/ cached' = [cached EXCEPT ![w] = {}]
      BY <2>2 DEF RefuseCredential, NoAccount, Deactivated, RefuseEmail, DuplicateAccount, Me,
                  RefuseRename, RefuseReport, NotOwn, Crash, Dropped, At, bounds
    <3> QED
      BY <1>1, <3>1, DroppedTypes DEF TypeInv
  <2>3. CASE Authenticate(w) \/ GoesAnonymous(w) \/ NoSuchAccount(w) \/ CheckEmail(w)
             \/ ResolveToken(w) \/ GetOwn(w)
    BY <1>1, <2>3, AuthenticateTypes, MovesTypes DEF TypeInv
  <2>4. CASE FindAccount(w) \/ Provision(w) \/ Rename(w) \/ ViewReport(w) \/ ViewEvidence(w)
             \/ MarkRead(w)
    BY <1>1, <2>4, AnsweredTypes, ProvisionTypes, RenameTypes, MarkReadTypes DEF TypeInv
  <2> QED
    BY <1>2, <2>1, <2>2, <2>3, <2>4
<1>3. ASSUME NEW i \in Ids, NEW role \in Roles, NEW active \in BOOLEAN, Operator(i, role, active)
      PROVE  TypeInv'
  BY <1>1, <1>3, OperatorTypes DEF TypeInv
<1>4. CASE (\E t \in Tokens : TokenLapses(t)) \/ UNCHANGED vars
  BY <1>1, <1>4, QuietTypes DEF TypeInv
<1> QED
  BY <1>2, <1>3, <1>4 DEF Next

\* Every account is well formed and no student's carries a display name, whatever
\* demotions race its owner's PATCH; a cached principal is one of the accounts, a
\* notification was marked by one, and no token is used more than it was asked for.
THEOREM AccountsStayWellFormed == Spec => []TypeOK
<1>1. TypeInv => TypeOK
  <2> SUFFICES ASSUME TypeInv
               PROVE  TypeOK
    OBVIOUS
  <2>1. /\ Types /\ Budget /\ Named /\ Remembered /\ Marked /\ Serving = Serving
        /\ \A n \in Notices : readBy[n] \in {Nobody, RecipientOf[n]}
    BY DEF TypeInv, AccountsInv
  <2>2. /\ Len(accounts) \in Nat /\ Ids = 1 .. Len(accounts) /\ Len(Seeded) \in Nat
        /\ MaxRequests \in Nat /\ Cardinality(Serving) \in Nat
    BY <2>1, AccountAssumptions, FS_CardinalityType DEF Types, Budget, Ids
  <2>3. DOMAIN Seeded \subseteq Ids /\ Ids \subseteq Users
    BY <2>1, <2>2, AccountAssumptions DEF Types, Budget
  <2>4. \A i \in Ids : accounts[i] \in AppUser /\ StudentNameless(accounts[i])
    BY <2>1, Account DEF Named
  <2>5. uses \in [Tokens -> 0 .. MaxRequests]
    BY <2>1, <2>2 DEF Types, Budget
  <2>6. readBy \in [Notices -> Ids \cup {Nobody}]
    BY <2>1, <2>3, AccountAssumptions DEF Marked
  <2>7. ASSUME NEW w \in Workers, NEW p \in cached[w]
        PROVE  p \in Principal /\ p.user \in Ids
    <3>1. p \in Who /\ p.role \in Roles /\ p.user \in Ids
      BY <2>1 DEF Types, Remembered
    <3> QED
      BY <2>3, <3>1 DEF Who, Principal
  <2> QED
    BY <2>1, <2>4, <2>5, <2>6, <2>7 DEF TypeOK, Types
<1> QED
  BY <1>1, TypeInit, TypeStep, PTL DEF Spec
=============================================================================
