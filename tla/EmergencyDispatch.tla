-------------------------- MODULE EmergencyDispatch --------------------------
(***************************************************************************)
(* The dispatch of one emergency: POST /incidents/<ref>/dispatch and       *)
(* POST /incidents/<ref>/dispatch/state.  As in CaseLifecycle every query  *)
(* of a handler is a step and its writes are one step with the commit; an  *)
(* UPDATE changes the columns the handler assigned, of the row as it is by *)
(* then, and the CHECKs of the table judge the result.                     *)
(***************************************************************************)
EXTENDS Naturals, Sequences

CONSTANTS
  Workers,      \* concurrent request handlers
  Callers,      \* accounts that call the two endpoints
  Entitled,     \* those the responder view admits to this incident
  IsEmergency,  \* the report's emergency flag
  Requests,     \* the requests clients may send
  MaxRequests   \* bound: requests taken up

States == {"pending", "acknowledged", "dispatched", "on_scene", "closed", "stood_down"}

DISPATCH_TRANSITIONS ==
  [s \in States |->
     CASE s = "pending" -> {"acknowledged", "stood_down"}
       [] s = "acknowledged" -> {"dispatched", "stood_down"}
       [] s = "dispatched" -> {"on_scene", "stood_down"}
       [] s = "on_scene" -> {"closed"}
       [] OTHER -> {}]

Terminal == {"closed", "stood_down"}

\* The timestamp columns, and the one each state owns; both ends share closed_at.
Stamps == {"raised", "acknowledged", "dispatched", "on_scene", "closed"}
StampOf(s) ==
  CASE s = "pending" -> "raised" [] s = "stood_down" -> "closed" [] OTHER -> s

DispatchRequest ==
  [kind: {"raise"}, user: Callers] \cup [kind: {"advance"}, user: Callers, target: States]

ASSUME DispatchAssumption ==
  /\ Entitled \subseteq Callers /\ "nobody" \notin Callers
  /\ IsEmergency \in BOOLEAN
  /\ Requests \subseteq DispatchRequest
  /\ MaxRequests \in Nat

VARIABLES
  dispatches,  \* core.emergency_dispatch rows of the report
  audit,       \* access_log rows
  clock,       \* requests stamped so far: each one's `now'
  job          \* [Workers -> what the worker is in the middle of]

vars == <<dispatches, audit, clock, job>>

idle == [pc |-> "idle"]
Jobs == [pc: {"loaded", "authorised", "ready"}, req: Requests, now: Nat, found: Nat]

DispatchRow == [state: States, at: [Stamps -> Nat], by: Callers \cup {"nobody"}]
AuditRow == [action: {"raise", "refused"} \cup States, user: Callers, at: Nat]

Init ==
  /\ dispatches = <<>> /\ audit = {} /\ clock = 0
  /\ job = [w \in Workers |-> idle]

At(w, stage, kind) == job[w].pc = stage /\ job[w].req.kind = kind
Finish(w) == job' = [job EXCEPT ![w] = idle]

AuditRecord(w, action) ==
  audit' = audit \cup {[action |-> action, user |-> job[w].req.user, at |-> job[w].now]}

\* 404 or 409 of the service: rolled back, recorded as DENIED, committed.
Denied(w) == AuditRecord(w, "refused") /\ Finish(w) /\ UNCHANGED <<dispatches, clock>>

\* An IntegrityError, or a request lost on the way: rolled back, nothing recorded.
Dropped(w) == Finish(w) /\ UNCHANGED <<dispatches, audit, clock>>

-----------------------------------------------------------------------------
(* Both handlers: the caller, then the time, then the operative dispatch    *)

Receive(w, r) ==
  /\ job[w] = idle
  /\ clock < MaxRequests
  /\ job' = [job EXCEPT ![w] = [pc |-> "loaded", req |-> r, now |-> 0, found |-> 0]]
  /\ UNCHANGED <<dispatches, audit, clock>>

Authorise(w) ==
  /\ job[w].pc = "loaded" /\ job[w].req.user \in Entitled
  /\ clock' = clock + 1
  /\ job' = [job EXCEPT ![w].pc = "authorised", ![w].now = clock + 1]
  /\ UNCHANGED <<dispatches, audit>>

RefuseCaller(w) ==
  /\ job[w].pc = "loaded" /\ job[w].req.user \notin Entitled
  /\ clock' = clock + 1
  /\ audit' = audit \cup {[action |-> "refused", user |-> job[w].req.user, at |-> clock + 1]}
  /\ Finish(w)
  /\ UNCHANGED dispatches

\* current_dispatch: the latest raised, 0 when there is none.
Current ==
  IF dispatches = <<>> THEN 0
  ELSE CHOOSE i \in DOMAIN dispatches :
         \A j \in DOMAIN dispatches : dispatches[j].at["raised"] <= dispatches[i].at["raised"]

-----------------------------------------------------------------------------
(* IncidentService.raise_dispatch                                          *)

Raisable == IsEmergency /\ (Current # 0 => dispatches[Current].state \in Terminal)

AcceptRaise(w) ==
  /\ At(w, "authorised", "raise")
  /\ Raisable
  /\ job' = [job EXCEPT ![w].pc = "ready"]
  /\ UNCHANGED <<dispatches, audit, clock>>

RefuseRaise(w) ==
  /\ At(w, "authorised", "raise")
  /\ ~Raisable
  /\ Denied(w)

\* uq_emergency_dispatch_report.
UniqueAdmits == dispatches = <<>>

RecordRaise(w) ==
  /\ At(w, "ready", "raise")
  /\ UniqueAdmits
  /\ dispatches' = Append(dispatches,
       [state |-> "pending", by |-> "nobody",
        at |-> [c \in Stamps |-> IF c = "raised" THEN job[w].now ELSE 0]])
  /\ AuditRecord(w, "raise")
  /\ Finish(w)
  /\ UNCHANGED clock

ConflictingRaise(w) ==
  /\ At(w, "ready", "raise")
  /\ ~UniqueAdmits
  /\ Dropped(w)

-----------------------------------------------------------------------------
(* IncidentService.advance_dispatch                                        *)

Allowed(target) == target \in DISPATCH_TRANSITIONS[dispatches[Current].state]

AcceptAdvance(w) ==
  /\ At(w, "authorised", "advance")
  /\ Current # 0 /\ Allowed(job[w].req.target)
  /\ job' = [job EXCEPT ![w].pc = "ready", ![w].found = Current]
  /\ UNCHANGED <<dispatches, audit, clock>>

RefuseAdvance(w) ==
  /\ At(w, "authorised", "advance")
  /\ ~(Current # 0 /\ Allowed(job[w].req.target))
  /\ Denied(w)

\* Mutant: the first to acknowledge stays on the record.
KeepFirstAnswerer(row, r, now) ==
  [row EXCEPT !.state = r.target,
              !.at[StampOf(r.target)] = now,
              !.by = IF r.target = "acknowledged" /\ row.by = "nobody" THEN r.user ELSE @]

\* The state, the one column it owns, and who answered.
Advanced(row, r, now) ==
  [row EXCEPT !.state = r.target,
              !.at[StampOf(r.target)] = now,
              !.by = IF r.target = "acknowledged" THEN r.user ELSE @]

\* Mutant: no CHECKs.
NoChecks(at) == TRUE

\* ck_dispatch_*: a NULL satisfies any of them.
InOrder(at, a, b) == at[a] # 0 /\ at[b] # 0 => at[a] <= at[b]
ChecksAdmit(at) ==
  /\ InOrder(at, "raised", "acknowledged") /\ InOrder(at, "acknowledged", "dispatched")
  /\ InOrder(at, "dispatched", "on_scene") /\ InOrder(at, "raised", "closed")

NewRow(w) == Advanced(dispatches[job[w].found], job[w].req, job[w].now)

RecordAdvance(w) ==
  /\ At(w, "ready", "advance")
  /\ ChecksAdmit(NewRow(w).at)
  /\ dispatches' = [dispatches EXCEPT ![job[w].found] = NewRow(w)]
  /\ AuditRecord(w, job[w].req.target)
  /\ Finish(w)
  /\ UNCHANGED clock

RefusedByCheck(w) ==
  /\ At(w, "ready", "advance")
  /\ ~ChecksAdmit(NewRow(w).at)
  /\ Dropped(w)

Crash(w) == job[w] # idle /\ Dropped(w)

Next ==
  \E w \in Workers :
    \/ \E r \in Requests : Receive(w, r)
    \/ Authorise(w) \/ RefuseCaller(w)
    \/ AcceptRaise(w) \/ RefuseRaise(w) \/ RecordRaise(w) \/ ConflictingRaise(w)
    \/ AcceptAdvance(w) \/ RefuseAdvance(w) \/ RecordAdvance(w) \/ RefusedByCheck(w)
    \/ Crash(w)

Spec == Init /\ [][Next]_vars
-----------------------------------------------------------------------------
(* What holds however many workers there are                               *)

\* Types of the rows and of the requests in flight.
TypeOK ==
  /\ dispatches \in Seq(DispatchRow)
  /\ audit \subseteq AuditRow
  /\ clock \in Nat
  /\ job \in [Workers -> {idle} \cup Jobs]

\* Two responders who raise a dispatch at once raise one.
OneDispatch == Len(dispatches) <= 1

\* Up to the arrival no step is on the record without the one before it, none is
\* timed before it, and a dispatch that is closed has arrived; its end is compared
\* with its raising only.
StepsInOrder ==
  \A i \in DOMAIN dispatches :
    LET at == dispatches[i].at
    IN /\ at["raised"] # 0
       /\ at["acknowledged"] # 0 => at["raised"] <= at["acknowledged"]
       /\ at["dispatched"] # 0 =>
            at["acknowledged"] # 0 /\ at["acknowledged"] <= at["dispatched"]
       /\ at["on_scene"] # 0 =>
            at["dispatched"] # 0 /\ at["dispatched"] <= at["on_scene"]
       /\ at["closed"] # 0 => at["raised"] <= at["closed"]
       /\ dispatches[i].state = "closed" => at["on_scene"] # 0

\* An emergency has one dispatch, whose steps are in order, whatever raises race
\* and whatever stale advances commit.
OneJourneyInOrder == OneDispatch /\ StepsInOrder

\* advance_dispatch: the record of when a responder arrived cannot disagree
\* with the state that says they did.
StateHasItsStamp ==
  \A i \in DOMAIN dispatches : dispatches[i].at[StampOf(dispatches[i].state)] # 0

\* The one responder on the record is the one whose acknowledgement it carries,
\* also when two acknowledge at once.
AnswererIsOnRecord ==
  \A i \in DOMAIN dispatches :
    LET row == dispatches[i]
    IN IF row.at["acknowledged"] = 0 THEN row.by = "nobody"
       ELSE [action |-> "acknowledged", user |-> row.by, at |-> row.at["acknowledged"]] \in audit

\* Every stamp on the record is the time of an audited request for that very
\* step, and every request audited as done left its stamp.
StampsAreAudited ==
  /\ \A i \in DOMAIN dispatches, c \in Stamps :
       dispatches[i].at[c] # 0 =>
         \E a \in audit :
           /\ a.at = dispatches[i].at[c]
           /\ IF a.action = "raise" THEN c = "raised"
              ELSE a.action # "refused" /\ c = StampOf(a.action)
  /\ \A a \in audit :
       a.action # "refused" =>
         \E i \in DOMAIN dispatches :
           dispatches[i].at[IF a.action = "raise" THEN "raised" ELSE StampOf(a.action)] # 0

-----------------------------------------------------------------------------
(* What the code's comments promise                                        *)

\* IncidentRepository.current_dispatch: a report can be dispatched more than
\* once, stood down, then raised again when something changes.
RaisableAfterEnd ==
  \A w \in Workers :
    At(w, "ready", "raise") /\ Current # 0 /\ dispatches[Current].state \in Terminal
      => UniqueAdmits

\* DISPATCH_TRANSITIONS, the responder's working sequence: the dispatch is raised,
\* someone takes it, they set off, they arrive, it ends.
EndComesLast ==
  \A i \in DOMAIN dispatches :
    LET at == dispatches[i].at
    IN at["closed"] # 0 => \A c \in Stamps : at[c] <= at["closed"]

\* DISPATCH_TRANSITIONS: a dispatch that was stood down never reached a scene.
StoodDownNeverArrived ==
  \A i \in DOMAIN dispatches :
    dispatches[i].state = "stood_down" => dispatches[i].at["on_scene"] = 0
=============================================================================
