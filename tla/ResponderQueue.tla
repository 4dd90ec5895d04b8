--------------------------- MODULE ResponderQueue ---------------------------
(***************************************************************************)
(* The queue of IncidentsPage: a poll every ten seconds whose answers may  *)
(* come late, out of order or not at all, a filter that restarts it, and   *)
(* the alarm for what is new.  The service behind it is three external     *)
(* steps: a report arrives, its case moves, its case ends.  An answer      *)
(* holds the whole queue; the page asks for its first hundred only.        *)
(***************************************************************************)
EXTENDS EmergencyAudio

CONSTANTS
  Reports,      \* reports routed to the responder's role
  Emergencies,  \* those with is_emergency or the SOS category
  Working,      \* statuses of open cases; the filter chips
  MaxRestarts,  \* bound: filter changes, retries and reloads after an action
  MaxInFlight   \* bound: different answers under way at a time

ASSUME QueueAssumption ==
  /\ Emergencies \subseteq Reports /\ "submitted" \in Working
  /\ MaxRestarts \in Nat /\ MaxInFlight \in Nat \ {0}

VARIABLES
  case,        \* external: [Reports -> the status of its case, or absent]
  filter,      \* the statuses statusFilter admits
  answers,     \* what the requests of the current effect will be answered with
  incidents,   \* the queue on display
  seen,        \* seenIncidentRefs
  loaded,      \* ~isInitialLoad
  seeded,      \* history: what the first answer held
  alarms,      \* history: [Reports -> how often it raised the alarm]
  restarts

page == <<filter, answers, incidents, seen, loaded, seeded, alarms, restarts>>
queueVars == <<case, page, audio>>

\* No filter is every open status.
Admitted(chips) == IF chips = {} THEN Working ELSE chips
Open(statuses) == {r \in Reports : case[r] \in statuses}

QueueInit ==
  /\ case \in [Reports -> {"absent", "submitted"}]
  /\ filter = Working /\ incidents = {} /\ seen = {} /\ loaded = FALSE
  /\ answers = {Open(Working)}
  /\ seeded = {} /\ alarms = [r \in Reports |-> 0] /\ restarts = 0
  /\ AudioInit

\* fetchQueue, from the interval timer.  Whatever is committed until the service
\* reads its tables is in the answer; a later read is a later poll.
Poll ==
  /\ Cardinality(answers) < MaxInFlight
  /\ answers' = answers \cup {Open(filter)}
  /\ UNCHANGED <<case, filter, incidents, seen, loaded, seeded, alarms, restarts, audio>>

\* Mutant: a reference counts as seen only once it is an emergency on display.
DeliverUnlessShown(items) ==
  LET newEmergencies == (items \ incidents) \cap Emergencies
  IN  /\ items \in answers
      /\ answers' = answers \ {items}
      /\ incidents' = items /\ seen' = seen \cup items /\ loaded' = TRUE
      /\ seeded' = IF loaded THEN seeded ELSE items
      /\ IF ~loaded \/ newEmergencies = {} THEN UNCHANGED <<alarms, audio>>
         ELSE /\ alarms' = [r \in Reports |->
                   alarms[r] + IF r \in newEmergencies /\ alarms[r] < 2 THEN 1 ELSE 0]
              /\ Beep(newEmergencies, calls)
      /\ UNCHANGED <<case, filter, restarts>>

\* The .then of fetchQueue.
Deliver(items) ==
  LET newEmergencies == (items \ seen) \cap Emergencies
  IN  /\ items \in answers
      /\ answers' = answers \ {items}
      /\ incidents' = items /\ seen' = seen \cup items /\ loaded' = TRUE
      /\ seeded' = IF loaded THEN seeded ELSE items
      /\ IF ~loaded \/ newEmergencies = {} THEN UNCHANGED <<alarms, audio>>
         ELSE /\ alarms' = [r \in Reports |->
                   IF r \in newEmergencies THEN alarms[r] + 1 ELSE alarms[r]]
              /\ Beep(newEmergencies, calls)
      /\ UNCHANGED <<case, filter, restarts>>

\* The .catch: no answer, or an error.
Fail(items) ==
  /\ items \in answers
  /\ answers' = answers \ {items}
  /\ incidents' = {}
  /\ UNCHANGED <<case, filter, seen, loaded, seeded, alarms, restarts, audio>>

\* The effect is torn down and set up again.  Answers to its old requests find
\* `cancelled' set and change nothing, so they are dropped at once.
Restart(chips) ==
  /\ restarts < MaxRestarts
  /\ restarts' = restarts + 1
  /\ filter' = Admitted(chips)
  /\ answers' = {Open(filter')}
  /\ UNCHANGED <<case, incidents, seen, loaded, seeded, alarms, audio>>

\* External: a report arrives, its case moves on.  One that ends leaves the queue
\* as one does that the filter hides.
CaseStep ==
  /\ \E r \in Reports :
       \/ case[r] = "absent" /\ case' = [case EXCEPT ![r] = "submitted"]
       \/ /\ case[r] = "submitted"
          /\ \E to \in Working \ {"submitted"} : case' = [case EXCEPT ![r] = to]
  /\ UNCHANGED <<page, audio>>

QueueNext ==
  \/ Poll
  \/ \E items \in answers : Deliver(items) \/ Fail(items)
  \/ \E chips \in SUBSET Working : Restart(chips)
  \/ CaseStep
  \/ AudioStep /\ UNCHANGED <<case, page>>

\* The timer ticks, the service answers what reaches it, an answer does get
\* through in the end, tones end or their timers fire, and a browser that allows
\* sound resumes the context.
Fairness ==
  /\ WF_queueVars(Poll)
  /\ SF_queueVars(\E items \in answers : Deliver(items))
  /\ WF_queueVars((ToneEnds \/ TimerFires) /\ UNCHANGED <<case, page>>)
  /\ WF_queueVars((\E c \in calls : Enabled(c) \/ Resumed(c) \/ Echo(c)) /\ UNCHANGED <<case, page>>)

QueueSpec == QueueInit /\ [][QueueNext]_queueVars /\ Fairness

-----------------------------------------------------------------------------
\* The alarm rings once for each emergency that the first answer did not hold, never
\* for one it held, and none of the others gets onto the display without it, in
\* whatever order the answers of polls and filters come in.
ArrivalsAlarmOnce ==
  \A r \in Reports :
    /\ alarms[r] <= 1
    /\ r \in seeded => alarms[r] = 0
    /\ r \in incidents \cap Emergencies => r \in seeded \/ alarms[r] = 1

\* An emergency in the queue of a page that may make a sound either leaves that queue
\* or has a tone started for it, unless the first answer held it or the sound was off
\* when it was noticed.
EveryArrivalIsHeard ==
  \A r \in Emergencies :
    r \in Open(filter) /\ activated
      ~> r \notin Open(filter) \/ r \in seeded \cup answered
=============================================================================
