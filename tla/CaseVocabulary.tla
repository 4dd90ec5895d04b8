--------------------------- MODULE CaseVocabulary ---------------------------
(***************************************************************************)
(* The closed vocabulary of a case: who there is, the statuses, the legal  *)
(* graph, and what each target status demands.                             *)
(***************************************************************************)

Roles == {"student", "security", "icc", "admin"}

Open == {"submitted", "triaged", "under_review", "action_taken"}
Terminal == {"resolved", "closed_no_action", "duplicate", "withdrawn"}
Statuses == Open \cup Terminal

CASE_TRANSITIONS ==
  [s \in Statuses |->
     CASE s = "submitted" -> {"triaged", "withdrawn", "duplicate", "closed_no_action"}
       [] s = "triaged" -> {"under_review", "withdrawn", "duplicate", "closed_no_action"}
       [] s = "under_review" -> {"action_taken"} \cup Terminal
       [] s = "action_taken" -> {"resolved", "closed_no_action"}
       [] OTHER -> {}]

REQUIRES_ACTIVE_ASSIGNMENT == {"under_review", "action_taken", "resolved"}
REMARK_OPTIONAL == {"triaged"}

\* "none" is an absent resolution_reason.
NoReason == "none"
Reasons == {"action_taken", "no_action_warranted", "insufficient_information",
            "referred_elsewhere", "duplicate_of_existing_case",
            "withdrawn_by_reporter", "other"}

\* What each target status accepts as its resolution reason.
ReasonsFor ==
  [s \in Statuses |->
     CASE s = "resolved" -> {"action_taken", "referred_elsewhere", "other"}
       [] s = "closed_no_action" -> {"no_action_warranted", "insufficient_information",
                                     "referred_elsewhere", "other"}
       [] s = "duplicate" -> {"duplicate_of_existing_case", "other"}
       [] s = "withdrawn" -> {"withdrawn_by_reporter", "other"}
       [] OTHER -> {NoReason}]
=============================================================================
