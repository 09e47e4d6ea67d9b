---------------------------- MODULE TriageRules ----------------------------
(***************************************************************************)
(* The teams a review case can be with, the controls of their cards, and   *)
(* what each control does to the case.  Tables only: no state.  Shared by   *)
(* Case (what triage promises) and Triage (how the service does it).        *)
(***************************************************************************)

NoTeam == "NO_TEAM"

\* Where routing can send a case; ESCALATED is reached by a person only (I41).
RoutedTeam == {"FINANCE", "PROCUREMENT", "AP_REVIEW", "DUPLICATE_REVIEW"}

Team == RoutedTeam \cup {"ESCALATED"}

ACTIONS_FOR ==
  [FINANCE          |-> {"MARK_REVIEWED", "REQUEST_MORE_INFORMATION", "ESCALATE"},
   PROCUREMENT      |-> {"MARK_REVIEWED", "REQUEST_MORE_INFORMATION", "ESCALATE"},
   AP_REVIEW        |-> {"MARK_REVIEWED", "SEND_TO_FINANCE", "SEND_TO_PROCUREMENT",
                         "REQUEST_MORE_INFORMATION"},
   DUPLICATE_REVIEW |-> {"CLOSE_AS_DUPLICATE", "MARK_REVIEWED", "ESCALATE"},
   ESCALATED        |-> {"MARK_REVIEWED", "SEND_BACK", "REQUEST_MORE_INFORMATION"}]

HANDOFFS ==
  [SEND_TO_FINANCE     |-> "FINANCE",
   SEND_TO_PROCUREMENT |-> "PROCUREMENT",
   ESCALATE            |-> "ESCALATED"]

\* Recorded on the current card; the case stays with its team.
IN_PLACE == {"REQUEST_MORE_INFORMATION", "INFORMATION_RECEIVED"}

\* The controls that open a modal and carry a note.
NOTE_ACTIONS == IN_PLACE \cup {"ESCALATE", "SEND_BACK"}

\* Never close a run.
NON_FINAL == DOMAIN HANDOFFS \cup NOTE_ACTIONS

Action == {"MARK_REVIEWED", "CLOSE_AS_DUPLICATE"} \cup NON_FINAL

\* The controls a case offers: its team's, less Escalate once escalated; while
\* a question is open, only the answer, and Escalate where still offered.
allowed_actions(team, information_open, escalated) ==
  LET offered == ACTIONS_FOR[team] \ (IF escalated THEN {"ESCALATE"} ELSE {})
  IN  IF information_open
      THEN {"INFORMATION_RECEIVED"} \cup (offered \cap {"ESCALATE"})
      ELSE offered

\* Mutant: Send back returns every case to AP review.
SendBackToReview(action, escalated_from) ==
  IF action \in DOMAIN HANDOFFS THEN HANDOFFS[action] ELSE "AP_REVIEW"

\* Where a hand-off sends the case; Send back returns it to its escalator.
handoff_destination(action, escalated_from) ==
  IF action = "SEND_BACK" THEN escalated_from
  ELSE IF action \in DOMAIN HANDOFFS THEN HANDOFFS[action] ELSE NoTeam
=============================================================================
