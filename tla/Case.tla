-------------------------------- MODULE Case --------------------------------
(***************************************************************************)
(* What triage promises about one review case, whatever Slack does: the     *)
(* case is with one team at a time, moves only by a hand-off its team is    *)
(* offered, is escalated at most once and sent back only to its escalator,  *)
(* carries at most one open question, and is closed once, for good.         *)
(* Triage is shown to implement this module.                                *)
(***************************************************************************)
EXTENDS TriageRules

VARIABLES
  holder,          \* the team the case is with
  question,        \* an information request is open
  escalatedFrom,   \* the team that escalated it, NoTeam before
  closed

vars == <<holder, question, escalatedFrom, closed>>

Init ==
  /\ holder \in RoutedTeam
  /\ question = FALSE
  /\ escalatedFrom = NoTeam
  /\ closed = FALSE

Offered == allowed_actions(holder, question, escalatedFrom # NoTeam)

HandOver(a) ==
  /\ ~closed
  /\ a \in Offered \cap DOMAIN HANDOFFS
  /\ holder' = HANDOFFS[a]
  /\ escalatedFrom' = IF a = "ESCALATE" THEN holder ELSE escalatedFrom
  /\ UNCHANGED <<question, closed>>

SendBack ==
  /\ ~closed
  /\ "SEND_BACK" \in Offered
  /\ escalatedFrom # NoTeam
  /\ holder' = escalatedFrom
  /\ UNCHANGED <<question, escalatedFrom, closed>>

Ask ==
  /\ ~closed
  /\ "REQUEST_MORE_INFORMATION" \in Offered
  /\ question' = TRUE
  /\ UNCHANGED <<holder, escalatedFrom, closed>>

Answer ==
  /\ ~closed
  /\ "INFORMATION_RECEIVED" \in Offered
  /\ question' = FALSE
  /\ UNCHANGED <<holder, escalatedFrom, closed>>

Close ==
  /\ ~closed
  /\ Offered \ NON_FINAL # {}
  /\ closed' = TRUE
  /\ UNCHANGED <<holder, question, escalatedFrom>>

Next ==
  \/ \E a \in DOMAIN HANDOFFS : HandOver(a)
  \/ SendBack
  \/ Ask
  \/ Answer
  \/ Close

Spec == Init /\ [][Next]_vars
=============================================================================
