------------------------------- MODULE Triage -------------------------------
(***************************************************************************)
(* One review case from REVIEW_READY to COMPLETED: the run's row, its       *)
(* decision rows and its row of slack_notifications; the cards Slack holds; *)
(* the requests of the service in flight (notify calls, deliveries of       *)
(* clicks and modal submissions, the card work after a decision).           *)
(*                                                                          *)
(* A step is one database transaction, or one read of a request that reads  *)
(* without a lock, or one Slack call.  PostgreSQL's FOR UPDATE on the run   *)
(* makes a locked check and the writes after it one step; everything else   *)
(* a request read earlier may be stale when it uses it.                     *)
(***************************************************************************)
EXTENDS Naturals, Sequences, FiniteSets, TriageRules

CONSTANTS
  Worker,            \* the requests that can be in flight at once
  MaxInteractions,   \* bound: clicks recorded at once and modals opened
  MaxFaults,         \* bound: crashes, rejected, lost and unanswered calls
  EarlyClicks,       \* people may click before any post is on record
  PromptFinish       \* card work ends before another request's notify claims

ASSUME TriageAssumption ==
  /\ MaxInteractions \in Nat
  /\ MaxFaults \in Nat
  /\ EarlyClicks \in BOOLEAN
  /\ PromptFinish \in BOOLEAN

VARIABLES
  status,        \* runs.workflow_status
  destination,   \* runs.triage_destination
  decisions,     \* triage_decisions, oldest first
  notification,  \* the run's row of slack_notifications
  cards,         \* Slack's messages: cards[ts]
  interactions,  \* clicks and opened modals: interactions[interaction id]
  worker,        \* what each request is doing and what it has read
  faults         \* faults so far

vars == <<status, destination, decisions, notification, cards, interactions,
          worker, faults>>
db == <<status, destination, decisions, notification>>

-----------------------------------------------------------------------------
(* Values                                                                   *)

Status == {"REVIEW_READY", "NOTIFY_PENDING", "AWAITING_TRIAGE", "COMPLETED"}

DecidableStatuses == {"AWAITING_TRIAGE", "NOTIFY_PENDING", "REVIEW_READY"}

\* ts is the message timestamp, a card's index in cards; 0 is a null.
NoNotification == [post |-> "NONE", team |-> NoTeam, ts |-> 0]

PostStatus == {"POSTED", "POSSIBLE_DUPLICATE", "FAILED"}

\* What a request is doing: deciding (decide), updating the decided card
\* (finish_read, finish_update), notifying (check, claim, post, record),
\* redrawing the current card (redraw_load, redraw_controls, redraw_match,
\* redraw) or putting the final decision on a clicked card (settle).
Pc == {"idle", "decide", "finish_read", "finish_update", "check", "claim",
       "post", "record", "redraw_load", "redraw_controls", "redraw_match",
       "redraw", "settle"}

Idle == [pc |-> "idle", id |-> 0, ts |-> 0, team |-> NoTeam, controls |-> {},
         post |-> "NONE", handoff |-> FALSE]

Request ==
  [pc: Pc, id: Nat, ts: Nat, team: Team \cup {NoTeam}, controls: SUBSET Action,
   post: PostStatus \cup {"NONE"}, handoff: BOOLEAN]

Decision == [id: Nat, action: Action, shown: Team, ts: Nat]

Notification == [post: PostStatus \cup {"NONE"}, team: Team \cup {NoTeam}, ts: Nat]

Card == [team: Team, controls: SUBSET Action]

Interaction == [action: Action, ts: Nat]

TypeOK ==
  /\ status \in Status
  /\ destination \in Team
  /\ decisions \in Seq(Decision)
  /\ notification \in Notification
  /\ cards \in Seq(Card)
  /\ interactions \in Seq(Interaction)
  /\ worker \in [Worker -> Request]
  /\ faults \in Nat

-----------------------------------------------------------------------------
(* What the service works out from the rows                                 *)

RowsOf(action) == {i \in DOMAIN decisions : decisions[i].action = action}

\* A request is open while the requests outnumber the answers.
InformationOpen ==
  Cardinality(RowsOf("REQUEST_MORE_INFORMATION")) >
    Cardinality(RowsOf("INFORMATION_RECEIVED"))

\* The team whose card carried the latest Escalate.
EscalatedFrom ==
  LET E == RowsOf("ESCALATE")
  IN  IF E = {} THEN NoTeam
      ELSE decisions[CHOOSE i \in E : \A j \in E : j <= i].shown

ControlsFor(team) ==
  allowed_actions(team, InformationOpen, EscalatedFrom # NoTeam)

Controls == ControlsFor(destination)

\* Mutant: a posted card counts whichever team it was posted for.
PostedForAnyTeam == notification.post = "POSTED"

\* A card is on record as posted for the run's current destination.
AlreadyPosted ==
  /\ notification.post = "POSTED"
  /\ notification.team = destination

\* Mutant: the clicked card is recognised by its timestamp alone.
SameTimestamp(ts) == notification.post # "NONE" => notification.ts = ts

\* No record at all is accepted: the run's first card is being posted.
CardIsCurrent(ts) ==
  notification.post # "NONE" => AlreadyPosted /\ notification.ts = ts

ActionAllowed(action) ==
  /\ action \in Controls
  /\ action = "SEND_BACK" => EscalatedFrom # NoTeam

\* Mutant: the run's status is not checked.
AcceptsAnyStatus(action, ts) == CardIsCurrent(ts) /\ ActionAllowed(action)

Accepts(action, ts) ==
  /\ status \in DecidableStatuses
  /\ CardIsCurrent(ts)
  /\ ActionAllowed(action)

\* Mutant: any refused click on the current card draws the decided card.
SettleAnyRefusal(ts) ==
  IF CardIsCurrent(ts) \/ status \notin DecidableStatuses
  THEN [Idle EXCEPT !.pc = "settle", !.ts = ts]
  ELSE Idle

\* How a request goes on after a refused click: a decided case shows its
\* decision on the clicked card, a control the case no longer allows has the
\* card redrawn, a superseded card is left alone.
AfterRefusal(ts) ==
  IF status \notin DecidableStatuses
  THEN [Idle EXCEPT !.pc = "settle", !.ts = ts]
  ELSE IF CardIsCurrent(ts)
       THEN [Idle EXCEPT !.pc = "redraw_load", !.ts = ts]
       ELSE Idle

Finishing(w) == worker[w].pc \in {"finish_read", "finish_update"}

Fault == faults < MaxFaults /\ faults' = faults + 1

-----------------------------------------------------------------------------
(* People in Slack                                                          *)

\* A person can press what a card shows.  Without EarlyClicks people reach a
\* card only once the outcome of a post is on record.
CanPress(ts, action) ==
  /\ action \in cards[ts].controls
  /\ EarlyClicks \/ notification.post # "NONE"

\* A control recorded at once: the click is Slack's to deliver.
Press(ts, action) ==
  /\ Len(interactions) < MaxInteractions
  /\ action \notin NOTE_ACTIONS
  /\ CanPress(ts, action)
  /\ interactions' = Append(interactions, [action |-> action, ts |-> ts])
  /\ UNCHANGED <<db, cards, worker, faults>>

\* A control that needs a note: the checks are previewed without a lock and a
\* modal opens, whose submission is delivered later, if ever.
OpenModal(ts, action) ==
  /\ Len(interactions) < MaxInteractions
  /\ action \in NOTE_ACTIONS
  /\ CanPress(ts, action)
  /\ Accepts(action, ts)
  /\ interactions' = Append(interactions, [action |-> action, ts |-> ts])
  /\ UNCHANGED <<db, cards, worker, faults>>

\* The preview refuses: no modal, and the card is repaired.
RefuseModal(w, ts, action) ==
  /\ worker[w].pc = "idle"
  /\ action \in NOTE_ACTIONS
  /\ CanPress(ts, action)
  /\ ~Accepts(action, ts)
  /\ worker' = [worker EXCEPT ![w] = AfterRefusal(ts)]
  /\ UNCHANGED <<db, cards, interactions, faults>>

-----------------------------------------------------------------------------
(* Recording a decision                                                     *)

\* A delivery, first or repeated, of a click or a submission: the retry check
\* reads without a lock, and a row already there ends it.
Deliver(w, id) ==
  /\ worker[w].pc = "idle"
  /\ \A i \in DOMAIN decisions : decisions[i].id # id
  /\ worker' = [worker EXCEPT ![w] = [Idle EXCEPT !.pc = "decide", !.id = id]]
  /\ UNCHANGED <<db, cards, interactions, faults>>

Recorded(id) == \E i \in DOMAIN decisions : decisions[i].id = id

\* The locked check passed and the row is new (ON CONFLICT DO NOTHING).
Record(w) ==
  LET id == worker[w].id
      request == interactions[id]
  IN  /\ worker[w].pc = "decide"
      /\ Accepts(request.action, request.ts)
      /\ ~Recorded(id)
      /\ decisions' = Append(decisions, [id |-> id, action |-> request.action,
                                         shown |-> destination, ts |-> request.ts])

\* A final decision closes the run.
Close(w) ==
  /\ Record(w)
  /\ interactions[worker[w].id].action \notin NON_FINAL
  /\ status' = "COMPLETED"
  /\ worker' = [worker EXCEPT ![w] = [Idle EXCEPT !.pc = "finish_read"]]
  /\ UNCHANGED <<destination, notification, cards, interactions, faults>>

\* Mutant: a hand-off moves the case and leaves its status.
HandOffKeepsStatus(w) ==
  LET action == interactions[worker[w].id].action
  IN  /\ Record(w)
      /\ action \in NON_FINAL \ IN_PLACE
      /\ destination' = handoff_destination(action, EscalatedFrom)
      /\ worker' = [worker EXCEPT ![w] =
                      [Idle EXCEPT !.pc = "finish_read", !.handoff = TRUE]]
      /\ UNCHANGED <<status, notification, cards, interactions, faults>>

\* A hand-off moves the case and returns it to REVIEW_READY, so that the new
\* team's card is posted.
HandOff(w) ==
  LET action == interactions[worker[w].id].action
  IN  /\ Record(w)
      /\ action \in NON_FINAL \ IN_PLACE
      /\ destination' = handoff_destination(action, EscalatedFrom)
      /\ status' = "REVIEW_READY"
      /\ worker' = [worker EXCEPT ![w] =
                      [Idle EXCEPT !.pc = "finish_read", !.handoff = TRUE]]
      /\ UNCHANGED <<notification, cards, interactions, faults>>

\* A question or its answer leaves the run where it is.
InPlace(w) ==
  /\ Record(w)
  /\ interactions[worker[w].id].action \in IN_PLACE
  /\ worker' = [worker EXCEPT ![w] = [Idle EXCEPT !.pc = "redraw_load"]]
  /\ UNCHANGED <<status, destination, notification, cards, interactions, faults>>

\* The locked check refuses, or the row is already there.
Refuse(w) ==
  LET request == interactions[worker[w].id]
      accepted == Accepts(request.action, request.ts)
  IN  /\ worker[w].pc = "decide"
      /\ accepted => Recorded(worker[w].id)
      /\ worker' = [worker EXCEPT ![w] =
                      IF accepted THEN Idle ELSE AfterRefusal(request.ts)]
      /\ UNCHANGED <<db, cards, interactions, faults>>

-----------------------------------------------------------------------------
(* The card work after a decision                                           *)

\* Which card to update is read again, after the commit; a hand-off goes on to
\* notify whether or not there is one.
FinishRead(w) ==
  LET next == IF worker[w].handoff THEN "check" ELSE "idle"
  IN  /\ worker[w].pc = "finish_read"
      /\ worker' = [worker EXCEPT ![w] =
                      IF notification.ts # 0
                      THEN [@ EXCEPT !.pc = "finish_update", !.ts = notification.ts]
                      ELSE [Idle EXCEPT !.pc = next]]
      /\ UNCHANGED <<db, cards, interactions, faults>>

\* The decided card has no controls; the update may be lost (ADR-007).
FinishUpdate(w) ==
  LET next == IF worker[w].handoff THEN "check" ELSE "idle"
  IN  /\ worker[w].pc = "finish_update"
      /\ \/ cards' = [cards EXCEPT ![worker[w].ts].controls = {}] /\ UNCHANGED faults
         \/ Fault /\ UNCHANGED cards
      /\ worker' = [worker EXCEPT ![w] = [Idle EXCEPT !.pc = next]]
      /\ UNCHANGED <<db, interactions>>

\* refresh_decided_card: the final decision on the card that was clicked.
Settle(w) ==
  /\ worker[w].pc = "settle"
  /\ \/ cards' = [cards EXCEPT ![worker[w].ts].controls = {}] /\ UNCHANGED faults
     \/ Fault /\ UNCHANGED cards
  /\ worker' = [worker EXCEPT ![w] = Idle]
  /\ UNCHANGED <<db, interactions>>

\* refresh_current_card: the run is read, then its decisions, then the card on
\* record, then Slack is called; no lock is held over the four.  ts = 0 redraws
\* whatever card is current, otherwise only that card.
RedrawLoad(w) ==
  /\ worker[w].pc = "redraw_load"
  /\ worker' = [worker EXCEPT ![w] =
                  IF status = "AWAITING_TRIAGE"
                  THEN [@ EXCEPT !.pc = "redraw_controls", !.team = destination]
                  ELSE Idle]
  /\ UNCHANGED <<db, cards, interactions, faults>>

RedrawControls(w) ==
  /\ worker[w].pc = "redraw_controls"
  /\ worker' = [worker EXCEPT ![w] = [@ EXCEPT !.pc = "redraw_match",
                                              !.controls = ControlsFor(worker[w].team)]]
  /\ UNCHANGED <<db, cards, interactions, faults>>

RedrawMatch(w) ==
  LET match == /\ notification.post = "POSTED"
               /\ notification.team = worker[w].team
               /\ notification.ts # 0
               /\ worker[w].ts \in {0, notification.ts}
  IN  /\ worker[w].pc = "redraw_match"
      /\ worker' = [worker EXCEPT ![w] =
                      IF match THEN [@ EXCEPT !.pc = "redraw", !.ts = notification.ts]
                      ELSE Idle]
      /\ UNCHANGED <<db, cards, interactions, faults>>

Redraw(w) ==
  /\ worker[w].pc = "redraw"
  /\ \/ /\ cards' = [cards EXCEPT ![worker[w].ts].controls = worker[w].controls]
        /\ UNCHANGED faults
     \/ Fault /\ UNCHANGED cards
  /\ worker' = [worker EXCEPT ![w] = Idle]
  /\ UNCHANGED <<db, interactions>>

-----------------------------------------------------------------------------
(* Notify                                                                   *)

\* Workflow 02, its re-send by the poll or a repeated request calls notify.
CallNotify(w) ==
  /\ worker[w].pc = "idle"
  /\ ~AlreadyPosted
  /\ worker' = [worker EXCEPT ![w] = [Idle EXCEPT !.pc = "claim"]]
  /\ UNCHANGED <<db, cards, interactions, faults>>

\* The same unlocked check, when the card work of a hand-off calls notify.
NotifyCheck(w) ==
  /\ worker[w].pc = "check"
  /\ worker' = [worker EXCEPT ![w] =
                  IF AlreadyPosted THEN Idle ELSE [Idle EXCEPT !.pc = "claim"]]
  /\ UNCHANGED <<db, cards, interactions, faults>>

\* Mutant: the lock is released without leaving a claim behind.
NotifyWithoutClaim(w) ==
  /\ worker[w].pc = "claim"
  /\ PromptFinish => \A v \in Worker : ~Finishing(v)
  /\ status = "REVIEW_READY"
  /\ worker' = [worker EXCEPT ![w] =
                  [Idle EXCEPT !.pc = "post", !.team = destination,
                               !.controls = Controls]]
  /\ UNCHANGED <<db, cards, interactions, faults>>

\* The locked claim; the card's team and controls are what the case is now.
NotifyClaim(w) ==
  /\ worker[w].pc = "claim"
  /\ PromptFinish => \A v \in Worker : ~Finishing(v)
  /\ status = "REVIEW_READY"
  /\ status' = "NOTIFY_PENDING"
  /\ worker' = [worker EXCEPT ![w] =
                  [Idle EXCEPT !.pc = "post", !.team = destination,
                               !.controls = Controls]]
  /\ UNCHANGED <<destination, decisions, notification, cards, interactions, faults>>

NotifyRefused(w) ==
  /\ worker[w].pc = "claim"
  /\ status # "REVIEW_READY"
  /\ worker' = [worker EXCEPT ![w] = Idle]
  /\ UNCHANGED <<db, cards, interactions, faults>>

NewCard(w) == Append(cards, [team |-> worker[w].team, controls |-> worker[w].controls])

\* Slack creates the message; the answer arrives later, or never does.
SlackPosts(w) ==
  /\ worker[w].pc = "post"
  /\ cards' = NewCard(w)
  /\ \/ /\ worker' = [worker EXCEPT ![w] = [@ EXCEPT !.pc = "record", !.post = "POSTED",
                                                     !.ts = Len(cards) + 1]]
        /\ UNCHANGED faults
     \/ /\ Fault
        /\ worker' = [worker EXCEPT ![w] = [@ EXCEPT !.pc = "record",
                                                     !.post = "POSSIBLE_DUPLICATE"]]
  /\ UNCHANGED <<db, interactions>>

\* No message: Slack names an error, or the request never reached it.
SlackRefuses(w) ==
  /\ worker[w].pc = "post"
  /\ Fault
  /\ \E post \in {"FAILED", "POSSIBLE_DUPLICATE"} :
       worker' = [worker EXCEPT ![w] = [@ EXCEPT !.pc = "record", !.post = post]]
  /\ UNCHANGED <<db, cards, interactions>>

\* The record replaces the run's row whole; the run moves only from
\* NOTIFY_PENDING.
NotifyRecord(w) ==
  LET posted == worker[w].post = "POSTED"
  IN  /\ worker[w].pc = "record"
      /\ notification' = [post |-> worker[w].post, team |-> worker[w].team,
                          ts |-> worker[w].ts]
      /\ status' = IF status # "NOTIFY_PENDING" THEN status
                   ELSE IF posted THEN "AWAITING_TRIAGE" ELSE "REVIEW_READY"
      /\ worker' = [worker EXCEPT ![w] = Idle]
      /\ UNCHANGED <<destination, decisions, cards, interactions, faults>>

-----------------------------------------------------------------------------
(* Crashes, and the recovery the runbook gives                              *)

InSlackPost(w) == worker[w].pc \in {"post", "record"}

\* The request dies with what it had read; what it committed stays.
Crash(w) ==
  /\ worker[w].pc # "idle"
  /\ Fault
  /\ worker' = [worker EXCEPT ![w] = Idle]
  /\ UNCHANGED <<db, cards, interactions>>

\* An operator returns a run stuck in NOTIFY_PENDING after its notify died.
Recover ==
  /\ status = "NOTIFY_PENDING"
  /\ \A w \in Worker : ~InSlackPost(w)
  /\ status' = "REVIEW_READY"
  /\ UNCHANGED <<destination, decisions, notification, cards, interactions,
                 worker, faults>>

-----------------------------------------------------------------------------

Init ==
  /\ status = "REVIEW_READY"
  /\ destination \in RoutedTeam
  /\ decisions = <<>>
  /\ notification = NoNotification
  /\ cards = <<>>
  /\ interactions = <<>>
  /\ worker = [w \in Worker |-> Idle]
  /\ faults = 0

Notify(w) ==
  NotifyCheck(w) \/ NotifyClaim(w) \/ NotifyRefused(w) \/ SlackPosts(w)
    \/ SlackRefuses(w) \/ NotifyRecord(w)

Decide(w) == Close(w) \/ HandOff(w) \/ InPlace(w) \/ Refuse(w)

CardWork(w) ==
  FinishRead(w) \/ FinishUpdate(w) \/ Settle(w) \/ RedrawLoad(w)
    \/ RedrawControls(w) \/ RedrawMatch(w) \/ Redraw(w)

Next ==
  \/ \E ts \in DOMAIN cards, action \in Action :
       \/ Press(ts, action)
       \/ OpenModal(ts, action)
       \/ \E w \in Worker : RefuseModal(w, ts, action)
  \/ \E w \in Worker :
       \/ \E id \in DOMAIN interactions : Deliver(w, id)
       \/ CallNotify(w)
       \/ Decide(w)
       \/ CardWork(w)
       \/ Notify(w)
       \/ Crash(w)
  \/ Recover

Spec == Init /\ [][Next]_vars

\* The service runs the requests it has; the poll re-sends a case without a
\* card every few minutes, so sooner or later when a request can be taken (SF:
\* repeated deliveries may use every worker in between); the operator recovers
\* a dead notify.  People and deliveries owe nothing.
Fairness ==
  /\ \A w \in Worker : WF_vars(Decide(w) \/ CardWork(w) \/ Notify(w))
  /\ SF_vars(status = "REVIEW_READY" /\ \E w \in Worker : CallNotify(w))
  /\ WF_vars(Recover)

FairSpec == Spec /\ Fairness
-----------------------------------------------------------------------------
(* Properties                                                               *)

\* A run is closed by one decision and nothing is recorded after it, however
\* often clicks and submissions are delivered and whatever they raced with
\* (record_decision; I03, uq_triage_one_final_per_run).
OneFinalDecision ==
  \A i \in DOMAIN decisions :
    decisions[i].action \notin NON_FINAL =>
      i = Len(decisions) /\ status = "COMPLETED"

\* A case is escalated at most once, across send-backs, double clicks and
\* modals opened before the escalation (I42, uq_triage_one_escalation_per_run).
OneEscalation == \A i, j \in RowsOf("ESCALATE") : i = j

\* Every decision was made on a card of the team the case was with: a case sent
\* to another team is not closed from the card that sent it (_check_click).
DecidedByItsTeam ==
  \A i \in DOMAIN decisions : cards[decisions[i].ts].team = decisions[i].shown

\* Two notify calls are never between their claim and their record at once:
\* the claim does what the lock did without being held (notify).
NotifyExclusive ==
  \A v, w \in Worker : InSlackPost(v) /\ InSlackPost(w) => v = w

\* A run waiting for its team has that team's card on record; otherwise every
\* click is refused as superseded and nothing ever posts another card.
AwaitingIsCarded ==
  status = "AWAITING_TRIAGE" =>
    AlreadyPosted /\ cards[notification.ts].team = destination

\* The card a run waits on shows a control, so that a click can decide it or,
\* refused, have it redrawn: a lost or late update never leaves the case
\* without a move (refresh_current_card, update_card_best_effort).
CurrentCardIsLive ==
  status = "AWAITING_TRIAGE" => cards[notification.ts].controls # {}

\* A closed run stays closed with its decisions, destination and status as they
\* were: no late notify record, hand-off or recovery brings it back.
ClosedIsFinal ==
  [][status = "COMPLETED" => UNCHANGED <<status, destination, decisions>>]_vars

\* A run ready for a card gets its team's card on record or is closed, through
\* Slack failures, crashes and the recoveries the runbook describes.
CardEventually ==
  status = "REVIEW_READY" ~>
    (status = "COMPLETED" \/ (status = "AWAITING_TRIAGE" /\ AlreadyPosted))

\* The service keeps the promise of Case: the case file read back from the
\* decision rows moves only as Case allows.
CaseFile ==
  INSTANCE Case WITH holder <- destination,
                     question <- InformationOpen,
                     escalatedFrom <- EscalatedFrom,
                     closed <- status = "COMPLETED"

ImplementsCase == CaseFile!Spec
=============================================================================
