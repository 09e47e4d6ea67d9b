---------------------------- MODULE TriageProofs ----------------------------
(***************************************************************************)
(* Proofs about Triage, for every set of requests and every bound.          *)
(***************************************************************************)
EXTENDS Triage, SequenceTheorems, FiniteSetTheorems, TLAPS

-----------------------------------------------------------------------------
(* The tables                                                               *)

\* A case always offers some control, and only known ones.
LEMMA OfferedControls ==
  ASSUME NEW team \in Team, NEW open \in BOOLEAN, NEW escalated \in BOOLEAN
  PROVE  /\ allowed_actions(team, open, escalated) \subseteq Action
         /\ allowed_actions(team, open, escalated) # {}
BY DEF Team, RoutedTeam, allowed_actions, ACTIONS_FOR, Action, NON_FINAL,
       HANDOFFS, NOTE_ACTIONS, IN_PLACE

\* Escalate is not on offer once the case has been escalated, nor to the team
\* cases are escalated to.
LEMMA EscalateOffered ==
  ASSUME NEW team \in Team, NEW open \in BOOLEAN, NEW escalated \in BOOLEAN,
         "ESCALATE" \in allowed_actions(team, open, escalated)
  PROVE  ~escalated /\ team # "ESCALATED"
BY DEF Team, RoutedTeam, allowed_actions, ACTIONS_FOR

\* A hand-off has a destination, and it is not the team the case leaves.
LEMMA HandOffMoves ==
  ASSUME NEW team \in Team, NEW open \in BOOLEAN, NEW from \in Team \cup {NoTeam},
         NEW action \in NON_FINAL \ IN_PLACE,
         action \in allowed_actions(team, open, from # NoTeam),
         action = "SEND_BACK" => from # NoTeam,
         from # "ESCALATED"
  PROVE  /\ handoff_destination(action, from) \in Team
         /\ handoff_destination(action, from) # team
BY DEF Team, RoutedTeam, NoTeam, allowed_actions, ACTIONS_FOR, NON_FINAL,
       HANDOFFS, NOTE_ACTIONS, IN_PLACE, handoff_destination

-----------------------------------------------------------------------------
(* The rows                                                                 *)

LEMMA RowTypes ==
  ASSUME TypeOK
  PROVE  /\ \A i \in DOMAIN decisions : decisions[i] \in Decision
         /\ \A i \in DOMAIN interactions : interactions[i] \in Interaction
         /\ \A i \in DOMAIN cards : cards[i] \in Card
BY ElementOfSeq, LenProperties DEF TypeOK

\* The case is escalated exactly when an Escalate row is there, and while there
\* is at most one, its team is the one the case returns to.
LEMMA EscalatedFromRow ==
  ASSUME TypeOK, OneEscalation
  PROVE  /\ EscalatedFrom \in Team \cup {NoTeam}
         /\ EscalatedFrom = NoTeam <=> RowsOf("ESCALATE") = {}
         /\ \A i \in RowsOf("ESCALATE") : EscalatedFrom = decisions[i].shown
<1>1. \A i \in DOMAIN decisions : decisions[i].shown \in Team
  BY RowTypes DEF Decision
<1>2. NoTeam \notin Team
  BY DEF NoTeam, Team, RoutedTeam
<1>3. CASE RowsOf("ESCALATE") = {}
  BY <1>3 DEF EscalatedFrom
<1>4. CASE RowsOf("ESCALATE") # {}
  <2>1. PICK i \in RowsOf("ESCALATE") : TRUE
    BY <1>4
  <2>2. RowsOf("ESCALATE") = {i}
    BY <2>1 DEF OneEscalation
  <2>3. i \in Nat /\ i \in DOMAIN decisions
    BY <2>1 DEF RowsOf, TypeOK
  <2>4. (CHOOSE j \in {i} : \A k \in {i} : k <= j) = i
    BY <2>3
  <2>5. EscalatedFrom = decisions[i].shown
    BY <2>2, <2>4 DEF EscalatedFrom
  <2> QED
    BY <2>2, <2>3, <2>5, <1>1, <1>2
<1> QED
  BY <1>3, <1>4

LEMMA ControlsType ==
  ASSUME TypeOK
  PROVE  /\ Controls \subseteq Action /\ Controls # {}
         /\ \A team \in Team : ControlsFor(team) \subseteq Action /\ ControlsFor(team) # {}
<1>1. destination \in Team
  BY DEF TypeOK
<1>2. InformationOpen \in BOOLEAN /\ (EscalatedFrom # NoTeam) \in BOOLEAN
  BY DEF InformationOpen
<1>3. \A team \in Team : ControlsFor(team) \subseteq Action /\ ControlsFor(team) # {}
  BY <1>2, OfferedControls DEF ControlsFor
<1> QED
  BY <1>1, <1>3 DEF Controls

-----------------------------------------------------------------------------
(* What a step does to the case                                             *)

\* A delivery being decided is of an interaction that took place.
DecideKnown ==
  \A w \in Worker : worker[w].pc = "decide" => worker[w].id \in DOMAIN interactions

\* Nobody escalates a case that is already with the escalations team.
NotEscalatedTwice == \A i \in RowsOf("ESCALATE") : decisions[i].shown # "ESCALATED"

\* A card is posted or redrawn for a team.
SlackTeam ==
  \A w \in Worker :
    InSlackPost(w) \/ worker[w].pc = "redraw_controls" => worker[w].team \in Team

SafeInv ==
  /\ TypeOK
  /\ DecideKnown
  /\ SlackTeam
  /\ OneFinalDecision
  /\ OneEscalation
  /\ NotEscalatedTwice

\* A step records one decision the case allows, or leaves the case file alone
\* and neither closes nor reopens it.
Decides(w) ==
  LET request == interactions[worker[w].id]
  IN  /\ worker[w].id \in DOMAIN interactions
      /\ Accepts(request.action, request.ts)
      /\ decisions' = Append(decisions, [id |-> worker[w].id, action |-> request.action,
                                         shown |-> destination, ts |-> request.ts])
      /\ \/ /\ request.action \notin NON_FINAL
            /\ status' = "COMPLETED" /\ destination' = destination
         \/ /\ request.action \in NON_FINAL \ IN_PLACE
            /\ status' = "REVIEW_READY"
            /\ destination' = handoff_destination(request.action, EscalatedFrom)
         \/ /\ request.action \in IN_PLACE
            /\ UNCHANGED <<status, destination>>

LeavesCase ==
  /\ UNCHANGED <<decisions, destination>>
  /\ status' = "COMPLETED" <=> status = "COMPLETED"

LEMMA CaseStep ==
  ASSUME TypeOK, DecideKnown, [Next]_vars
  PROVE  LeavesCase \/ \E w \in Worker : Decides(w)
<1> USE DEF db
<1>1. ASSUME NEW ts \in DOMAIN cards, NEW action \in Action,
             Press(ts, action) \/ OpenModal(ts, action)
               \/ \E w \in Worker : RefuseModal(w, ts, action)
      PROVE  LeavesCase
  BY <1>1 DEF Press, OpenModal, RefuseModal, LeavesCase
<1>2. ASSUME NEW w \in Worker, Close(w) \/ HandOff(w) \/ InPlace(w)
      PROVE  Decides(w)
  BY <1>2 DEF Close, HandOff, InPlace, Record, Decides, DecideKnown
<1>3. ASSUME NEW w \in Worker,
             (\E id \in DOMAIN interactions : Deliver(w, id)) \/ CallNotify(w)
               \/ Refuse(w) \/ CardWork(w) \/ Crash(w)
      PROVE  LeavesCase
  BY <1>3 DEF Deliver, CallNotify, Refuse, CardWork, Crash, FinishRead, FinishUpdate,
              Settle, RedrawLoad, RedrawControls, RedrawMatch, Redraw, LeavesCase
<1>4. ASSUME NEW w \in Worker, Notify(w) \/ Recover
      PROVE  LeavesCase
  BY <1>4 DEF Notify, Recover, NotifyCheck, NotifyClaim, NotifyRefused, SlackPosts,
              SlackRefuses, NotifyRecord, LeavesCase
<1>5. ASSUME Recover PROVE LeavesCase
  BY <1>5 DEF Recover, LeavesCase
<1>6. CASE UNCHANGED vars
  BY <1>6 DEF vars, LeavesCase
<1> QED
  BY <1>1, <1>2, <1>3, <1>4, <1>5, <1>6 DEF Next, Decide

\* An idle request, and every EXCEPT of a request the actions use.
LEMMA IdleRequest ==
  Idle \in Request
BY DEF Idle, Request, Pc

LEMMA RequestExcept ==
  ASSUME NEW r \in Request, NEW pc \in Pc
  PROVE  /\ [r EXCEPT !.pc = pc] \in Request
         /\ [r EXCEPT !.pc = pc, !.handoff = TRUE] \in Request
         /\ \A n \in Nat : /\ [r EXCEPT !.pc = pc, !.id = n] \in Request
                           /\ [r EXCEPT !.pc = pc, !.ts = n] \in Request
         /\ \A team \in Team, controls \in SUBSET Action :
              /\ [r EXCEPT !.pc = pc, !.team = team] \in Request
              /\ [r EXCEPT !.pc = pc, !.controls = controls] \in Request
              /\ [r EXCEPT !.pc = pc, !.team = team, !.controls = controls] \in Request
         /\ \A post \in PostStatus :
              /\ [r EXCEPT !.pc = pc, !.post = post] \in Request
              /\ \A n \in Nat : [r EXCEPT !.pc = pc, !.post = post, !.ts = n] \in Request
BY DEF Request

\* The table of requests when one of them moves on.
LEMMA WorkerExcept ==
  ASSUME NEW f \in [Worker -> Request], NEW w \in Worker, NEW r \in Request
  PROVE  [f EXCEPT ![w] = r] \in [Worker -> Request]
OBVIOUS

\* Each kind of step keeps the requests typed.
LEMMA DecideTypes ==
  ASSUME TypeOK, DecideKnown, NEW w \in Worker, Decide(w)
  PROVE  worker' \in [Worker -> Request]
<1>1. worker \in [Worker -> Request]
  BY DEF TypeOK
<1>2. \A pc \in {"finish_read", "redraw_load", "settle"} : pc \in Pc
  BY DEF Pc
<1>3. CASE Close(w)
  BY <1>1, <1>2, <1>3, IdleRequest, RequestExcept DEF Close
<1>4. CASE HandOff(w)
  BY <1>1, <1>2, <1>4, IdleRequest, RequestExcept DEF HandOff
<1>5. CASE InPlace(w)
  BY <1>1, <1>2, <1>5, IdleRequest, RequestExcept DEF InPlace
<1>6. CASE Refuse(w)
  <2>1. interactions[worker[w].id].ts \in Nat
    BY <1>6, RowTypes DEF Refuse, DecideKnown, Interaction
  <2>2. AfterRefusal(interactions[worker[w].id].ts) \in Request
    BY <2>1, <1>2, IdleRequest, RequestExcept DEF AfterRefusal
  <2> QED
    BY <1>1, <1>6, <2>2, IdleRequest DEF Refuse
<1> QED
  BY <1>3, <1>4, <1>5, <1>6 DEF Decide

LEMMA CardWorkTypes ==
  ASSUME TypeOK, SlackTeam, NEW w \in Worker, CardWork(w)
  PROVE  worker' \in [Worker -> Request]
<1>1. worker \in [Worker -> Request] /\ worker[w] \in Request
  BY DEF TypeOK
<1>2. notification.ts \in Nat /\ destination \in Team
  BY DEF TypeOK, Notification
<1>3. \A pc \in {"idle", "check", "finish_update", "redraw_controls", "redraw_match",
                "redraw"} : pc \in Pc
  BY DEF Pc
<1>4. CASE FinishRead(w)
  BY <1>1, <1>2, <1>3, <1>4, IdleRequest, RequestExcept DEF FinishRead
<1>5. CASE FinishUpdate(w)
  BY <1>1, <1>3, <1>5, IdleRequest, RequestExcept DEF FinishUpdate
<1>6. CASE Settle(w) \/ Redraw(w)
  BY <1>1, <1>6, IdleRequest DEF Settle, Redraw
<1>7. CASE RedrawLoad(w)
  BY <1>1, <1>2, <1>3, <1>7, IdleRequest, RequestExcept DEF RedrawLoad
<1>8. CASE RedrawMatch(w)
  BY <1>1, <1>2, <1>3, <1>8, IdleRequest, RequestExcept DEF RedrawMatch
<1>9. CASE RedrawControls(w)
  <2>1. worker[w].team \in Team
    BY <1>9 DEF RedrawControls, SlackTeam
  <2>2. ControlsFor(worker[w].team) \in SUBSET Action
    BY <2>1, ControlsType
  <2>3. [worker[w] EXCEPT !.pc = "redraw_match", !.controls = ControlsFor(worker[w].team)]
          \in Request
    BY <1>1, <1>3, <2>1, <2>2, RequestExcept
  <2> QED
    BY <1>1, <1>9, <2>3, WorkerExcept DEF RedrawControls
<1> QED
  BY <1>4, <1>5, <1>6, <1>7, <1>8, <1>9 DEF CardWork

LEMMA NotifyTypes ==
  ASSUME TypeOK, NEW w \in Worker, Notify(w)
  PROVE  worker' \in [Worker -> Request]
<1>1. worker \in [Worker -> Request] /\ worker[w] \in Request
  BY DEF TypeOK
<1>2. destination \in Team /\ Controls \in SUBSET Action /\ Len(cards) + 1 \in Nat
  BY ControlsType, LenProperties DEF TypeOK
<1>3. \A pc \in {"claim", "post", "record"} : pc \in Pc
  BY DEF Pc
<1>4. \A post \in {"FAILED", "POSSIBLE_DUPLICATE", "POSTED"} : post \in PostStatus
  BY DEF PostStatus
<1>5. CASE NotifyCheck(w) \/ NotifyRefused(w) \/ NotifyRecord(w)
  BY <1>1, <1>3, <1>5, IdleRequest, RequestExcept DEF NotifyCheck, NotifyRefused, NotifyRecord
<1>6. CASE NotifyClaim(w)
  BY <1>1, <1>2, <1>3, <1>6, IdleRequest, RequestExcept DEF NotifyClaim
<1>7. CASE SlackPosts(w)
  <2>1. /\ [worker[w] EXCEPT !.pc = "record", !.post = "POSTED", !.ts = Len(cards) + 1]
              \in Request
        /\ [worker[w] EXCEPT !.pc = "record", !.post = "POSSIBLE_DUPLICATE"] \in Request
    BY <1>1, <1>2, <1>3, <1>4, RequestExcept
  <2> QED
    BY <1>1, <1>7, <2>1, WorkerExcept DEF SlackPosts
<1>8. CASE SlackRefuses(w)
  <2>1. PICK post \in {"FAILED", "POSSIBLE_DUPLICATE"} :
          worker' = [worker EXCEPT ![w] = [@ EXCEPT !.pc = "record", !.post = post]]
    BY <1>8 DEF SlackRefuses
  <2>2. [worker[w] EXCEPT !.pc = "record", !.post = post] \in Request
    BY <1>1, <1>3, <1>4, RequestExcept
  <2> QED
    BY <1>1, <2>1, <2>2, WorkerExcept
<1> QED
  BY <1>5, <1>6, <1>7, <1>8 DEF Notify

LEMMA WorkerType ==
  ASSUME TypeOK, DecideKnown, SlackTeam, [Next]_vars
  PROVE  worker' \in [Worker -> Request]
<1>1. worker \in [Worker -> Request]
  BY DEF TypeOK
<1>2. \A pc \in {"decide", "claim", "settle", "redraw_load"} : pc \in Pc
  BY DEF Pc
<1>3. DOMAIN cards \subseteq Nat /\ DOMAIN interactions \subseteq Nat
  BY LenProperties DEF TypeOK
<1>4. ASSUME NEW ts \in DOMAIN cards, NEW action \in Action,
             Press(ts, action) \/ OpenModal(ts, action)
               \/ \E w \in Worker : RefuseModal(w, ts, action)
      PROVE  worker' \in [Worker -> Request]
  <2>1. AfterRefusal(ts) \in Request
    BY <1>2, <1>3, IdleRequest, RequestExcept DEF AfterRefusal
  <2> QED
    BY <1>1, <1>4, <2>1 DEF Press, OpenModal, RefuseModal
<1>5. ASSUME NEW w \in Worker,
             (\E id \in DOMAIN interactions : Deliver(w, id)) \/ CallNotify(w) \/ Crash(w)
      PROVE  worker' \in [Worker -> Request]
  <2>1. CASE \E id \in DOMAIN interactions : Deliver(w, id)
    <3>1. PICK id \in DOMAIN interactions : Deliver(w, id)
      BY <2>1
    <3>2. [Idle EXCEPT !.pc = "decide", !.id = id] \in Request
      BY <1>2, <1>3, IdleRequest, RequestExcept
    <3> QED
      BY <1>1, <3>1, <3>2, WorkerExcept DEF Deliver
  <2>2. CASE CallNotify(w)
    BY <1>1, <1>2, <2>2, IdleRequest, RequestExcept DEF CallNotify
  <2>3. CASE Crash(w)
    BY <1>1, <2>3, IdleRequest DEF Crash
  <2> QED
    BY <1>5, <2>1, <2>2, <2>3
<1>6. CASE Recover \/ UNCHANGED vars
  BY <1>1, <1>6 DEF Recover, vars
<1> QED
  BY <1>4, <1>5, <1>6, DecideTypes, CardWorkTypes, NotifyTypes DEF Next

\* The rest of the state, by the kind of step.
LEMMA CardsType ==
  ASSUME TypeOK, SlackTeam, [Next]_vars
  PROVE  cards' \in Seq(Card)
<1>1. cards \in Seq(Card) /\ worker \in [Worker -> Request]
  BY DEF TypeOK
<1>2. ASSUME NEW i, NEW c \in SUBSET Action
      PROVE  [cards EXCEPT ![i].controls = c] \in Seq(Card)
  <2>1. CASE i \in 1 .. Len(cards)
    <3>1. [cards[i] EXCEPT !.controls = c] \in Card
      BY <2>1, RowTypes, LenProperties, <1>1 DEF Card
    <3> QED
      BY <3>1, <2>1, <1>1, ExceptSeq
  <2>2. CASE i \notin 1 .. Len(cards)
    <3>1. [cards EXCEPT ![i].controls = c] = cards
      BY <2>2, <1>1, LenProperties
    <3> QED
      BY <3>1, <1>1
  <2> QED
    BY <2>1, <2>2
<1>3. ASSUME NEW w \in Worker, FinishUpdate(w) \/ Settle(w) \/ Redraw(w)
      PROVE  cards' \in Seq(Card)
  <2>1. worker[w].controls \in SUBSET Action /\ {} \in SUBSET Action
    BY <1>1 DEF Request
  <2>2. /\ [cards EXCEPT ![worker[w].ts].controls = {}] \in Seq(Card)
        /\ [cards EXCEPT ![worker[w].ts].controls = worker[w].controls] \in Seq(Card)
    BY <1>2, <2>1
  <2>3. \/ cards' = [cards EXCEPT ![worker[w].ts].controls = {}]
        \/ cards' = [cards EXCEPT ![worker[w].ts].controls = worker[w].controls]
        \/ cards' = cards
    BY <1>3 DEF FinishUpdate, Settle, Redraw
  <2> QED
    BY <1>1, <2>2, <2>3
<1>4. ASSUME NEW w \in Worker, SlackPosts(w)
      PROVE  cards' \in Seq(Card)
  <2>1. [team |-> worker[w].team, controls |-> worker[w].controls] \in Card
    BY <1>1, <1>4 DEF SlackPosts, SlackTeam, InSlackPost, Request, Card
  <2> QED
    BY <1>1, <1>4, <2>1, AppendProperties DEF SlackPosts, NewCard
<1>5. ASSUME UNCHANGED cards PROVE cards' \in Seq(Card)
  BY <1>1, <1>5
<1>6. CASE UNCHANGED vars
  BY <1>5, <1>6 DEF vars
<1>7. ASSUME NEW ts \in DOMAIN cards, NEW action \in Action,
             Press(ts, action) \/ OpenModal(ts, action)
               \/ \E w \in Worker : RefuseModal(w, ts, action)
      PROVE  UNCHANGED cards
  BY <1>7 DEF Press, OpenModal, RefuseModal
<1>8. ASSUME NEW w \in Worker,
             \/ \E id \in DOMAIN interactions : Deliver(w, id)
             \/ CallNotify(w)
             \/ Decide(w)
             \/ Crash(w)
             \/ Recover
      PROVE  UNCHANGED cards
  BY <1>8 DEF Deliver, CallNotify, Decide, Close, HandOff, InPlace, Refuse, Crash, Recover
<1>9. ASSUME NEW w \in Worker,
             \/ FinishRead(w)
             \/ RedrawLoad(w)
             \/ RedrawControls(w)
             \/ RedrawMatch(w)
             \/ NotifyCheck(w)
             \/ NotifyClaim(w)
             \/ NotifyRefused(w)
             \/ SlackRefuses(w)
             \/ NotifyRecord(w)
      PROVE  UNCHANGED cards
  BY <1>9 DEF FinishRead, RedrawLoad, RedrawControls, RedrawMatch, NotifyCheck, NotifyClaim,
              NotifyRefused, SlackRefuses, NotifyRecord
<1>10. ASSUME Recover PROVE UNCHANGED cards
  BY <1>10 DEF Recover
<1> QED
  BY <1>3, <1>4, <1>5, <1>6, <1>7, <1>8, <1>9, <1>10 DEF Next, CardWork, Notify

\* Interactions are only added.
LEMMA InteractionsStep ==
  ASSUME TypeOK, [Next]_vars
  PROVE  /\ interactions' \in Seq(Interaction)
         /\ DOMAIN interactions \subseteq DOMAIN interactions'
         /\ \A i \in DOMAIN interactions : interactions'[i] = interactions[i]
<1>1. interactions \in Seq(Interaction) /\ cards \in Seq(Card)
  BY DEF TypeOK
<1>2. ASSUME NEW ts \in DOMAIN cards, NEW action \in Action,
             Press(ts, action) \/ OpenModal(ts, action)
      PROVE  \E i \in Interaction : interactions' = Append(interactions, i)
  <2>1. [action |-> action, ts |-> ts] \in Interaction
    BY <1>1, LenProperties DEF Interaction
  <2> QED
    BY <1>2, <2>1 DEF Press, OpenModal
<1>3. ASSUME NEW w \in Worker,
             \/ \E ts \in DOMAIN cards, action \in Action : RefuseModal(w, ts, action)
             \/ \E id \in DOMAIN interactions : Deliver(w, id)
             \/ CallNotify(w)
             \/ Decide(w)
             \/ Crash(w)
      PROVE  UNCHANGED interactions
  BY <1>3 DEF RefuseModal, Deliver, CallNotify, Decide, Close, HandOff, InPlace,
              Refuse, Crash
<1>4. ASSUME NEW w \in Worker, CardWork(w)
      PROVE  UNCHANGED interactions
  BY <1>4 DEF CardWork, FinishRead, FinishUpdate, Settle, RedrawLoad, RedrawControls, RedrawMatch, Redraw
<1>5. ASSUME NEW w \in Worker, Notify(w)
      PROVE  UNCHANGED interactions
  BY <1>5 DEF Notify, NotifyCheck, NotifyClaim, NotifyRefused, SlackPosts,
              SlackRefuses, NotifyRecord
<1>6. ASSUME Recover \/ UNCHANGED vars PROVE UNCHANGED interactions
  BY <1>6 DEF Recover, vars
<1>7. \/ UNCHANGED interactions
      \/ \E i \in Interaction : interactions' = Append(interactions, i)
  BY <1>2, <1>3, <1>4, <1>5, <1>6 DEF Next
<1>8. ASSUME NEW i \in Interaction, interactions' = Append(interactions, i)
      PROVE  /\ interactions' \in Seq(Interaction)
             /\ DOMAIN interactions \subseteq DOMAIN interactions'
             /\ \A j \in DOMAIN interactions : interactions'[j] = interactions[j]
  <2>1. /\ DOMAIN interactions = 1 .. Len(interactions)
        /\ Len(interactions) \in Nat
    BY <1>1, LenProperties
  <2>2. /\ interactions' \in Seq(Interaction)
        /\ Len(interactions') = Len(interactions) + 1
        /\ \A j \in 1 .. Len(interactions) : interactions'[j] = interactions[j]
    BY <1>1, <1>8, AppendProperties
  <2>3. DOMAIN interactions' = 1 .. Len(interactions')
    BY <2>2, LenProperties
  <2> QED
    BY <2>1, <2>2, <2>3
<1> QED
  BY <1>1, <1>7, <1>8

\* The run's notification row, its status when no decision is made, and faults.
LEMMA RowAndFaultsType ==
  ASSUME TypeOK, SlackTeam, [Next]_vars
  PROVE  /\ notification' \in Notification
         /\ faults' \in Nat
         /\ LeavesCase => status' \in Status
<1> USE DEF db
<1>1. /\ notification \in Notification /\ faults \in Nat /\ status \in Status
      /\ faults + 1 \in Nat
      /\ worker \in [Worker -> Request]
  BY DEF TypeOK
<1>2. ASSUME UNCHANGED <<notification, status>>, Fault \/ UNCHANGED faults
      PROVE  notification' \in Notification /\ faults' \in Nat /\ status' \in Status
  BY <1>1, <1>2 DEF Fault
<1>3. ASSUME NEW ts \in DOMAIN cards, NEW action \in Action,
             Press(ts, action) \/ OpenModal(ts, action)
               \/ \E w \in Worker : RefuseModal(w, ts, action)
      PROVE  UNCHANGED <<notification, status, faults>>
  BY <1>3 DEF Press, OpenModal, RefuseModal
<1>4. ASSUME NEW w \in Worker,
             \/ \E id \in DOMAIN interactions : Deliver(w, id)
             \/ CallNotify(w)
             \/ Refuse(w)
             \/ Crash(w)
      PROVE  UNCHANGED <<notification, status>> /\ (Fault \/ UNCHANGED faults)
  BY <1>4 DEF Deliver, CallNotify, Refuse, Crash
<1>5. ASSUME NEW w \in Worker, CardWork(w)
      PROVE  UNCHANGED <<notification, status>> /\ (Fault \/ UNCHANGED faults)
  BY <1>5 DEF CardWork, FinishRead, FinishUpdate, Settle, RedrawLoad, RedrawControls, RedrawMatch, Redraw
<1>6. ASSUME NEW w \in Worker, Close(w) \/ HandOff(w) \/ InPlace(w)
      PROVE  UNCHANGED <<notification, faults>> /\ status' \in Status
  BY <1>1, <1>6 DEF Close, HandOff, InPlace, Status
<1>7. ASSUME NEW w \in Worker, Notify(w), ~NotifyRecord(w)
      PROVE  UNCHANGED notification /\ (Fault \/ UNCHANGED faults) /\ status' \in Status
  BY <1>1, <1>7 DEF Notify, NotifyCheck, NotifyClaim, NotifyRefused, SlackPosts,
                    SlackRefuses, Status
<1>8. ASSUME NEW w \in Worker, NotifyRecord(w)
      PROVE  notification' \in Notification /\ UNCHANGED faults /\ status' \in Status
  <2>1. worker[w] \in Request
    BY <1>1
  <2> QED
    BY <1>1, <1>8, <2>1 DEF NotifyRecord, Notification, Request, Status
<1>9. CASE Recover \/ UNCHANGED vars
  BY <1>1, <1>9 DEF Recover, vars, Status
<1>10. ASSUME UNCHANGED notification, Fault \/ UNCHANGED faults
       PROVE  notification' \in Notification /\ faults' \in Nat
  BY <1>1, <1>10 DEF Fault
<1> QED
  BY <1>1, <1>2, <1>3, <1>4, <1>5, <1>6, <1>7, <1>8, <1>9, <1>10 DEF Next, Decide

-----------------------------------------------------------------------------
(* The decisions                                                            *)

\* A decision adds one row at the end; the rows before it stay.
LEMMA DecisionRow ==
  ASSUME TypeOK, NEW row \in Decision, decisions' = Append(decisions, row)
  PROVE  /\ decisions' \in Seq(Decision)
         /\ Len(decisions') = Len(decisions) + 1
         /\ DOMAIN decisions = 1 .. Len(decisions)
         /\ DOMAIN decisions' = 1 .. Len(decisions')
         /\ Len(decisions) \in Nat
         /\ \A i \in DOMAIN decisions : decisions'[i] = decisions[i]
         /\ decisions'[Len(decisions) + 1] = row
         /\ \A action \in Action :
              RowsOf(action)' =
                RowsOf(action) \cup (IF row.action = action THEN {Len(decisions) + 1} ELSE {})
<1>1. decisions \in Seq(Decision)
  BY DEF TypeOK
<1>2. /\ decisions' \in Seq(Decision)
      /\ Len(decisions') = Len(decisions) + 1
      /\ \A i \in 1 .. Len(decisions) : decisions'[i] = decisions[i]
      /\ decisions'[Len(decisions) + 1] = row
  BY <1>1, AppendProperties
<1>3. /\ DOMAIN decisions = 1 .. Len(decisions) /\ Len(decisions) \in Nat
      /\ DOMAIN decisions' = 1 .. Len(decisions')
  BY <1>1, <1>2, LenProperties
<1>4. DOMAIN decisions' = DOMAIN decisions \cup {Len(decisions) + 1}
  BY <1>2, <1>3
<1>5. ASSUME NEW action \in Action
      PROVE  RowsOf(action)' =
               RowsOf(action) \cup (IF row.action = action THEN {Len(decisions) + 1} ELSE {})
  BY <1>2, <1>3, <1>4 DEF RowsOf
<1> QED
  BY <1>2, <1>3, <1>5

\* What a decision is made of.
LEMMA DecidedRow ==
  ASSUME SafeInv, NEW w \in Worker, Decides(w)
  PROVE  \E row \in Decision :
           /\ decisions' = Append(decisions, row)
           /\ row.shown = destination
           /\ row.action \in Controls
           /\ row.action = "SEND_BACK" => EscalatedFrom # NoTeam
           /\ status # "COMPLETED"
           /\ row.action \notin NON_FINAL =>
                status' = "COMPLETED" /\ destination' = destination
           /\ row.action \in NON_FINAL \ IN_PLACE =>
                /\ status' = "REVIEW_READY"
                /\ destination' = handoff_destination(row.action, EscalatedFrom)
           /\ row.action \in IN_PLACE => UNCHANGED <<status, destination>>
<1> DEFINE request == interactions[worker[w].id]
           row == [id |-> worker[w].id, action |-> request.action,
                   shown |-> destination, ts |-> request.ts]
<1>1. request \in Interaction
  BY RowTypes DEF Decides, SafeInv
<1>2. worker[w].id \in Nat
  BY DEF SafeInv, TypeOK, Request
<1>3. row \in Decision
  BY <1>1, <1>2 DEF Interaction, Decision, SafeInv, TypeOK
<1>4. /\ row.action = request.action /\ row.shown = destination
      /\ decisions' = Append(decisions, row)
  BY DEF Decides
<1>5. /\ request.action \in Controls
      /\ request.action = "SEND_BACK" => EscalatedFrom # NoTeam
      /\ status # "COMPLETED"
  BY DEF Decides, Accepts, ActionAllowed, DecidableStatuses
<1>6. IN_PLACE \subseteq NON_FINAL
  BY DEF NON_FINAL, NOTE_ACTIONS
<1>7. /\ request.action \notin NON_FINAL =>
           status' = "COMPLETED" /\ destination' = destination
      /\ request.action \in NON_FINAL \ IN_PLACE =>
           /\ status' = "REVIEW_READY"
           /\ destination' = handoff_destination(request.action, EscalatedFrom)
      /\ request.action \in IN_PLACE => UNCHANGED <<status, destination>>
  BY <1>6 DEF Decides
<1> HIDE DEF row, request
<1> QED
  BY <1>3, <1>4, <1>5, <1>7

\* What a request holds when it comes to decide or to post.
NewWork(v) ==
  \/ worker'[v] = worker[v]
  \/ worker'[v].pc \notin {"decide", "post", "record", "redraw_controls"}
  \/ worker'[v].pc = "decide" /\ worker'[v].id \in DOMAIN interactions
  \/ worker'[v].pc \in {"post", "redraw_controls"} /\ worker'[v].team = destination
  \/ /\ worker[v].pc = "post" /\ worker'[v].pc = "record"
     /\ worker'[v].team = worker[v].team

LEMMA NewWorkStep ==
  ASSUME TypeOK, [Next]_vars
  PROVE  \A v \in Worker : NewWork(v)
<1>1. worker \in [Worker -> Request]
  BY DEF TypeOK
<1> SUFFICES ASSUME NEW v \in Worker
             PROVE  NewWork(v)
  OBVIOUS
<1>2. worker[v] \in Request
  BY <1>1
<1>3. Idle.pc = "idle" /\ \A ts : AfterRefusal(ts).pc \in {"idle", "settle", "redraw_load"}
  BY DEF Idle, AfterRefusal
<1>4. ASSUME NEW ts \in DOMAIN cards, NEW action \in Action,
             Press(ts, action) \/ OpenModal(ts, action)
               \/ \E w \in Worker : RefuseModal(w, ts, action)
      PROVE  NewWork(v)
  BY <1>1, <1>3, <1>4 DEF Press, OpenModal, RefuseModal, NewWork
<1>5. ASSUME NEW w \in Worker, NEW id \in DOMAIN interactions, Deliver(w, id)
      PROVE  NewWork(v)
  BY <1>1, <1>3, <1>5 DEF Deliver, NewWork, Idle
<1>6. ASSUME NEW w \in Worker, CallNotify(w) \/ Crash(w)
      PROVE  NewWork(v)
  BY <1>1, <1>3, <1>6 DEF CallNotify, Crash, NewWork, Idle
<1>7. ASSUME NEW w \in Worker, Decide(w)
      PROVE  NewWork(v)
  BY <1>1, <1>3, <1>7 DEF Decide, Close, HandOff, InPlace, Refuse, NewWork, Idle
<1>8. ASSUME NEW w \in Worker, CardWork(w)
      PROVE  NewWork(v)
  <2> DEFINE Found == [worker[w] EXCEPT !.pc = "finish_update", !.ts = notification.ts]
             Loaded == [worker[w] EXCEPT !.pc = "redraw_controls", !.team = destination]
             Offered == [worker[w] EXCEPT !.pc = "redraw_match",
                                          !.controls = ControlsFor(worker[w].team)]
             Matched == [worker[w] EXCEPT !.pc = "redraw", !.ts = notification.ts]
             Done == [Idle EXCEPT !.pc = "idle"]
             Handed == [Idle EXCEPT !.pc = "check"]
  <2>1. worker[w] \in Request
    BY <1>1
  <2>2. /\ Found.pc = "finish_update" /\ Matched.pc = "redraw" /\ Offered.pc = "redraw_match"
        /\ Loaded.pc = "redraw_controls" /\ Loaded.team = destination
        /\ Done.pc = "idle" /\ Handed.pc = "check"
    BY <2>1 DEF Request, Idle
  <2>3. FinishRead(w) => \/ worker' = [worker EXCEPT ![w] = Found]
                         \/ worker' = [worker EXCEPT ![w] = Done]
                         \/ worker' = [worker EXCEPT ![w] = Handed]
    BY DEF FinishRead
  <2>4. FinishUpdate(w) => \/ worker' = [worker EXCEPT ![w] = Done]
                           \/ worker' = [worker EXCEPT ![w] = Handed]
    BY DEF FinishUpdate
  <2>5. RedrawLoad(w) => \/ worker' = [worker EXCEPT ![w] = Loaded]
                         \/ worker' = [worker EXCEPT ![w] = Idle]
    BY DEF RedrawLoad
  <2>6. RedrawMatch(w) => \/ worker' = [worker EXCEPT ![w] = Matched]
                          \/ worker' = [worker EXCEPT ![w] = Idle]
    BY DEF RedrawMatch
  <2>7. Settle(w) \/ Redraw(w) => worker' = [worker EXCEPT ![w] = Idle]
    BY DEF Settle, Redraw
  <2>8. RedrawControls(w) => worker' = [worker EXCEPT ![w] = Offered]
    BY DEF RedrawControls
  <2> HIDE DEF Found, Loaded, Offered, Matched, Done, Handed
  <2>9. \E r \in {Found, Loaded, Offered, Matched, Done, Handed, Idle} :
          worker' = [worker EXCEPT ![w] = r]
    BY <1>8, <2>3, <2>4, <2>5, <2>6, <2>7, <2>8 DEF CardWork
  <2>10. v # w => worker'[v] = worker[v]
    BY <1>1, <2>9
  <2>11. \/ worker'[w].pc \notin {"decide", "post", "record", "redraw_controls"}
         \/ worker'[w].pc = "redraw_controls" /\ worker'[w].team = destination
    BY <1>1, <1>3, <2>2, <2>9
  <2> QED
    BY <2>10, <2>11 DEF NewWork
<1>10. ASSUME NEW w \in Worker,
              NotifyCheck(w) \/ NotifyClaim(w) \/ NotifyRefused(w) \/ NotifyRecord(w)
       PROVE  NewWork(v)
  BY <1>1, <1>3, <1>10 DEF NotifyCheck, NotifyClaim, NotifyRefused, NotifyRecord,
                           NewWork, Idle
<1>11. ASSUME NEW w \in Worker, SlackPosts(w) \/ SlackRefuses(w)
       PROVE  NewWork(v)
  <2> DEFINE Posted(post) == [worker[w] EXCEPT !.pc = "record", !.post = post]
             Answered == [worker[w] EXCEPT !.pc = "record", !.post = "POSTED",
                                           !.ts = Len(cards) + 1]
  <2>1. worker[w] \in Request
    BY <1>1
  <2>2. /\ \A post : Posted(post).pc = "record" /\ Posted(post).team = worker[w].team
        /\ Answered.pc = "record" /\ Answered.team = worker[w].team
    BY <2>1 DEF Request
  <2>3. /\ worker[w].pc = "post"
        /\ \/ worker' = [worker EXCEPT ![w] = Answered]
           \/ \E post : worker' = [worker EXCEPT ![w] = Posted(post)]
    BY <1>11 DEF SlackPosts, SlackRefuses
  <2> HIDE DEF Posted, Answered
  <2>4. v # w => worker'[v] = worker[v]
    BY <1>1, <2>3
  <2>5. worker'[w].pc = "record" /\ worker'[w].team = worker[w].team
    BY <1>1, <2>2, <2>3
  <2> QED
    BY <2>3, <2>4, <2>5 DEF NewWork
<1>12. ASSUME Recover \/ UNCHANGED vars
       PROVE  NewWork(v)
  BY <1>12 DEF Recover, vars, NewWork
<1> QED
  BY <1>4, <1>5, <1>6, <1>7, <1>8, <1>10, <1>11, <1>12 DEF Next, Notify

-----------------------------------------------------------------------------
(* The invariant and what follows from it                                   *)

LEMMA SafeInit == Init => SafeInv
<1> SUFFICES ASSUME Init PROVE SafeInv
  OBVIOUS
<1>1. decisions = <<>> /\ DOMAIN decisions = {} /\ DOMAIN interactions = {}
  BY DEF Init
<1>2. notification \in Notification
  BY DEF Init, NoNotification, Notification
<1>3. worker \in [Worker -> Request] /\ \A w \in Worker : worker[w].pc = "idle"
  BY IdleRequest DEF Init, Idle
<1>4. TypeOK
  BY <1>2, <1>3 DEF TypeOK, Init, Status, Team
<1>5. RowsOf("ESCALATE") = {}
  BY <1>1 DEF RowsOf
<1> QED
  BY <1>1, <1>3, <1>4, <1>5 DEF SafeInv, DecideKnown, SlackTeam, InSlackPost,
     OneFinalDecision, OneEscalation, NotEscalatedTwice

\* A hand-off of a case as SafeInv describes it has somewhere to go.
LEMMA HandOffTyped ==
  ASSUME SafeInv, NEW action \in NON_FINAL \ IN_PLACE, action \in Controls,
         action = "SEND_BACK" => EscalatedFrom # NoTeam
  PROVE  /\ handoff_destination(action, EscalatedFrom) \in Team
         /\ handoff_destination(action, EscalatedFrom) # destination
<1>1. EscalatedFrom \in Team \cup {NoTeam}
  BY EscalatedFromRow DEF SafeInv
<1>2. EscalatedFrom # "ESCALATED"
  <2>1. CASE RowsOf("ESCALATE") = {}
    BY <2>1, EscalatedFromRow DEF SafeInv, NoTeam
  <2>2. CASE RowsOf("ESCALATE") # {}
    BY <2>2, EscalatedFromRow DEF SafeInv, NotEscalatedTwice
  <2> QED
    BY <2>1, <2>2
<1>3. destination \in Team /\ InformationOpen \in BOOLEAN
  BY DEF SafeInv, TypeOK, InformationOpen
<1> QED
  BY <1>1, <1>2, <1>3, HandOffMoves DEF Controls, ControlsFor

LEMMA SafeNext == SafeInv /\ [Next]_vars => SafeInv'
<1> SUFFICES ASSUME SafeInv, [Next]_vars
             PROVE  SafeInv'
  OBVIOUS
<1> USE DEF SafeInv
<1>1. worker' \in [Worker -> Request] /\ cards' \in Seq(Card)
  BY WorkerType, CardsType
<1>2. /\ interactions' \in Seq(Interaction)
      /\ DOMAIN interactions \subseteq DOMAIN interactions'
  BY InteractionsStep
<1>3. /\ notification' \in Notification /\ faults' \in Nat
      /\ LeavesCase => status' \in Status
  BY RowAndFaultsType
<1>4. DecideKnown'
  BY <1>2, NewWorkStep DEF NewWork, DecideKnown
<1>5. SlackTeam'
  BY NewWorkStep DEF NewWork, SlackTeam, InSlackPost, TypeOK
<1>6. CASE LeavesCase
  <2>1. UNCHANGED <<decisions, destination>> /\ (status' = "COMPLETED" <=> status = "COMPLETED")
    BY <1>6 DEF LeavesCase
  <2>2. TypeOK'
    BY <1>1, <1>2, <1>3, <1>6, <2>1 DEF TypeOK
  <2>3. OneFinalDecision' /\ OneEscalation' /\ NotEscalatedTwice'
    BY <2>1 DEF OneFinalDecision, OneEscalation, NotEscalatedTwice, RowsOf
  <2> QED
    BY <1>4, <1>5, <2>2, <2>3
<1>7. ASSUME NEW w \in Worker, Decides(w)
      PROVE  SafeInv'
  <2>1. PICK row \in Decision :
          /\ decisions' = Append(decisions, row)
          /\ row.shown = destination
          /\ row.action \in Controls
          /\ row.action = "SEND_BACK" => EscalatedFrom # NoTeam
          /\ status # "COMPLETED"
          /\ row.action \notin NON_FINAL =>
               status' = "COMPLETED" /\ destination' = destination
          /\ row.action \in NON_FINAL \ IN_PLACE =>
               /\ status' = "REVIEW_READY"
               /\ destination' = handoff_destination(row.action, EscalatedFrom)
          /\ row.action \in IN_PLACE => UNCHANGED <<status, destination>>
    BY <1>7, DecidedRow
  <2>2. row.action \in Action
    BY DEF Decision
  <2>3. status' \in Status /\ destination' \in Team
    BY <2>1, HandOffTyped DEF TypeOK, Status
  <2>4. /\ decisions' \in Seq(Decision)
        /\ Len(decisions') = Len(decisions) + 1
        /\ DOMAIN decisions = 1 .. Len(decisions)
        /\ DOMAIN decisions' = 1 .. Len(decisions')
        /\ Len(decisions) \in Nat
        /\ \A i \in DOMAIN decisions : decisions'[i] = decisions[i]
        /\ decisions'[Len(decisions) + 1] = row
        /\ \A action \in Action :
             RowsOf(action)' =
               RowsOf(action) \cup (IF row.action = action THEN {Len(decisions) + 1} ELSE {})
    BY <2>1, DecisionRow
  <2>5. TypeOK'
    BY <1>1, <1>2, <1>3, <2>3, <2>4 DEF TypeOK
  <2>6. OneFinalDecision'
    <3>1. \A i \in DOMAIN decisions : decisions[i].action \in NON_FINAL
      BY <2>1 DEF OneFinalDecision
    <3> QED
      BY <2>1, <2>4, <3>1 DEF OneFinalDecision
  <2>7. OneEscalation' /\ NotEscalatedTwice'
    <3>1. "ESCALATE" \in Action
      BY DEF Action, NON_FINAL, NOTE_ACTIONS
    <3>2. CASE row.action = "ESCALATE"
      <4>1. EscalatedFrom = NoTeam /\ destination # "ESCALATED"
        <5>1. destination \in Team /\ InformationOpen \in BOOLEAN
          BY DEF TypeOK, InformationOpen
        <5>2. "ESCALATE" \in allowed_actions(destination, InformationOpen,
                                             EscalatedFrom # NoTeam)
          BY <2>1, <3>2 DEF Controls, ControlsFor
        <5> QED
          BY <5>1, <5>2, EscalateOffered
      <4>2. RowsOf("ESCALATE") = {}
        BY <4>1, EscalatedFromRow
      <4>3. RowsOf("ESCALATE")' = {Len(decisions) + 1}
        BY <2>4, <3>1, <3>2, <4>2
      <4> QED
        BY <2>1, <2>4, <4>1, <4>3 DEF OneEscalation, NotEscalatedTwice
    <3>3. CASE row.action # "ESCALATE"
      <4>1. RowsOf("ESCALATE")' = RowsOf("ESCALATE")
        BY <2>4, <3>1, <3>3
      <4>2. \A i \in RowsOf("ESCALATE") : i \in DOMAIN decisions
        BY DEF RowsOf
      <4> QED
        BY <2>4, <4>1, <4>2 DEF OneEscalation, NotEscalatedTwice
    <3> QED
      BY <3>2, <3>3
  <2> QED
    BY <1>4, <1>5, <2>5, <2>6, <2>7
<1> QED
  BY <1>6, <1>7, CaseStep

\* Every value stays of its type, the destination a team above all: a Send back
\* always has an escalator to return to.
THEOREM TypeCorrect == Spec => []TypeOK
<1>1. SafeInv => TypeOK
  BY DEF SafeInv
<1> QED
  BY <1>1, SafeInit, SafeNext, PTL DEF Spec

\* A run is closed by at most one decision, the last (record_decision, I03).
THEOREM ClosedOnce == Spec => []OneFinalDecision
<1>1. SafeInv => OneFinalDecision
  BY DEF SafeInv
<1> QED
  BY <1>1, SafeInit, SafeNext, PTL DEF Spec

\* A case is escalated at most once (allowed_actions, I42).
THEOREM EscalatedOnce == Spec => []OneEscalation
<1>1. SafeInv => OneEscalation
  BY DEF SafeInv
<1> QED
  BY <1>1, SafeInit, SafeNext, PTL DEF Spec

\* Nothing changes a closed run's status, destination or decisions, whatever
\* notify calls, deliveries and recoveries are still in flight.
THEOREM ClosedForGood == Spec => ClosedIsFinal
<1>1. ASSUME SafeInv, [Next]_vars
      PROVE  [status = "COMPLETED" => UNCHANGED <<status, destination, decisions>>]_vars
  <2>1. CASE LeavesCase
    BY <2>1 DEF LeavesCase
  <2>2. ASSUME NEW w \in Worker, Decides(w)
        PROVE  status # "COMPLETED"
    BY <1>1, <2>2, DecidedRow
  <2> QED
    BY <1>1, <2>1, <2>2, CaseStep DEF SafeInv
<1> QED
  BY <1>1, SafeInit, SafeNext, PTL DEF Spec, ClosedIsFinal

-----------------------------------------------------------------------------
(* The case file                                                            *)

\* The information requests are at most one ahead of the answers.
QuestionInv ==
  LET asked == Cardinality(RowsOf("REQUEST_MORE_INFORMATION"))
      answered == Cardinality(RowsOf("INFORMATION_RECEIVED"))
  IN  asked = answered \/ asked = answered + 1

CaseInv == SafeInv /\ QuestionInv

LEMMA RowsFinite ==
  ASSUME TypeOK, NEW action
  PROVE  /\ IsFiniteSet(RowsOf(action)) /\ Cardinality(RowsOf(action)) \in Nat
         /\ Len(decisions) + 1 \notin RowsOf(action)
<1>1. DOMAIN decisions = 1 .. Len(decisions) /\ Len(decisions) \in Nat
  BY LenProperties DEF TypeOK
<1>2. IsFiniteSet(DOMAIN decisions)
  BY <1>1, FS_Interval
<1>3. RowsOf(action) \subseteq DOMAIN decisions
  BY DEF RowsOf
<1> QED
  BY <1>1, <1>2, <1>3, FS_Subset, FS_CardinalityType

\* What a decision does to the case file: it opens or answers a question, or
\* escalates, and that is all.
LEMMA CaseFileStep ==
  ASSUME CaseInv, NEW row \in Decision, decisions' = Append(decisions, row),
         row.shown = destination, row.action \in Controls
  PROVE  /\ QuestionInv'
         /\ InformationOpen' = IF row.action = "REQUEST_MORE_INFORMATION" THEN TRUE
                               ELSE IF row.action = "INFORMATION_RECEIVED" THEN FALSE
                               ELSE InformationOpen
         /\ EscalatedFrom' = IF row.action = "ESCALATE" THEN destination ELSE EscalatedFrom
<1> DEFINE ask == "REQUEST_MORE_INFORMATION"
           answer == "INFORMATION_RECEIVED"
           esc == "ESCALATE"
           n == Len(decisions) + 1
           asked == Cardinality(RowsOf(ask))
           answered == Cardinality(RowsOf(answer))
<1>1. TypeOK /\ OneEscalation /\ QuestionInv
  BY DEF CaseInv, SafeInv
<1>2. ask \in Action /\ answer \in Action /\ esc \in Action
  BY DEF Action, NON_FINAL, NOTE_ACTIONS, IN_PLACE
<1>3. /\ n \in Nat
      /\ \A i \in DOMAIN decisions : decisions'[i] = decisions[i]
      /\ decisions'[n] = row
      /\ \A action \in Action :
           RowsOf(action)' = RowsOf(action) \cup (IF row.action = action THEN {n} ELSE {})
  BY <1>1, DecisionRow
<1>4. \A action \in Action :
        Cardinality(RowsOf(action)') =
          Cardinality(RowsOf(action)) + (IF row.action = action THEN 1 ELSE 0)
  <2> SUFFICES ASSUME NEW action \in Action
               PROVE  Cardinality(RowsOf(action)') =
                        Cardinality(RowsOf(action)) + (IF row.action = action THEN 1 ELSE 0)
    OBVIOUS
  <2>1. /\ IsFiniteSet(RowsOf(action)) /\ Cardinality(RowsOf(action)) \in Nat
        /\ n \notin RowsOf(action)
    BY <1>1, RowsFinite
  <2>2. CASE row.action = action
    <3>1. RowsOf(action)' = RowsOf(action) \cup {n}
      BY <1>3, <2>2
    <3> QED
      BY <2>1, <2>2, <3>1, FS_AddElement
  <2>3. CASE row.action # action
    <3>1. RowsOf(action)' = RowsOf(action)
      BY <1>3, <2>3
    <3> QED
      BY <2>1, <2>3, <3>1
  <2> QED
    BY <2>2, <2>3
<1>5. /\ asked' = asked + (IF row.action = ask THEN 1 ELSE 0)
      /\ answered' = answered + (IF row.action = answer THEN 1 ELSE 0)
      /\ asked \in Nat /\ answered \in Nat
  BY <1>1, <1>2, <1>4, RowsFinite
<1>6. /\ InformationOpen <=> asked > answered
      /\ InformationOpen' <=> asked' > answered'
      /\ QuestionInv <=> asked = answered \/ asked = answered + 1
      /\ QuestionInv' <=> asked' = answered' \/ asked' = answered' + 1
  BY DEF InformationOpen, QuestionInv
<1>7. row.action = ask => ~InformationOpen
  BY DEF Controls, ControlsFor, allowed_actions
<1>8. row.action = answer => InformationOpen
  <2>1. destination \in Team
    BY <1>1 DEF TypeOK
  <2> QED
    BY <2>1 DEF Controls, ControlsFor, allowed_actions, ACTIONS_FOR, Team, RoutedTeam
<1> HIDE DEF asked, answered
<1>9. QuestionInv'
  BY <1>1, <1>5, <1>6, <1>7, <1>8
<1>10. InformationOpen' <=> IF row.action = ask THEN TRUE
                            ELSE IF row.action = answer THEN FALSE
                            ELSE InformationOpen
  BY <1>1, <1>5, <1>6, <1>7, <1>8
<1>11. EscalatedFrom' = IF row.action = esc THEN destination ELSE EscalatedFrom
  <2>1. RowsOf(esc)' = RowsOf(esc) \cup (IF row.action = esc THEN {n} ELSE {})
    BY <1>2, <1>3
  <2>2. CASE row.action = esc
    <3>1. EscalatedFrom = NoTeam
      <4>1. destination \in Team /\ InformationOpen \in BOOLEAN
        BY <1>1 DEF TypeOK, InformationOpen
      <4>2. esc \in allowed_actions(destination, InformationOpen, EscalatedFrom # NoTeam)
        BY <2>2 DEF Controls, ControlsFor
      <4> QED
        BY <4>1, <4>2, EscalateOffered
    <3>2. RowsOf(esc)' = {n}
      BY <1>1, <2>1, <2>2, <3>1, EscalatedFromRow
    <3>3. (CHOOSE i \in {n} : \A j \in {n} : j <= i) = n
      BY <1>3
    <3>4. EscalatedFrom' = decisions'[n].shown
      BY <3>2, <3>3 DEF EscalatedFrom
    <3> QED
      BY <1>3, <2>2, <3>4
  <2>3. CASE row.action # esc
    <3>1. RowsOf(esc)' = RowsOf(esc)
      BY <2>1, <2>3
    <3>2. CASE RowsOf(esc) = {}
      BY <2>3, <3>1, <3>2 DEF EscalatedFrom
    <3>3. CASE RowsOf(esc) # {}
      <4>1. PICK i \in RowsOf(esc) : TRUE
        BY <3>3
      <4>2. RowsOf(esc) = {i} /\ i \in DOMAIN decisions /\ i \in Nat
        <5>1. RowsOf(esc) = {i}
          BY <1>1, <4>1 DEF OneEscalation
        <5>2. i \in DOMAIN decisions
          BY <4>1 DEF RowsOf
        <5> QED
          BY <1>1, <5>1, <5>2, LenProperties DEF TypeOK
      <4>3. (CHOOSE k \in {i} : \A j \in {i} : j <= k) = i
        BY <4>2
      <4>4. EscalatedFrom' = decisions'[i].shown /\ EscalatedFrom = decisions[i].shown
        BY <3>1, <4>2, <4>3 DEF EscalatedFrom
      <4> QED
        BY <1>3, <2>3, <4>2, <4>4
    <3> QED
      BY <3>2, <3>3
  <2> QED
    BY <2>2, <2>3
<1>12. InformationOpen \in BOOLEAN /\ InformationOpen' \in BOOLEAN
  BY DEF InformationOpen
<1> QED
  BY <1>9, <1>10, <1>11, <1>12

\* Case and Triage read the same tables.
LEMMA SharedTables ==
  /\ CaseFile!NoTeam = NoTeam /\ CaseFile!RoutedTeam = RoutedTeam
  /\ CaseFile!HANDOFFS = HANDOFFS /\ CaseFile!NON_FINAL = NON_FINAL
  /\ CaseFile!Offered = Controls
<1>1. CaseFile!NoTeam = NoTeam /\ CaseFile!RoutedTeam = RoutedTeam
  BY DEF NoTeam, CaseFile!NoTeam, RoutedTeam, CaseFile!RoutedTeam
<1>2. CaseFile!HANDOFFS = HANDOFFS
  BY DEF HANDOFFS, CaseFile!HANDOFFS
<1>3. CaseFile!NON_FINAL = NON_FINAL
  BY <1>2 DEF NON_FINAL, CaseFile!NON_FINAL, NOTE_ACTIONS, CaseFile!NOTE_ACTIONS, IN_PLACE,
     CaseFile!IN_PLACE
<1>4. CaseFile!ACTIONS_FOR = ACTIONS_FOR
  BY DEF ACTIONS_FOR, CaseFile!ACTIONS_FOR
<1>5. CaseFile!Offered = Controls
  BY <1>1, <1>4 DEF CaseFile!Offered, Controls, ControlsFor, allowed_actions,
     CaseFile!allowed_actions
<1> QED
  BY <1>1, <1>2, <1>3, <1>5

LEMMA CaseInit == Init => CaseInv /\ CaseFile!Init
<1> SUFFICES ASSUME Init PROVE CaseInv /\ CaseFile!Init
  OBVIOUS
<1>1. SafeInv
  BY SafeInit
<1>2. \A action : RowsOf(action) = {}
  BY DEF Init, RowsOf
<1>3. ~InformationOpen /\ EscalatedFrom = NoTeam /\ QuestionInv
  BY <1>2, FS_EmptySet DEF InformationOpen, EscalatedFrom, QuestionInv
<1>4. InformationOpen = FALSE /\ (status = "COMPLETED") = FALSE
  BY <1>3 DEF Init, InformationOpen
<1> QED
  BY <1>1, <1>3, <1>4, SharedTables DEF CaseInv, CaseFile!Init, Init

\* A recorded decision is a step of the case.
LEMMA DecideIsACaseStep ==
  ASSUME CaseInv, NEW w \in Worker, Decides(w)
  PROVE  QuestionInv' /\ CaseFile!Next
<1> DEFINE open == InformationOpen
           from == EscalatedFrom
<1>1. PICK row \in Decision :
        /\ decisions' = Append(decisions, row)
        /\ row.shown = destination
        /\ row.action \in Controls
        /\ row.action = "SEND_BACK" => EscalatedFrom # NoTeam
        /\ status # "COMPLETED"
        /\ row.action \notin NON_FINAL =>
             status' = "COMPLETED" /\ destination' = destination
        /\ row.action \in NON_FINAL \ IN_PLACE =>
             /\ status' = "REVIEW_READY"
             /\ destination' = handoff_destination(row.action, EscalatedFrom)
        /\ row.action \in IN_PLACE => UNCHANGED <<status, destination>>
  BY DecidedRow DEF CaseInv
<1>2. /\ QuestionInv'
      /\ open' = IF row.action = "REQUEST_MORE_INFORMATION" THEN TRUE
                 ELSE IF row.action = "INFORMATION_RECEIVED" THEN FALSE ELSE open
      /\ from' = IF row.action = "ESCALATE" THEN destination ELSE from
  BY <1>1, CaseFileStep
<1>3. row.action \in CaseFile!Offered
  BY <1>1, SharedTables
<1>9. /\ CaseFile!HANDOFFS = HANDOFFS /\ CaseFile!NON_FINAL = NON_FINAL
      /\ CaseFile!NoTeam = NoTeam
  BY SharedTables
<1> HIDE DEF open, from
<1>4. CASE row.action \notin NON_FINAL
  <2>1. CaseFile!Close
    BY <1>1, <1>2, <1>3, <1>4, <1>9 DEF CaseFile!Close, open, from, NON_FINAL, NOTE_ACTIONS,
       IN_PLACE
  <2> QED
    BY <1>2, <2>1 DEF CaseFile!Next
<1>5. CASE row.action \in DOMAIN HANDOFFS
  <2>1. row.action \in NON_FINAL \ IN_PLACE /\ row.action # "SEND_BACK"
    BY <1>5 DEF NON_FINAL, HANDOFFS, NOTE_ACTIONS, IN_PLACE
  <2>2. CaseFile!HandOver(row.action)
    BY <1>1, <1>2, <1>3, <1>5, <1>9, <2>1 DEF CaseFile!HandOver, open, from,
       handoff_destination, IN_PLACE
  <2> QED
    BY <1>2, <1>5, <1>9, <2>2 DEF CaseFile!Next
<1>6. CASE row.action = "SEND_BACK"
  <2>1. row.action \in NON_FINAL \ IN_PLACE
    BY <1>6 DEF NON_FINAL, NOTE_ACTIONS, IN_PLACE
  <2>2. CaseFile!SendBack
    BY <1>1, <1>2, <1>3, <1>6, <1>9, <2>1 DEF CaseFile!SendBack, open, from, handoff_destination
  <2> QED
    BY <1>2, <2>2 DEF CaseFile!Next
<1>7. CASE row.action = "REQUEST_MORE_INFORMATION"
  <2>1. CaseFile!Ask
    BY <1>1, <1>2, <1>3, <1>7 DEF CaseFile!Ask, open, from, IN_PLACE
  <2> QED
    BY <1>2, <2>1 DEF CaseFile!Next
<1>8. CASE row.action = "INFORMATION_RECEIVED"
  <2>1. CaseFile!Answer
    BY <1>1, <1>2, <1>3, <1>8 DEF CaseFile!Answer, open, from, IN_PLACE
  <2> QED
    BY <1>2, <2>1 DEF CaseFile!Next
<1> QED
  BY <1>4, <1>5, <1>6, <1>7, <1>8 DEF NON_FINAL, HANDOFFS, NOTE_ACTIONS, IN_PLACE

\* Every other step leaves the case file as it is.
LEMMA LeftCaseStutters ==
  ASSUME CaseInv, LeavesCase
  PROVE  QuestionInv' /\ UNCHANGED CaseFile!vars
<1>1. \A action : RowsOf(action)' = RowsOf(action)
  BY DEF LeavesCase, RowsOf
<1>2. InformationOpen' = InformationOpen /\ EscalatedFrom' = EscalatedFrom
  <2> DEFINE From(E, rows) ==
               IF E = {} THEN NoTeam ELSE rows[CHOOSE i \in E : \A j \in E : j <= i].shown
  <2>1. RowsOf("ESCALATE")' = RowsOf("ESCALATE") /\ decisions' = decisions
    BY <1>1 DEF LeavesCase
  <2>2. EscalatedFrom' = EscalatedFrom
    <3>1. /\ EscalatedFrom = From(RowsOf("ESCALATE"), decisions)
          /\ EscalatedFrom' = From(RowsOf("ESCALATE")', decisions')
      BY Zenon DEF EscalatedFrom
    <3> HIDE DEF From
    <3> QED
      BY <2>1, <3>1
  <2>3. InformationOpen' <=> InformationOpen
    BY <1>1 DEF InformationOpen
  <2>4. InformationOpen \in BOOLEAN /\ InformationOpen' \in BOOLEAN
    BY DEF InformationOpen
  <2> QED
    BY <2>2, <2>3, <2>4
<1>3. QuestionInv'
  BY <1>1 DEF CaseInv, QuestionInv
<1>4. destination' = destination /\ (status = "COMPLETED")' = (status = "COMPLETED")
  BY DEF LeavesCase
<1> QED
  BY <1>2, <1>3, <1>4 DEF CaseFile!vars

LEMMA CaseNext == CaseInv /\ [Next]_vars => CaseInv' /\ [CaseFile!Next]_(CaseFile!vars)
<1> SUFFICES ASSUME CaseInv, [Next]_vars
             PROVE  CaseInv' /\ [CaseFile!Next]_(CaseFile!vars)
  OBVIOUS
<1>1. SafeInv'
  BY SafeNext DEF CaseInv
<1>2. LeavesCase \/ \E w \in Worker : Decides(w)
  BY CaseStep DEF CaseInv, SafeInv
<1> QED
  BY <1>1, <1>2, DecideIsACaseStep, LeftCaseStutters DEF CaseInv

\* Whatever Slack, deliveries, faults and people do, the case moves only as Case
\* allows.
THEOREM Implementation == Spec => ImplementsCase
  BY CaseInit, CaseNext, PTL DEF Spec, ImplementsCase, CaseFile!Spec

-----------------------------------------------------------------------------
(* The order of posts, clicks and decisions                                 *)

\* People press only what a post on record shows, so that no click is of a card
\* still being posted.
ClickInv ==
  /\ notification.post = "NONE" => interactions = <<>>
  /\ \A i \in DOMAIN interactions : interactions[i].ts \in DOMAIN cards
  /\ \A i \in DOMAIN decisions : decisions[i].ts \in DOMAIN cards

\* A post on record, or about to be, is of a card of its team.
CardInv ==
  /\ notification.post = "POSTED" =>
       /\ notification.ts \in DOMAIN cards
       /\ cards[notification.ts].team = notification.team
  /\ \A w \in Worker : worker[w].pc = "record" =>
       /\ worker[w].post # "NONE"
       /\ worker[w].post = "POSTED" =>
            /\ worker[w].ts \in DOMAIN cards
            /\ cards[worker[w].ts].team = worker[w].team

\* The status says whether the team's card is on record, and who posts it.
StatusInv ==
  /\ status \in {"REVIEW_READY", "NOTIFY_PENDING"} => ~AlreadyPosted
  /\ status = "AWAITING_TRIAGE" => AlreadyPosted
  /\ \A w \in Worker : InSlackPost(w) =>
       status = "NOTIFY_PENDING" /\ worker[w].team = destination

OrderInv ==
  /\ SafeInv
  /\ ClickInv
  /\ CardInv
  /\ StatusInv
  /\ NotifyExclusive
  /\ DecidedByItsTeam


\* The steps of a request that record, post and put on record nothing.
Quiet(w) ==
  \/ \E ts \in DOMAIN cards, action \in Action : RefuseModal(w, ts, action)
  \/ \E id \in DOMAIN interactions : Deliver(w, id)
  \/ Refuse(w) \/ CardWork(w) \/ Crash(w)
  \/ CallNotify(w) \/ NotifyCheck(w) \/ NotifyRefused(w)

\* What such a step makes of the request.
QuietWork(w, r) ==
  /\ r.pc \notin {"post", "record", "finish_read"}
  /\ r.pc = "finish_update" => worker[w].pc = "finish_read"
  /\ r.pc = "settle" => status \notin DecidableStatuses
  /\ r.pc = "redraw_match" =>
       worker[w].pc = "redraw_controls" /\ r.controls = ControlsFor(worker[w].team)
  /\ r.pc = "redraw" => worker[w].pc = "redraw_match" /\ r.controls = worker[w].controls

\* What it makes of a card.
QuietCard(w) ==
  \/ UNCHANGED cards
  \/ \E controls :
       /\ cards' = [cards EXCEPT ![worker[w].ts].controls = controls]
       /\ \/ worker[w].pc \in {"finish_update", "settle"} /\ controls = {}
          \/ worker[w].pc = "redraw" /\ controls = worker[w].controls

LEMMA QuietStep ==
  ASSUME TypeOK, NEW w \in Worker, Quiet(w)
  PROVE  /\ UNCHANGED <<status, destination, decisions, notification, interactions>>
         /\ \E r : worker' = [worker EXCEPT ![w] = r] /\ QuietWork(w, r)
         /\ QuietCard(w)
<1> USE DEF db
<1> DEFINE Work == \E r : worker' = [worker EXCEPT ![w] = r] /\ QuietWork(w, r)
           Same == UNCHANGED <<status, destination, decisions, notification, interactions>>
<1>1. worker \in [Worker -> Request] /\ worker[w] \in Request
  BY DEF TypeOK
<1>2. \A pc \in {"idle", "decide", "redraw_load", "check", "claim"} :
        \A r : r.pc = pc => QuietWork(w, r)
  BY DEF QuietWork
<1>3. Idle.pc = "idle"
  BY DEF Idle
<1>4. QuietWork(w, Idle)
  BY <1>2, <1>3
<1>5. \A ts : QuietWork(w, AfterRefusal(ts))
  <2> SUFFICES ASSUME NEW ts PROVE QuietWork(w, AfterRefusal(ts))
    OBVIOUS
  <2>1. \/ AfterRefusal(ts).pc \in {"idle", "redraw_load"}
        \/ AfterRefusal(ts).pc = "settle" /\ status \notin DecidableStatuses
    BY DEF AfterRefusal, Idle
  <2> QED
    BY <2>1 DEF QuietWork
<1>6. ASSUME NEW ts, NEW action, RefuseModal(w, ts, action)
      PROVE  Same /\ Work /\ QuietCard(w)
  BY <1>5, <1>6 DEF RefuseModal, QuietCard
<1>7. ASSUME NEW id, Deliver(w, id)
      PROVE  Same /\ Work /\ QuietCard(w)
  <2>1. [Idle EXCEPT !.pc = "decide", !.id = id].pc = "decide"
    BY DEF Idle
  <2>2. QuietWork(w, [Idle EXCEPT !.pc = "decide", !.id = id])
    BY <1>2, <2>1
  <2> QED
    BY <1>7, <2>2 DEF Deliver, QuietCard
<1>8. CASE Refuse(w)
  <2>1. \E r : worker' = [worker EXCEPT ![w] = r]
                /\ (r = Idle \/ \E ts : r = AfterRefusal(ts))
    BY <1>8 DEF Refuse
  <2> QED
    BY <1>4, <1>5, <1>8, <2>1 DEF Refuse, QuietCard
<1>9. CASE Crash(w)
  BY <1>4, <1>9 DEF Crash, QuietCard
<1>10. CASE CallNotify(w) \/ NotifyCheck(w) \/ NotifyRefused(w)
  <2>1. [Idle EXCEPT !.pc = "claim"].pc = "claim"
    BY DEF Idle
  <2>2. QuietWork(w, [Idle EXCEPT !.pc = "claim"])
    BY <1>2, <2>1
  <2> QED
    BY <1>4, <1>10, <2>2 DEF CallNotify, NotifyCheck, NotifyRefused, QuietCard
<1>11. \A pc \in {"idle", "check"} : QuietWork(w, [Idle EXCEPT !.pc = pc])
  BY <1>2 DEF Idle
<1>12. CASE FinishRead(w)
  <2> DEFINE found == [worker[w] EXCEPT !.pc = "finish_update", !.ts = notification.ts]
  <2>1. found.pc = "finish_update"
    BY <1>1 DEF Request
  <2>2. QuietWork(w, found)
    BY <1>12, <2>1 DEF QuietWork, FinishRead
  <2>3. \/ worker' = [worker EXCEPT ![w] = found]
        \/ \E pc \in {"idle", "check"} : worker' = [worker EXCEPT ![w] = [Idle EXCEPT !.pc = pc]]
    BY <1>12 DEF FinishRead
  <2> HIDE DEF found
  <2>4. Work
    BY <1>11, <2>2, <2>3
  <2> QED
    BY <1>12, <2>4 DEF FinishRead, QuietCard
<1>13. CASE FinishUpdate(w)
  <2>1. Work
    BY <1>11, <1>13 DEF FinishUpdate
  <2>2. QuietCard(w)
    BY <1>13 DEF FinishUpdate, QuietCard
  <2> QED
    BY <1>13, <2>1, <2>2 DEF FinishUpdate
<1>14. CASE Settle(w) \/ Redraw(w)
  BY <1>4, <1>14 DEF Settle, Redraw, QuietCard
<1>15. CASE RedrawLoad(w)
  <2> DEFINE loaded == [worker[w] EXCEPT !.pc = "redraw_controls", !.team = destination]
  <2>1. loaded.pc = "redraw_controls"
    BY <1>1 DEF Request
  <2>2. QuietWork(w, loaded)
    BY <2>1 DEF QuietWork
  <2>3. worker' = [worker EXCEPT ![w] = loaded] \/ worker' = [worker EXCEPT ![w] = Idle]
    BY <1>15 DEF RedrawLoad
  <2> HIDE DEF loaded
  <2> QED
    BY <1>4, <1>15, <2>2, <2>3 DEF RedrawLoad, QuietCard
<1>16. CASE RedrawControls(w)
  <2> DEFINE offered == [worker[w] EXCEPT !.pc = "redraw_match",
                                          !.controls = ControlsFor(worker[w].team)]
  <2>1. offered.pc = "redraw_match" /\ offered.controls = ControlsFor(worker[w].team)
    BY <1>1 DEF Request
  <2>2. QuietWork(w, offered)
    BY <1>16, <2>1 DEF QuietWork, RedrawControls
  <2>3. worker' = [worker EXCEPT ![w] = offered]
    BY <1>16 DEF RedrawControls
  <2> HIDE DEF offered
  <2> QED
    BY <1>16, <2>2, <2>3 DEF RedrawControls, QuietCard
<1>17. CASE RedrawMatch(w)
  <2> DEFINE matched == [worker[w] EXCEPT !.pc = "redraw", !.ts = notification.ts]
  <2>1. matched.pc = "redraw" /\ matched.controls = worker[w].controls
    BY <1>1 DEF Request
  <2>2. QuietWork(w, matched)
    BY <1>17, <2>1 DEF QuietWork, RedrawMatch
  <2>3. worker' = [worker EXCEPT ![w] = matched] \/ worker' = [worker EXCEPT ![w] = Idle]
    BY <1>17 DEF RedrawMatch
  <2> HIDE DEF matched
  <2> QED
    BY <1>4, <1>17, <2>2, <2>3 DEF RedrawMatch, QuietCard
<1> QED
  BY <1>6, <1>7, <1>8, <1>9, <1>10, <1>12, <1>13, <1>14, <1>15, <1>16, <1>17
     DEF Quiet, CardWork

\* A card's controls are drawn anew; its team, and the other cards, stay.
LEMMA CardDrawn ==
  ASSUME TypeOK, NEW ts, NEW controls, cards' = [cards EXCEPT ![ts].controls = controls]
  PROVE  /\ DOMAIN cards' = DOMAIN cards
         /\ \A i \in DOMAIN cards :
              /\ cards'[i].team = cards[i].team
              /\ cards'[i].controls = IF i = ts THEN controls ELSE cards[i].controls
<1>1. \A i \in DOMAIN cards : cards[i] \in Card
  BY RowTypes
<1> QED
  BY <1>1 DEF Card

LEMMA QuietCardKept ==
  ASSUME TypeOK, NEW w \in Worker, QuietCard(w)
  PROVE  DOMAIN cards' = DOMAIN cards /\ \A i \in DOMAIN cards : cards'[i].team = cards[i].team
<1>1. CASE UNCHANGED cards
  BY <1>1
<1>2. ASSUME NEW controls, cards' = [cards EXCEPT ![worker[w].ts].controls = controls]
      PROVE  /\ DOMAIN cards' = DOMAIN cards
             /\ \A i \in DOMAIN cards : cards'[i].team = cards[i].team
  BY <1>2, CardDrawn
<1> QED
  BY <1>1, <1>2 DEF QuietCard

LEMMA OrderInit == Init => OrderInv
<1> SUFFICES ASSUME Init PROVE OrderInv
  OBVIOUS
<1>1. /\ DOMAIN interactions = {} /\ DOMAIN decisions = {}
      /\ \A w \in Worker : worker[w].pc = "idle"
      /\ notification.post = "NONE" /\ status = "REVIEW_READY"
  BY DEF Init, Idle, NoNotification
<1>2. ClickInv /\ CardInv /\ StatusInv /\ NotifyExclusive /\ DecidedByItsTeam
  BY <1>1 DEF Init, ClickInv, CardInv, StatusInv, AlreadyPosted, InSlackPost, NotifyExclusive,
     DecidedByItsTeam
<1> QED
  BY <1>2, SafeInit DEF OrderInv

LEMMA QuietKeepsOrder ==
  ASSUME OrderInv, SafeInv', NEW w \in Worker, Quiet(w)
  PROVE  OrderInv'
<1> USE DEF OrderInv
<1>1. TypeOK /\ worker \in [Worker -> Request]
  BY DEF SafeInv, TypeOK
<1>2. UNCHANGED <<status, destination, decisions, notification, interactions>>
  BY <1>1, QuietStep
<1>3. DOMAIN cards' = DOMAIN cards /\ \A i \in DOMAIN cards : cards'[i].team = cards[i].team
  BY <1>1, QuietStep, QuietCardKept
<1>4. PICK r : worker' = [worker EXCEPT ![w] = r] /\ QuietWork(w, r)
  BY <1>1, QuietStep
<1>5. \A v \in Worker : worker'[v] = worker[v] \/ worker'[v].pc \notin {"post", "record"}
  BY <1>1, <1>4 DEF QuietWork
<1>6. ClickInv'
  BY <1>2, <1>3 DEF ClickInv
<1>7. CardInv'
  BY <1>2, <1>3, <1>5 DEF CardInv
<1>8. StatusInv' /\ NotifyExclusive'
  BY <1>2, <1>5 DEF StatusInv, NotifyExclusive, InSlackPost, AlreadyPosted
<1>9. DecidedByItsTeam'
  BY <1>2, <1>3 DEF DecidedByItsTeam, ClickInv
<1> QED
  BY <1>6, <1>7, <1>8, <1>9

LEMMA ClickKeepsOrder ==
  ASSUME ~EarlyClicks, OrderInv, SafeInv', NEW ts \in DOMAIN cards, NEW action \in Action,
         Press(ts, action) \/ OpenModal(ts, action)
  PROVE  OrderInv'
<1> USE DEF OrderInv
<1>1. TypeOK
  BY DEF SafeInv
<1>2. /\ UNCHANGED <<status, destination, decisions, notification, cards, worker>>
      /\ notification.post # "NONE"
      /\ interactions' = Append(interactions, [action |-> action, ts |-> ts])
  BY DEF Press, OpenModal, CanPress, db
<1>3. \A i \in DOMAIN interactions' : interactions'[i].ts \in DOMAIN cards
  <2> DEFINE click == [action |-> action, ts |-> ts]
  <2>1. click \in Interaction /\ click.ts = ts
    BY <1>1, LenProperties DEF Interaction, TypeOK
  <2> HIDE DEF click
  <2>2. interactions \in Seq(Interaction) /\ interactions' = Append(interactions, click)
    BY <1>1, <1>2 DEF TypeOK, click
  <2>3. /\ interactions' \in Seq(Interaction)
        /\ Len(interactions') = Len(interactions) + 1
        /\ \A i \in 1 .. Len(interactions) : interactions'[i] = interactions[i]
        /\ interactions'[Len(interactions) + 1] = click
    BY <2>1, <2>2, AppendProperties
  <2>4. /\ DOMAIN interactions = 1 .. Len(interactions) /\ Len(interactions) \in Nat
        /\ DOMAIN interactions' = 1 .. Len(interactions')
    BY <2>2, <2>3, LenProperties
  <2> QED
    BY <2>1, <2>3, <2>4 DEF ClickInv
<1>4. ClickInv'
  BY <1>2, <1>3 DEF ClickInv
<1>5. CardInv' /\ StatusInv' /\ NotifyExclusive'
  BY <1>2 DEF CardInv, StatusInv, NotifyExclusive, InSlackPost, AlreadyPosted
<1>6. DecidedByItsTeam'
  BY <1>2 DEF DecidedByItsTeam
<1> QED
  BY <1>4, <1>5, <1>6

\* A decision is only made on a card on record, so while nothing is posted.
LEMMA DecidesOnRecord ==
  ASSUME OrderInv, NEW w \in Worker, Decides(w)
  PROVE  LET request == interactions[worker[w].id]
         IN  /\ status = "AWAITING_TRIAGE" /\ AlreadyPosted
             /\ request.ts = notification.ts /\ request.ts \in DOMAIN cards
             /\ cards[request.ts].team = destination
             /\ \A v \in Worker : ~InSlackPost(v)
<1> USE DEF OrderInv
<1>1. worker[w].id \in DOMAIN interactions /\ interactions # <<>>
  BY DEF Decides
<1>2. notification.post # "NONE"
  BY <1>1 DEF ClickInv
<1>3. AlreadyPosted /\ notification.ts = interactions[worker[w].id].ts
  BY <1>2 DEF Decides, Accepts, CardIsCurrent
<1>4. status = "AWAITING_TRIAGE"
  BY <1>3 DEF Decides, Accepts, DecidableStatuses, StatusInv
<1>5. \A v \in Worker : ~InSlackPost(v)
  BY <1>4 DEF StatusInv
<1> QED
  BY <1>3, <1>4, <1>5 DEF CardInv, AlreadyPosted

LEMMA DecideKeepsOrder ==
  ASSUME OrderInv, SafeInv', NEW w \in Worker, Close(w) \/ HandOff(w) \/ InPlace(w)
  PROVE  OrderInv'
<1> USE DEF OrderInv
<1> DEFINE request == interactions[worker[w].id]
           row == [id |-> worker[w].id, action |-> request.action,
                   shown |-> destination, ts |-> request.ts]
<1>1. TypeOK /\ worker \in [Worker -> Request]
  BY DEF SafeInv, TypeOK
<1>2. worker[w].pc = "decide" /\ worker[w].id \in DOMAIN interactions
  BY DEF Close, HandOff, InPlace, Record, SafeInv, DecideKnown
<1>3. Decides(w)
  BY <1>2 DEF Close, HandOff, InPlace, Record, Decides
<1>4. /\ status = "AWAITING_TRIAGE" /\ AlreadyPosted
      /\ request.ts = notification.ts /\ request.ts \in DOMAIN cards
      /\ cards[request.ts].team = destination
      /\ \A v \in Worker : ~InSlackPost(v)
  BY <1>3, DecidesOnRecord
<1>5. UNCHANGED <<notification, cards, interactions>>
  BY DEF Close, HandOff, InPlace
<1>6. \A v \in Worker : worker'[v].pc \notin {"post", "record"}
  <2>1. \E r : worker' = [worker EXCEPT ![w] = r] /\ r.pc \in {"finish_read", "redraw_load"}
    <3>1. /\ [Idle EXCEPT !.pc = "finish_read"].pc = "finish_read"
          /\ [Idle EXCEPT !.pc = "finish_read", !.handoff = TRUE].pc = "finish_read"
          /\ [Idle EXCEPT !.pc = "redraw_load"].pc = "redraw_load"
      BY DEF Idle
    <3> QED
      BY <3>1 DEF Close, HandOff, InPlace
  <2> QED
    BY <1>1, <1>4, <2>1 DEF InSlackPost
<1>7. CardInv' /\ NotifyExclusive'
  BY <1>5, <1>6 DEF CardInv, NotifyExclusive, InSlackPost
<1>8. StatusInv'
  <2>1. CASE Close(w)
    BY <1>6, <2>1 DEF Close, StatusInv, InSlackPost
  <2>2. CASE InPlace(w)
    BY <1>4, <1>5, <1>6, <2>2 DEF InPlace, StatusInv, InSlackPost, AlreadyPosted
  <2>3. CASE HandOff(w)
    <3>1. destination' # destination /\ status' = "REVIEW_READY"
      BY <2>3, <1>3, HandOffTyped DEF HandOff, Decides, Accepts, ActionAllowed
    <3> QED
      BY <1>4, <1>5, <1>6, <3>1 DEF StatusInv, InSlackPost, AlreadyPosted
  <2> QED
    BY <2>1, <2>2, <2>3
<1>9. ClickInv' /\ DecidedByItsTeam'
  <2>1. row \in Decision /\ decisions' = Append(decisions, row)
        /\ row.ts = request.ts /\ row.shown = destination
    <3>1. request \in Interaction /\ worker[w].id \in Nat /\ destination \in Team
      BY <1>1, <1>2, RowTypes DEF TypeOK, Request
    <3> QED
      BY <1>3, <3>1 DEF Decides, Interaction, Decision
  <2> HIDE DEF row, request
  <2>2. /\ DOMAIN decisions = 1 .. Len(decisions) /\ Len(decisions) \in Nat
        /\ DOMAIN decisions' = 1 .. Len(decisions') /\ Len(decisions') = Len(decisions) + 1
        /\ \A i \in DOMAIN decisions : decisions'[i] = decisions[i]
        /\ decisions'[Len(decisions) + 1] = row
    BY <1>1, <2>1, DecisionRow
  <2>3. \A i \in DOMAIN decisions' : i \in DOMAIN decisions \/ decisions'[i] = row
    BY <2>2
  <2> QED
    BY <1>4, <1>5, <2>1, <2>2, <2>3 DEF ClickInv, DecidedByItsTeam
<1> QED
  BY <1>7, <1>8, <1>9

\* The claim is made while nothing is posted: the status says so.
LEMMA ClaimKeepsOrder ==
  ASSUME OrderInv, SafeInv', NEW w \in Worker, NotifyClaim(w)
  PROVE  OrderInv'
<1> USE DEF OrderInv
<1> DEFINE claimed == [Idle EXCEPT !.pc = "post", !.team = destination, !.controls = Controls]
<1>1. worker \in [Worker -> Request]
  BY DEF SafeInv, TypeOK
<1>2. claimed.pc = "post" /\ claimed.team = destination
  BY DEF Idle
<1>3. /\ status = "REVIEW_READY" /\ status' = "NOTIFY_PENDING"
      /\ worker' = [worker EXCEPT ![w] = claimed]
      /\ UNCHANGED <<destination, decisions, notification, cards, interactions>>
  BY DEF NotifyClaim
<1> HIDE DEF claimed
<1>4. \A v \in Worker : ~InSlackPost(v)
  BY <1>3 DEF StatusInv
<1>5. \A v \in Worker : v # w => worker'[v] = worker[v]
  BY <1>1, <1>3
<1>6. worker'[w] = claimed
  BY <1>1, <1>3
<1>7. ClickInv' /\ DecidedByItsTeam'
  BY <1>3 DEF ClickInv, DecidedByItsTeam
<1>8. CardInv'
  BY <1>2, <1>3, <1>5, <1>6 DEF CardInv
<1>9. StatusInv' /\ NotifyExclusive'
  BY <1>2, <1>3, <1>4, <1>5, <1>6 DEF StatusInv, NotifyExclusive, InSlackPost, AlreadyPosted
<1> QED
  BY <1>7, <1>8, <1>9

\* Slack's new message is the last, and it is what the request asked for.
LEMMA CardPosted ==
  ASSUME TypeOK, NEW w \in Worker, worker[w].team \in Team, cards' = NewCard(w)
  PROVE  /\ Len(cards) + 1 \notin DOMAIN cards /\ Len(cards) + 1 \in DOMAIN cards'
         /\ DOMAIN cards \subseteq DOMAIN cards'
         /\ \A i \in DOMAIN cards : cards'[i] = cards[i]
         /\ cards'[Len(cards) + 1].team = worker[w].team
         /\ cards'[Len(cards) + 1].controls = worker[w].controls
<1> DEFINE card == [team |-> worker[w].team, controls |-> worker[w].controls]
<1>1. card \in Card /\ card.team = worker[w].team /\ card.controls = worker[w].controls
  BY DEF TypeOK, Request, Card
<1>2. cards \in Seq(Card) /\ cards' = Append(cards, card)
  BY DEF TypeOK, NewCard
<1> HIDE DEF card
<1>3. /\ cards' \in Seq(Card)
      /\ Len(cards') = Len(cards) + 1
      /\ \A i \in 1 .. Len(cards) : cards'[i] = cards[i]
      /\ cards'[Len(cards) + 1] = card
  BY <1>1, <1>2, AppendProperties
<1>4. /\ DOMAIN cards = 1 .. Len(cards) /\ Len(cards) \in Nat
      /\ DOMAIN cards' = 1 .. Len(cards')
  BY <1>2, <1>3, LenProperties
<1> QED
  BY <1>1, <1>3, <1>4

\* What Slack's answer, or its absence, makes of the request that posts.
LEMMA PostAnswered ==
  ASSUME TypeOK, NEW w \in Worker, SlackPosts(w) \/ SlackRefuses(w)
  PROVE  \E r : /\ worker' = [worker EXCEPT ![w] = r]
                /\ r.pc = "record" /\ r.post # "NONE" /\ r.team = worker[w].team
                /\ r.post = "POSTED" => SlackPosts(w) /\ r.ts = Len(cards) + 1
<1>1. worker[w] \in Request
  BY DEF TypeOK
<1>2. CASE SlackPosts(w)
  <2> DEFINE sure == [worker[w] EXCEPT !.pc = "record", !.post = "POSTED", !.ts = Len(cards) + 1]
             unsure == [worker[w] EXCEPT !.pc = "record", !.post = "POSSIBLE_DUPLICATE"]
  <2>1. /\ sure.pc = "record" /\ sure.post = "POSTED" /\ sure.team = worker[w].team
        /\ sure.ts = Len(cards) + 1
    BY <1>1 DEF Request
  <2>2. unsure.pc = "record" /\ unsure.post = "POSSIBLE_DUPLICATE" /\ unsure.team = worker[w].team
    BY <1>1 DEF Request
  <2>3. worker' = [worker EXCEPT ![w] = sure] \/ worker' = [worker EXCEPT ![w] = unsure]
    BY <1>2 DEF SlackPosts
  <2> HIDE DEF sure, unsure
  <2> QED
    BY <1>2, <2>1, <2>2, <2>3
<1>3. CASE SlackRefuses(w)
  <2>1. PICK post \in {"FAILED", "POSSIBLE_DUPLICATE"} :
          worker' = [worker EXCEPT ![w] = [worker[w] EXCEPT !.pc = "record", !.post = post]]
    BY <1>3 DEF SlackRefuses
  <2> DEFINE refused == [worker[w] EXCEPT !.pc = "record", !.post = post]
  <2>2. refused.pc = "record" /\ refused.post = post /\ refused.team = worker[w].team
    BY <1>1 DEF Request
  <2>3. worker' = [worker EXCEPT ![w] = refused]
    BY <2>1
  <2> HIDE DEF refused
  <2> QED
    BY <2>2, <2>3
<1> QED
  BY <1>2, <1>3

LEMMA PostKeepsOrder ==
  ASSUME OrderInv, SafeInv', NEW w \in Worker, SlackPosts(w) \/ SlackRefuses(w)
  PROVE  OrderInv'
<1> USE DEF OrderInv
<1>1. TypeOK /\ worker \in [Worker -> Request]
  BY DEF SafeInv, TypeOK
<1>2. /\ InSlackPost(w)
      /\ UNCHANGED <<status, destination, decisions, notification, interactions>>
  BY DEF SlackPosts, SlackRefuses, InSlackPost, db
<1>3. status = "NOTIFY_PENDING" /\ worker[w].team = destination /\ worker[w].team \in Team
  BY <1>1, <1>2 DEF StatusInv, TypeOK
<1>4. PICK r : /\ worker' = [worker EXCEPT ![w] = r]
               /\ r.pc = "record" /\ r.post # "NONE" /\ r.team = worker[w].team
               /\ r.post = "POSTED" => SlackPosts(w) /\ r.ts = Len(cards) + 1
  BY <1>1, PostAnswered
<1>5. worker'[w] = r /\ \A v \in Worker : v # w => worker'[v] = worker[v]
  BY <1>1, <1>4
<1>6. /\ DOMAIN cards \subseteq DOMAIN cards'
      /\ \A i \in DOMAIN cards : cards'[i] = cards[i]
      /\ SlackPosts(w) => /\ Len(cards) + 1 \in DOMAIN cards'
                          /\ cards'[Len(cards) + 1].team = worker[w].team
  <2>1. CASE SlackPosts(w)
    BY <1>1, <1>3, <2>1, CardPosted DEF SlackPosts
  <2>2. CASE ~SlackPosts(w)
    BY <2>2 DEF SlackRefuses
  <2> QED
    BY <2>1, <2>2
<1>7. ClickInv' /\ DecidedByItsTeam'
  BY <1>2, <1>6 DEF ClickInv, DecidedByItsTeam
<1>8. CardInv'
  <2>1. notification'.post = "POSTED" =>
          notification'.ts \in DOMAIN cards' /\ cards'[notification'.ts].team = notification'.team
    BY <1>2, <1>6 DEF CardInv
  <2>2. ASSUME NEW v \in Worker, worker'[v].pc = "record"
        PROVE  /\ worker'[v].post # "NONE"
               /\ worker'[v].post = "POSTED" =>
                    /\ worker'[v].ts \in DOMAIN cards'
                    /\ cards'[worker'[v].ts].team = worker'[v].team
    <3>1. CASE v = w
      BY <1>4, <1>5, <1>6, <3>1
    <3>2. CASE v # w
      BY <1>5, <1>6, <2>2, <3>2 DEF CardInv
    <3> QED
      BY <3>1, <3>2
  <2> QED
    BY <2>1, <2>2 DEF CardInv
<1>9. StatusInv' /\ NotifyExclusive'
  BY <1>2, <1>3, <1>4, <1>5 DEF StatusInv, NotifyExclusive, InSlackPost, AlreadyPosted
<1> QED
  BY <1>7, <1>8, <1>9

\* The record is of the team the case is still with, and ends the only post.
LEMMA RecordKeepsOrder ==
  ASSUME OrderInv, SafeInv', NEW w \in Worker, NotifyRecord(w)
  PROVE  OrderInv'
<1> USE DEF OrderInv
<1>1. TypeOK /\ worker \in [Worker -> Request]
  BY DEF SafeInv, TypeOK
<1>2. /\ worker[w].pc = "record" /\ InSlackPost(w)
      /\ UNCHANGED <<destination, decisions, cards, interactions>>
      /\ notification' = [post |-> worker[w].post, team |-> worker[w].team, ts |-> worker[w].ts]
      /\ worker' = [worker EXCEPT ![w] = Idle]
  BY DEF NotifyRecord, InSlackPost
<1>3. /\ notification'.post = worker[w].post /\ notification'.team = worker[w].team
      /\ notification'.ts = worker[w].ts
  BY <1>2
<1>4. status = "NOTIFY_PENDING" /\ worker[w].team = destination
  BY <1>2 DEF StatusInv
<1>5. status' = IF worker[w].post = "POSTED" THEN "AWAITING_TRIAGE" ELSE "REVIEW_READY"
  BY <1>4 DEF NotifyRecord
<1>6. \A v \in Worker : worker'[v].pc \notin {"post", "record"}
  <2>1. worker'[w].pc = "idle"
    BY <1>1, <1>2 DEF Idle
  <2>2. \A v \in Worker : v # w => worker'[v] = worker[v] /\ ~InSlackPost(v)
    BY <1>1, <1>2 DEF NotifyExclusive
  <2> QED
    BY <2>1, <2>2 DEF InSlackPost
<1>7. worker[w].post # "NONE"
  BY <1>2 DEF CardInv
<1>8. ClickInv' /\ DecidedByItsTeam'
  BY <1>2, <1>3, <1>7 DEF ClickInv, DecidedByItsTeam
<1>9. CardInv'
  BY <1>2, <1>3, <1>6 DEF CardInv
<1>10. StatusInv' /\ NotifyExclusive'
  BY <1>2, <1>3, <1>4, <1>5, <1>6 DEF StatusInv, NotifyExclusive, InSlackPost, AlreadyPosted
<1> QED
  BY <1>8, <1>9, <1>10

LEMMA OrderNext ==
  ASSUME ~EarlyClicks
  PROVE  OrderInv /\ [Next]_vars => OrderInv'
<1> SUFFICES ASSUME OrderInv, [Next]_vars
             PROVE  OrderInv'
  OBVIOUS
<1>1. SafeInv'
  BY SafeNext DEF OrderInv
<1>2. ASSUME NEW ts \in DOMAIN cards, NEW action \in Action,
             Press(ts, action) \/ OpenModal(ts, action)
      PROVE  OrderInv'
  BY <1>1, <1>2, ClickKeepsOrder
<1>3. ASSUME NEW w \in Worker, Quiet(w)
      PROVE  OrderInv'
  BY <1>1, <1>3, QuietKeepsOrder
<1>4. ASSUME NEW w \in Worker, Close(w) \/ HandOff(w) \/ InPlace(w)
      PROVE  OrderInv'
  BY <1>1, <1>4, DecideKeepsOrder
<1>5. ASSUME NEW w \in Worker, NotifyClaim(w)
      PROVE  OrderInv'
  BY <1>1, <1>5, ClaimKeepsOrder
<1>6. ASSUME NEW w \in Worker, SlackPosts(w) \/ SlackRefuses(w)
      PROVE  OrderInv'
  BY <1>1, <1>6, PostKeepsOrder
<1>7. ASSUME NEW w \in Worker, NotifyRecord(w)
      PROVE  OrderInv'
  BY <1>1, <1>7, RecordKeepsOrder
<1>8. CASE Recover
  BY <1>1, <1>8 DEF Recover, OrderInv, ClickInv, CardInv, StatusInv, NotifyExclusive,
     DecidedByItsTeam, InSlackPost, AlreadyPosted
<1>9. CASE UNCHANGED vars
  BY <1>1, <1>9 DEF vars, OrderInv, ClickInv, CardInv, StatusInv, NotifyExclusive,
     DecidedByItsTeam, InSlackPost, AlreadyPosted
<1> QED
  BY <1>2, <1>3, <1>4, <1>5, <1>6, <1>7, <1>8, <1>9 DEF Next, Quiet, Decide, Notify

LEMMA Orderly ==
  ASSUME ~EarlyClicks
  PROVE  Spec => []OrderInv
BY OrderInit, OrderNext, PTL DEF Spec

\* When people reach a card only after the outcome of a post is on record,
\* every decision was made on a card of the team the case was with: the card
\* check of the locked decision is enough, whatever requests were in flight.
THEOREM DecidedByTheTeam ==
  ASSUME ~EarlyClicks
  PROVE  Spec => []DecidedByItsTeam
BY Orderly, PTL DEF OrderInv

\* Under the same condition the claim keeps two notify calls from posting at
\* once, although it holds no lock while Slack is called.
THEOREM NotifyAlone ==
  ASSUME ~EarlyClicks
  PROVE  Spec => []NotifyExclusive
BY Orderly, PTL DEF OrderInv

\* And a run that waits for its team has that team's card on record.
THEOREM AwaitingCarded ==
  ASSUME ~EarlyClicks
  PROVE  Spec => []AwaitingIsCarded
<1>1. OrderInv => AwaitingIsCarded
  BY DEF OrderInv, StatusInv, CardInv, AwaitingIsCarded, AlreadyPosted
<1> QED
  BY <1>1, Orderly, PTL

-----------------------------------------------------------------------------
(* The controls of the card a case waits on                                 *)

\* Nobody takes the controls from a card that a case waits on or will wait on,
\* and what is posted or redrawn has some.
WorkIsSafe(r) ==
  /\ r.pc \in {"finish_read", "finish_update"} => status \in {"REVIEW_READY", "COMPLETED"}
  /\ r.pc = "settle" => status = "COMPLETED"
  /\ r.pc \in {"post", "redraw_match", "redraw"} => r.controls # {}

LiveInv ==
  /\ \A w \in Worker : WorkIsSafe(worker[w])
  /\ \A w \in Worker :
       worker[w].pc = "record" /\ worker[w].post = "POSTED" =>
         cards[worker[w].ts].controls # {}
  /\ CurrentCardIsLive

LEMMA LiveInit == Init => LiveInv
BY DEF Init, LiveInv, WorkIsSafe, CurrentCardIsLive, Idle

LEMMA QuietKeepsLive ==
  ASSUME OrderInv, LiveInv, NEW w \in Worker, Quiet(w)
  PROVE  LiveInv'
<1>1. /\ TypeOK /\ worker \in [Worker -> Request] /\ status \in Status
      /\ worker[w].pc = "redraw_controls" => worker[w].team \in Team
  BY DEF OrderInv, SafeInv, TypeOK, SlackTeam
<1>2. UNCHANGED <<status, destination, decisions, notification, interactions>>
  BY <1>1, QuietStep
<1>3. PICK r : worker' = [worker EXCEPT ![w] = r] /\ QuietWork(w, r)
  BY <1>1, QuietStep
<1>4. worker'[w] = r /\ \A v \in Worker : v # w => worker'[v] = worker[v]
  BY <1>1, <1>3
<1>5. WorkIsSafe(worker[w])
  BY DEF LiveInv
<1>6. r.pc = "redraw_match" => r.controls # {}
  BY <1>1, <1>3, ControlsType DEF QuietWork
<1>7. WorkIsSafe(r)
  <2>1. r.pc \in {"finish_read", "finish_update"} => status \in {"REVIEW_READY", "COMPLETED"}
    BY <1>3, <1>5 DEF QuietWork, WorkIsSafe
  <2>2. r.pc = "settle" => status = "COMPLETED"
    BY <1>1, <1>3 DEF QuietWork, Status, DecidableStatuses
  <2>3. r.pc \in {"post", "redraw_match", "redraw"} => r.controls # {}
    BY <1>3, <1>5, <1>6 DEF QuietWork, WorkIsSafe
  <2> QED
    BY <2>1, <2>2, <2>3 DEF WorkIsSafe
<1>8. \A v \in Worker : WorkIsSafe(worker'[v])
  BY <1>4, <1>7 DEF LiveInv
<1>9. (\A v \in Worker : WorkIsSafe(worker[v]))'
  BY <1>2, <1>8 DEF WorkIsSafe
<1>10. ASSUME NEW i \in DOMAIN cards, cards[i].controls # {},
              status \notin {"REVIEW_READY", "COMPLETED"}
       PROVE  cards'[i].controls # {}
  <2>1. CASE UNCHANGED cards
    BY <1>10, <2>1
  <2>2. ASSUME NEW controls,
               cards' = [cards EXCEPT ![worker[w].ts].controls = controls],
               controls # {}
        PROVE  cards'[i].controls # {}
    BY <1>1, <1>10, <2>2, CardDrawn
  <2>3. worker[w].pc \notin {"finish_update", "settle"}
    BY <1>5, <1>10 DEF WorkIsSafe
  <2>4. worker[w].pc = "redraw" => worker[w].controls # {}
    BY <1>5 DEF WorkIsSafe
  <2>5. QuietCard(w)
    BY <1>1, QuietStep
  <2> QED
    BY <2>1, <2>2, <2>3, <2>4, <2>5 DEF QuietCard
<1>11. ASSUME NEW v \in Worker, worker'[v].pc = "record", worker'[v].post = "POSTED"
       PROVE  cards'[worker'[v].ts].controls # {}
  <2>1. worker'[v] = worker[v]
    BY <1>3, <1>4, <1>11 DEF QuietWork
  <2>2. status = "NOTIFY_PENDING" /\ worker[v].ts \in DOMAIN cards
    BY <1>11, <2>1 DEF OrderInv, StatusInv, CardInv, InSlackPost
  <2>3. cards[worker[v].ts].controls # {}
    BY <1>11, <2>1 DEF LiveInv
  <2> QED
    BY <1>10, <2>1, <2>2, <2>3
<1>12. CurrentCardIsLive'
  <2> SUFFICES ASSUME status = "AWAITING_TRIAGE" PROVE cards'[notification.ts].controls # {}
    BY <1>2 DEF CurrentCardIsLive
  <2>1. notification.ts \in DOMAIN cards
    BY DEF OrderInv, StatusInv, CardInv, AlreadyPosted
  <2>2. cards[notification.ts].controls # {}
    BY DEF LiveInv, CurrentCardIsLive
  <2> QED
    BY <1>10, <2>1, <2>2
<1> QED
  BY <1>9, <1>11, <1>12 DEF LiveInv

LEMMA DecideKeepsLive ==
  ASSUME OrderInv, LiveInv, NEW w \in Worker, Close(w) \/ HandOff(w) \/ InPlace(w)
  PROVE  LiveInv'
<1>1. worker \in [Worker -> Request]
  BY DEF OrderInv, SafeInv, TypeOK
<1>2. worker[w].pc = "decide" /\ worker[w].id \in DOMAIN interactions
  BY DEF Close, HandOff, InPlace, Record, OrderInv, SafeInv, DecideKnown
<1>3. Decides(w)
  BY <1>2 DEF Close, HandOff, InPlace, Record, Decides
<1>4. status = "AWAITING_TRIAGE" /\ \A v \in Worker : ~InSlackPost(v)
  BY <1>3, DecidesOnRecord
<1>5. UNCHANGED <<notification, cards>>
  BY DEF Close, HandOff, InPlace
<1>6. PICK r : /\ worker' = [worker EXCEPT ![w] = r]
               /\ \/ r.pc = "finish_read" /\ status' \in {"REVIEW_READY", "COMPLETED"}
                  \/ r.pc = "redraw_load" /\ status' = status
  <2>1. /\ [Idle EXCEPT !.pc = "finish_read"].pc = "finish_read"
        /\ [Idle EXCEPT !.pc = "finish_read", !.handoff = TRUE].pc = "finish_read"
        /\ [Idle EXCEPT !.pc = "redraw_load"].pc = "redraw_load"
    BY DEF Idle
  <2> QED
    BY <2>1 DEF Close, HandOff, InPlace
<1>7. worker'[w] = r /\ \A v \in Worker : v # w => worker'[v] = worker[v]
  BY <1>1, <1>6
<1>8. \A v \in Worker :
        /\ v # w => worker[v].pc \notin {"finish_read", "finish_update", "settle"}
        /\ worker[v].pc \in {"redraw_match", "redraw"} => worker[v].controls # {}
  BY <1>4 DEF LiveInv, WorkIsSafe
<1>9. (\A v \in Worker : WorkIsSafe(worker[v]))'
  BY <1>4, <1>6, <1>7, <1>8 DEF WorkIsSafe, InSlackPost
<1>10. \A v \in Worker : worker'[v].pc # "record"
  BY <1>4, <1>6, <1>7 DEF InSlackPost
<1>11. CurrentCardIsLive'
  BY <1>4, <1>5 DEF LiveInv, CurrentCardIsLive
<1> QED
  BY <1>9, <1>10, <1>11 DEF LiveInv

\* Card work ends before the next claim, so none is left to a case that waits.
LEMMA ClaimKeepsLive ==
  ASSUME PromptFinish, OrderInv, LiveInv, NEW w \in Worker, NotifyClaim(w)
  PROVE  LiveInv'
<1> DEFINE claimed == [Idle EXCEPT !.pc = "post", !.team = destination, !.controls = Controls]
<1>1. worker \in [Worker -> Request] /\ TypeOK
  BY DEF OrderInv, SafeInv, TypeOK
<1>2. claimed.pc = "post" /\ claimed.controls # {}
  BY <1>1, ControlsType DEF Idle
<1>3. /\ status = "REVIEW_READY" /\ status' = "NOTIFY_PENDING"
      /\ worker' = [worker EXCEPT ![w] = claimed]
      /\ UNCHANGED <<notification, cards>>
      /\ \A v \in Worker : ~Finishing(v)
  BY DEF NotifyClaim
<1> HIDE DEF claimed
<1>4. worker'[w] = claimed /\ \A v \in Worker : v # w => worker'[v] = worker[v]
  BY <1>1, <1>3
<1>5. (\A v \in Worker : WorkIsSafe(worker[v]))'
  BY <1>2, <1>3, <1>4 DEF LiveInv, WorkIsSafe, Finishing
<1>6. \A v \in Worker : worker'[v].pc # "record"
  BY <1>2, <1>3, <1>4 DEF OrderInv, StatusInv, InSlackPost
<1> QED
  BY <1>3, <1>5, <1>6 DEF LiveInv, CurrentCardIsLive

LEMMA PostKeepsLive ==
  ASSUME OrderInv, LiveInv, NEW w \in Worker, SlackPosts(w) \/ SlackRefuses(w)
  PROVE  LiveInv'
<1>1. TypeOK /\ worker \in [Worker -> Request]
  BY DEF OrderInv, SafeInv, TypeOK
<1>2. InSlackPost(w) /\ worker[w].pc = "post" /\ UNCHANGED <<status, notification>>
  BY DEF SlackPosts, SlackRefuses, InSlackPost, db
<1>3. status = "NOTIFY_PENDING" /\ worker[w].team \in Team /\ worker[w].controls # {}
  BY <1>1, <1>2 DEF OrderInv, StatusInv, TypeOK, LiveInv, WorkIsSafe
<1>4. PICK r : /\ worker' = [worker EXCEPT ![w] = r]
               /\ r.pc = "record" /\ r.post # "NONE" /\ r.team = worker[w].team
               /\ r.post = "POSTED" => SlackPosts(w) /\ r.ts = Len(cards) + 1
  BY <1>1, PostAnswered
<1>5. worker'[w] = r /\ \A v \in Worker : v # w => worker'[v] = worker[v]
  BY <1>1, <1>4
<1>6. (\A v \in Worker : WorkIsSafe(worker[v]))'
  BY <1>2, <1>4, <1>5 DEF LiveInv, WorkIsSafe
<1>7. ASSUME NEW v \in Worker, worker'[v].pc = "record", worker'[v].post = "POSTED"
      PROVE  cards'[worker'[v].ts].controls # {}
  <2>1. v = w
    BY <1>2, <1>5, <1>7 DEF OrderInv, NotifyExclusive, InSlackPost
  <2>2. SlackPosts(w) /\ worker'[v].ts = Len(cards) + 1
    BY <1>4, <1>5, <1>7, <2>1
  <2>3. cards'[Len(cards) + 1].controls = worker[w].controls
    BY <1>1, <1>3, <2>2, CardPosted DEF SlackPosts
  <2> QED
    BY <1>3, <2>2, <2>3
<1>8. CurrentCardIsLive'
  BY <1>2, <1>3 DEF CurrentCardIsLive
<1> QED
  BY <1>6, <1>7, <1>8 DEF LiveInv

LEMMA RecordKeepsLive ==
  ASSUME OrderInv, LiveInv, NEW w \in Worker, NotifyRecord(w)
  PROVE  LiveInv'
<1>1. worker \in [Worker -> Request]
  BY DEF OrderInv, SafeInv, TypeOK
<1>2. /\ worker[w].pc = "record" /\ InSlackPost(w)
      /\ UNCHANGED cards
      /\ notification' = [post |-> worker[w].post, team |-> worker[w].team, ts |-> worker[w].ts]
      /\ worker' = [worker EXCEPT ![w] = Idle]
  BY DEF NotifyRecord, InSlackPost
<1>3. status = "NOTIFY_PENDING"
  BY <1>2 DEF OrderInv, StatusInv
<1>4. worker'[w].pc = "idle" /\ \A v \in Worker : v # w => worker'[v] = worker[v]
  BY <1>1, <1>2 DEF Idle
<1>5. (\A v \in Worker : WorkIsSafe(worker[v]))'
  BY <1>3, <1>4 DEF LiveInv, WorkIsSafe
<1>6. \A v \in Worker : worker'[v].pc # "record"
  BY <1>2, <1>4 DEF OrderInv, NotifyExclusive, InSlackPost
<1>7. CurrentCardIsLive'
  BY <1>2, <1>3 DEF NotifyRecord, LiveInv, CurrentCardIsLive
<1> QED
  BY <1>5, <1>6, <1>7 DEF LiveInv

LEMMA LiveNext ==
  ASSUME PromptFinish
  PROVE  OrderInv /\ LiveInv /\ [Next]_vars => LiveInv'
<1> SUFFICES ASSUME OrderInv, LiveInv, [Next]_vars
             PROVE  LiveInv'
  OBVIOUS
<1>1. CASE UNCHANGED <<status, notification, cards, worker>>
  BY <1>1 DEF LiveInv, WorkIsSafe, CurrentCardIsLive
<1>2. ASSUME NEW ts \in DOMAIN cards, NEW action \in Action,
             Press(ts, action) \/ OpenModal(ts, action)
      PROVE  LiveInv'
  BY <1>1, <1>2 DEF Press, OpenModal, db
<1>3. ASSUME NEW w \in Worker, Quiet(w)
      PROVE  LiveInv'
  BY <1>3, QuietKeepsLive
<1>4. ASSUME NEW w \in Worker, Close(w) \/ HandOff(w) \/ InPlace(w)
      PROVE  LiveInv'
  BY <1>4, DecideKeepsLive
<1>5. ASSUME NEW w \in Worker, NotifyClaim(w)
      PROVE  LiveInv'
  BY <1>5, ClaimKeepsLive
<1>6. ASSUME NEW w \in Worker, SlackPosts(w) \/ SlackRefuses(w)
      PROVE  LiveInv'
  BY <1>6, PostKeepsLive
<1>7. ASSUME NEW w \in Worker, NotifyRecord(w)
      PROVE  LiveInv'
  BY <1>7, RecordKeepsLive
<1>8. CASE Recover
  BY <1>8 DEF Recover, LiveInv, WorkIsSafe, CurrentCardIsLive
<1>9. CASE UNCHANGED vars
  BY <1>1, <1>9 DEF vars
<1> QED
  BY <1>2, <1>3, <1>4, <1>5, <1>6, <1>7, <1>8, <1>9 DEF Next, Quiet, Decide, Notify

\* When, besides, the card work of a decision ends before another request posts
\* the case's next card, the card a run waits on always shows a control: no
\* lost or late update leaves a waiting case without a move.
THEOREM CurrentCardLives ==
  ASSUME ~EarlyClicks, PromptFinish
  PROVE  Spec => []CurrentCardIsLive
<1>1. Init => LiveInv
  BY LiveInit
<1>2. OrderInv /\ LiveInv /\ [Next]_vars => LiveInv'
  BY LiveNext
<1>3. LiveInv => CurrentCardIsLive
  BY DEF LiveInv
<1> QED
  BY <1>1, <1>2, <1>3, Orderly, PTL DEF Spec
=============================================================================
