------------------------------ MODULE Semantic ------------------------------
(***************************************************************************)
(* The model stage of one review case: workflow 02's executions that call   *)
(* semantic-review and then notify, the attempts they record, and the poll  *)
(* that abandons an attempt nobody will finish and sends the run again.     *)
(*                                                                          *)
(* A step is one transaction, or one read without a lock.  The key          *)
(* `<run>-semantic` is kept as far as it decides who executes; Idempotency  *)
(* has its details.  The gate of reconciliation has permitted a review, so  *)
(* the stage starts PENDING, in the execution that reconciled the run.      *)
(***************************************************************************)
EXTENDS Naturals, Sequences, FiniteSets

CONSTANTS
  Exec,         \* executions of workflow 02 that can be in flight at once
  MaxSent,      \* bound: executions the poll asks for before they start
  MaxFaults     \* bound: crashes, failed calls, timeouts, leases lost early

ASSUME SemanticAssumption ==
  "NOBODY" \notin Exec /\ MaxSent \in Nat /\ MaxFaults \in Nat

VARIABLES
  stage,      \* runs.semantic_stage_status
  attempts,   \* semantic_attempts.status, by attempt_number
  key,        \* the key's registry row: who may execute semantic-review
  exec,       \* what each execution and the request it sent are doing
  sent,       \* executions asked for and not yet started
  card,       \* the stage the card on record was drawn from
  faults      \* faults so far

vars == <<stage, attempts, key, exec, sent, card, faults>>

-----------------------------------------------------------------------------
(* Values                                                                   *)

WithIt == "COMPLETED_WITH_RECOMMENDATION"
WithoutIt == "COMPLETED_WITHOUT_RECOMMENDATION"
Terminal == {WithIt, WithoutIt}
Stage == {"PENDING", "IN_PROGRESS"} \cup Terminal

Nobody == "NOBODY"

\* FREE stands for no row and for a retryable failure, which execute alike.
Key == [status: {"FREE", "HELD", "DONE"}, holder: Exec \cup {Nobody}]

\* claim is the call arriving; load to release is the request executing it;
\* notify is the workflow's next call.
Pc == {"idle", "claim", "load", "start", "call", "finalise", "complete",
       "release", "notify"}

\* attempt is the request's attempt number, result whether the model's reply
\* gave a recommendation, waited whether the workflow still awaits the request.
Idle == [pc |-> "idle", attempt |-> 0, result |-> FALSE, waited |-> TRUE]

Execution == [pc: Pc, attempt: Nat, result: BOOLEAN, waited: BOOLEAN]

TypeOK ==
  /\ stage \in Stage
  /\ attempts \in Seq({"STARTED", "SUCCEEDED", "REJECTED"})
  /\ key \in Key
  /\ exec \in [Exec -> Execution]
  /\ sent \in Nat
  /\ card \in Terminal \cup {"NONE"}
  /\ faults \in Nat

With(status) == {n \in DOMAIN attempts : attempts[n] = status}

InFlight == With("STARTED")

Executing(e) == exec[e].pc \in {"load", "start", "call", "finalise", "complete", "release"}

Abandoned == key.status = "HELD" /\ (key.holder = Nobody \/ ~Executing(key.holder))

Fault == faults < MaxFaults /\ faults' = faults + 1

GoTo(e, pc) == exec' = [exec EXCEPT ![e].pc = pc]

\* The request has answered: the workflow goes on to pc, unless it gave up.
Answered(e, pc) ==
  exec' = [exec EXCEPT ![e] = IF @.waited THEN [Idle EXCEPT !.pc = pc] ELSE Idle]

-----------------------------------------------------------------------------
(* Workflow 02 reaches semantic-review, and the key decides                  *)

\* Reconcile is replayed with the stage it recorded, PENDING: every execution
\* calls semantic-review.
Begin(e) ==
  /\ exec[e].pc = "idle"
  /\ sent > 0
  /\ sent' = sent - 1
  /\ GoTo(e, "claim")
  /\ UNCHANGED <<stage, attempts, key, card, faults>>

\* The request executes: it is the first, the last one failed, or the holder's
\* lease has run out, which on a live holder is a fault.
Execute(e) ==
  /\ exec[e].pc = "claim"
  /\ key.status # "DONE"
  /\ IF key.status = "HELD" /\ ~Abandoned THEN Fault ELSE UNCHANGED faults
  /\ key' = [status |-> "HELD", holder |-> e]
  /\ GoTo(e, "load")
  /\ UNCHANGED <<stage, attempts, sent, card>>

\* The lease is running: IN_PROGRESS, and the execution fails.  The poll sends
\* a run again only long after the lease of an abandoned claim has run out, so
\* meeting one earlier is a fault.
TurnAway(e) ==
  /\ exec[e].pc = "claim"
  /\ key.status = "HELD"
  /\ IF Abandoned THEN Fault ELSE UNCHANGED faults
  /\ Answered(e, "idle")
  /\ UNCHANGED <<stage, attempts, key, sent, card>>

\* The recorded answer is replayed, and the workflow goes on.
Replay(e) ==
  /\ exec[e].pc = "claim"
  /\ key.status = "DONE"
  /\ Answered(e, "notify")
  /\ UNCHANGED <<stage, attempts, key, sent, card, faults>>

-----------------------------------------------------------------------------
(* review()                                                                 *)

\* The stage is read without a lock; one that is not PENDING is refused, which
\* is recorded as the answer.
Load(e) ==
  /\ exec[e].pc = "load"
  /\ GoTo(e, IF stage = "PENDING" THEN "start" ELSE "complete")
  /\ UNCHANGED <<stage, attempts, key, sent, card, faults>>

\* Mutant: the UPDATE of the run does not ask for PENDING.
StartAnyStage(e) ==
  /\ exec[e].pc = "start"
  /\ InFlight = {}
  /\ attempts' = Append(attempts, "STARTED")
  /\ stage' = "IN_PROGRESS"
  /\ exec' = [exec EXCEPT ![e].pc = "call", ![e].attempt = Len(attempts')]
  /\ UNCHANGED <<key, sent, card, faults>>

\* The attempt and the stage are committed before the call.
Start(e) ==
  /\ exec[e].pc = "start"
  /\ InFlight = {}
  /\ stage = "PENDING"
  /\ attempts' = Append(attempts, "STARTED")
  /\ stage' = "IN_PROGRESS"
  /\ exec' = [exec EXCEPT ![e].pc = "call", ![e].attempt = Len(attempts')]
  /\ UNCHANGED <<key, sent, card, faults>>

\* Another request finished the stage since the read.  STAGE_MOVED is caught as
\* a refusal, and what was inserted is committed with the recorded answer.
StageMoved(e) ==
  /\ exec[e].pc = "start"
  /\ InFlight = {}
  /\ stage # "PENDING"
  /\ attempts' = Append(attempts, "STARTED")
  /\ key' = IF key.holder = e THEN [key EXCEPT !.status = "DONE"] ELSE key
  /\ Answered(e, "notify")
  /\ UNCHANGED <<stage, sent, card, faults>>

\* uq_semantic_one_in_flight refuses a second attempt, and the request fails.
SecondAttempt(e) ==
  /\ exec[e].pc = "start"
  /\ InFlight # {}
  /\ GoTo(e, "release")
  /\ UNCHANGED <<stage, attempts, key, sent, card, faults>>

\* The model answers, refuses, times out or fails: a recommendation or none.
Called(e) ==
  /\ exec[e].pc = "call"
  /\ \E result \in BOOLEAN :
       exec' = [exec EXCEPT ![e].pc = "finalise", ![e].result = result]
  /\ UNCHANGED <<stage, attempts, key, sent, card, faults>>

\* The one transition of an attempt, and the run moves with it.
EndAttempt(n, recommended) ==
  /\ attempts' = [attempts EXCEPT ![n] = IF recommended THEN "SUCCEEDED" ELSE "REJECTED"]
  /\ stage' = IF stage # "IN_PROGRESS" THEN stage
              ELSE IF recommended THEN WithIt ELSE WithoutIt

\* A result that comes after the attempt was abandoned changes nothing.
Finalise(e) ==
  /\ exec[e].pc = "finalise"
  /\ IF attempts[exec[e].attempt] = "STARTED"
     THEN EndAttempt(exec[e].attempt, exec[e].result)
     ELSE UNCHANGED <<stage, attempts>>
  /\ GoTo(e, "complete")
  /\ UNCHANGED <<key, sent, card, faults>>

\* The answer is recorded, unless the claim is another's by now.
Complete(e) ==
  /\ exec[e].pc = "complete"
  /\ key' = IF key.holder = e THEN [key EXCEPT !.status = "DONE"] ELSE key
  /\ Answered(e, "notify")
  /\ UNCHANGED <<stage, attempts, sent, card, faults>>

\* A transaction of the request fails and is rolled back.
Fails(e) ==
  /\ exec[e].pc \in {"load", "start", "finalise", "complete"}
  /\ Fault
  /\ GoTo(e, "release")
  /\ UNCHANGED <<stage, attempts, key, sent, card>>

\* _release_claim: the key may execute again; the execution fails.
Release(e) ==
  /\ exec[e].pc = "release"
  /\ key' = IF key.holder = e THEN [status |-> "FREE", holder |-> Nobody] ELSE key
  /\ exec' = [exec EXCEPT ![e] = Idle]
  /\ UNCHANGED <<stage, attempts, sent, card, faults>>

\* The process dies with the request, or the call never arrives.
Crash(e) ==
  /\ exec[e].pc # "idle"
  /\ Fault
  /\ exec' = [exec EXCEPT ![e] = Idle]
  /\ UNCHANGED <<stage, attempts, key, sent, card>>

\* The workflow waits no longer; the request goes on by itself.
GiveUp(e) ==
  /\ Executing(e)
  /\ exec[e].waited
  /\ Fault
  /\ exec' = [exec EXCEPT ![e].waited = FALSE]
  /\ UNCHANGED <<stage, attempts, key, sent, card>>

-----------------------------------------------------------------------------
(* notify, and the poll                                                     *)

\* No attempt is in flight and the stage has ended.
ReadyForCard ==
  /\ InFlight = {}
  /\ stage \in Terminal

\* The gate is checked under the run's lock; a run with a card keeps it.
Notify(e) ==
  /\ exec[e].pc = "notify"
  /\ card' = IF ReadyForCard /\ card = "NONE" THEN stage ELSE card
  /\ exec' = [exec EXCEPT ![e] = Idle]
  /\ UNCHANGED <<stage, attempts, key, sent, faults>>

\* Slack refuses the card; the execution fails.
SlackRefuses(e) ==
  /\ exec[e].pc = "notify"
  /\ Fault
  /\ exec' = [exec EXCEPT ![e] = Idle]
  /\ UNCHANGED <<stage, attempts, key, sent, card>>

\* Mutant: an abandoned attempt is ended and its run is left where it is.
AbandonAttemptOnly(n) ==
  /\ attempts[n] = "STARTED"
  /\ IF \E e \in Exec : exec[e].pc \in {"call", "finalise"} /\ exec[e].attempt = n
     THEN Fault
     ELSE UNCHANGED faults
  /\ attempts' = [attempts EXCEPT ![n] = "REJECTED"]
  /\ sent' = sent + 1
  /\ UNCHANGED <<stage, key, exec, card>>

\* abandon_stale_attempts: ten minutes on, nobody is left to finish the
\* attempt, unless its request is slower than any timeout allows.
Abandon(n) ==
  /\ attempts[n] = "STARTED"
  /\ IF \E e \in Exec : exec[e].pc \in {"call", "finalise"} /\ exec[e].attempt = n
     THEN Fault
     ELSE UNCHANGED faults
  /\ EndAttempt(n, FALSE)
  /\ sent' = sent + 1
  /\ UNCHANGED <<key, exec, card>>

\* Mutant: only a stage that ended with a recommendation is sent again.
ResendRecommended ==
  /\ stage = WithIt
  /\ card = "NONE"
  /\ sent < MaxSent
  /\ sent' = sent + 1
  /\ UNCHANGED <<stage, attempts, key, exec, card, faults>>

\* runs_awaiting_a_card: the model stage has finished and no card is on record.
Resend ==
  /\ stage \in Terminal
  /\ card = "NONE"
  /\ sent < MaxSent
  /\ sent' = sent + 1
  /\ UNCHANGED <<stage, attempts, key, exec, card, faults>>

\* The run is asked for once more: workflow 01 repeats a poll in the same minute
\* and is replayed its answer, or a person runs workflow 02 again.
SentTwice ==
  /\ sent < MaxSent
  /\ Fault
  /\ sent' = sent + 1
  /\ UNCHANGED <<stage, attempts, key, exec, card>>

\* What the poll asked for is lost: it answered nobody, or workflow 01 stopped.
NotSent ==
  /\ sent > 0
  /\ Fault
  /\ sent' = sent - 1
  /\ UNCHANGED <<stage, attempts, key, exec, card>>

-----------------------------------------------------------------------------

Init ==
  /\ stage = "PENDING"
  /\ attempts = <<>>
  /\ key = [status |-> "FREE", holder |-> Nobody]
  /\ \E e \in Exec : exec = [[f \in Exec |-> Idle] EXCEPT ![e].pc = "claim"]
  /\ sent = 0
  /\ card = "NONE"
  /\ faults = 0

Review(e) ==
  \/ Load(e) \/ Start(e) \/ StageMoved(e) \/ SecondAttempt(e) \/ Called(e)
  \/ Finalise(e) \/ Complete(e) \/ Release(e)

Proceed(e) == Execute(e) \/ TurnAway(e) \/ Replay(e) \/ Review(e) \/ Notify(e)

Next ==
  \/ \E e \in Exec : Begin(e) \/ Proceed(e) \/ Fails(e) \/ Crash(e) \/ GiveUp(e)
                     \/ SlackRefuses(e)
  \/ \E n \in DOMAIN attempts : Abandon(n)
  \/ Resend
  \/ SentTwice
  \/ NotSent

Spec == Init /\ [][Next]_vars

\* Requests and workflows in flight run on.  The poll runs every few minutes:
\* a stale attempt and a case without a card are found, and n8n starts what the
\* poll asks for.
Fairness ==
  /\ \A e \in Exec : WF_vars(Proceed(e))
  /\ WF_vars(\E e \in Exec : Begin(e))
  /\ WF_vars(\E n \in DOMAIN attempts : Abandon(n))
  /\ WF_vars(Resend)

FairSpec == Spec /\ Fairness

-----------------------------------------------------------------------------
(* Properties                                                               *)

\* A stage waiting for a result has an attempt whose end will end it: nothing
\* strands a run at IN_PROGRESS (start_attempt, finalise, abandonment).
NeverWaitsForNobody == stage = "IN_PROGRESS" => InFlight # {}

\* The stage says a recommendation exists exactly when an attempt holds one:
\* the card that is told so finds it, and one no card may show is not kept
\* (I06, finalise).
RecommendationIsRecorded == (stage = WithIt) = (With("SUCCEEDED") # {})

\* The model stage ends once: no late result, abandonment or second review
\* changes a finished stage (I32).
StageEndsOnce == [][(stage \in Terminal) => stage' = stage]_vars

\* No card is posted that would change under whoever reads it: the stage it was
\* drawn from is final (I31, load_card_context).
CardIsFinal == card # "NONE" => card = stage

\* A result is used only by the attempt it belongs to: an attempt ends once
\* (finalise: "Exactly one transition").
AttemptEndsOnce ==
  [][\A n \in DOMAIN attempts :
       attempts[n] # "STARTED" => n \in DOMAIN attempts' /\ attempts'[n] = attempts[n]]_vars

TheKey ==
  INSTANCE Registry WITH
    Caller <- Exec, Reopens <- FALSE, status <- key.status,
    holder <- {e \in Exec : Executing(e) /\ key.holder = e},
    displaced <- {e \in Exec : Executing(e) /\ key.holder # e}

\* The key does for semantic-review what the registry promises (claim, complete,
\* _release_claim).
KeyIsFenced == TheKey!Spec

\* Once a model attempt has started, the case reaches a person, whatever
\* becomes of the request (abandon_stale_attempts, runs_awaiting_a_card).
ReviewReachesAPerson == stage = "IN_PROGRESS" ~> card # "NONE"

\* Any review case without a card is sent again (docs/runbook.md section 1).
CaseReachesAPerson == stage = "PENDING" ~> card # "NONE"
=============================================================================
