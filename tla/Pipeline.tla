------------------------------ MODULE Pipeline ------------------------------
(***************************************************************************)
(* From a bill in Xero to a card: workflow 01 polls and calls workflow 02    *)
(* for each run of the poll's answer, 02 reconciles the run, has its wording *)
(* reviewed and asks for its card, 03 is told of what fails, later polls     *)
(* send again what still has no card, and an operator what was left behind.  *)
(*                                                                           *)
(* A step is one call to the service with the answer n8n makes of it.  What  *)
(* happens within a call is in the other modules; n8n itself runs on.        *)
(***************************************************************************)
EXTENDS Naturals, FiniteSets

CONSTANTS
  Run,         \* bills that are to become runs
  Execution,   \* executions of workflow 01 that can be in flight at once
  Limit,       \* MAX_RESENT_PER_POLL
  MaxFaults    \* bound: calls that fail, or whose answer is lost

Nobody == "NOBODY"

ASSUME PipelineAssumption ==
  /\ IsFiniteSet(Run) /\ Nobody \notin Run
  /\ Limit \in Nat \ {0} /\ MaxFaults \in Nat

VARIABLES
  run,      \* how far each bill has come
  earlier,  \* for each run, those with an earlier runs.updated_at
  old,      \* the runs whose updated_at is longer ago than UNNOTIFIED_AFTER
  broken,   \* the runs whose reconcile fails on every repeat of its key
  poll,     \* the poll each execution asked for, as the service sees it
  pc,       \* the node each execution is at
  todo,     \* the runs of the answer 02 is still to end for
  current,  \* the run 02 is called for
  heard,    \* the runs a failure told to workflow 03 was about
  faults    \* faults so far

vars == <<run, earlier, old, broken, poll, pc, todo, current, heard, faults>>

-----------------------------------------------------------------------------
(* Values                                                                    *)

\* draft is not yet a run; pending to ready are REVIEW_READY with the stage
\* PENDING, IN_PROGRESS, IN_PROGRESS for longer than STALE_ATTEMPT_AGE, and
\* finished; claimed is the NOTIFY_PENDING that a notify leaves when it dies;
\* carded has a card for its team.
Status == {"draft", "ingested", "pending", "reviewing", "stale", "ready",
           "claimed", "carded", "closed"}

Pc == {"idle", "poll", "next", "semantic", "answer", "notify"}

\* The bills that have a row in runs.
Ingested == {r \in Run : run[r] # "draft"}

TypeOK ==
  /\ run \in [Run -> Status]
  /\ earlier \in [Run -> SUBSET Ingested]
  /\ old \subseteq Ingested
  /\ broken \subseteq Run
  /\ poll \in [Execution -> {"none", "asked", "answered"}]
  /\ pc \in [Execution -> Pc]
  /\ todo \in [Execution -> SUBSET Run]
  /\ current \in [Execution -> Run \cup {Nobody}]
  /\ heard \subseteq Run
  /\ faults \in Nat

Carried(r) == \E e \in Execution : r \in todo[e]

Fault == faults < MaxFaults /\ faults' = faults + 1

-----------------------------------------------------------------------------
(* runs.updated_at                                                           *)

\* The runs in S are written to, now: now() is the same for a whole transaction.
Touch(S) ==
  /\ earlier' = [r \in Run |-> (IF r \in S THEN Ingested ELSE earlier[r]) \ S]
  /\ old' = old \ S

\* Fifteen minutes have passed for the oldest of the others.
Age ==
  /\ old # Ingested
  /\ old' = {r \in Ingested : earlier[r] \subseteq old}
  /\ UNCHANGED <<run, earlier, broken, poll, pc, todo, current, heard, faults>>

\* Mutant: an attempt is abandoned while its request is still waited for.
AgeAnyAttempt(r) ==
  /\ run[r] = "reviewing"
  /\ run' = [run EXCEPT ![r] = "stale"]
  /\ UNCHANGED <<earlier, old, broken, poll, pc, todo, current, heard, faults>>

\* Ten minutes have passed for an attempt nobody waits for any more.
AgeAttempt(r) ==
  /\ run[r] = "reviewing"
  /\ ~\E e \in Execution : pc[e] = "answer" /\ current[e] = r
  /\ run' = [run EXCEPT ![r] = "stale"]
  /\ UNCHANGED <<earlier, old, broken, poll, pc, todo, current, heard, faults>>

\* or it ends, when the call that began it was given up.
EndsLate(r) ==
  /\ run[r] = "reviewing"
  /\ ~\E e \in Execution : pc[e] = "answer" /\ current[e] = r
  /\ run' = [run EXCEPT ![r] = "ready"]
  /\ Touch({r})
  /\ UNCHANGED <<broken, poll, pc, todo, current, heard, faults>>

-----------------------------------------------------------------------------
(* The poll                                                                  *)

Schedule(e) ==
  /\ pc[e] = "idle"
  /\ poll[e] = "none"
  /\ pc' = [pc EXCEPT ![e] = "poll"]
  /\ poll' = [poll EXCEPT ![e] = "asked"]
  /\ UNCHANGED <<run, earlier, old, broken, todo, current, heard, faults>>

\* abandon_stale_attempts
Recovered == {r \in Run : run[r] = "stale"}

Awaiting == {r \in old : run[r] = "ready"}

\* runs_awaiting_a_card: the oldest, and no more than the limit.  Which of those
\* written to in one transaction come first is the database's choice.
Resent(cases) ==
  /\ cases \subseteq Awaiting
  /\ Cardinality(cases) <= Limit
  /\ \A left \in Awaiting \ cases :
       Cardinality(cases) = Limit /\ \A r \in cases : left \notin earlier[r]

\* The poll's transaction: what it recovers, sends again and ingests is its
\* answer.  Of an answer nobody waits for 03 was told when the wait ended.
Poll(e) ==
  /\ poll[e] = "asked"
  /\ \E new \in SUBSET (Run \ Ingested), cases \in SUBSET Awaiting :
       LET answer == Recovered \cup cases \cup new
       IN  /\ Resent(cases)
           /\ run' = [r \in Run |-> IF r \in new THEN "ingested"
                                    ELSE IF r \in Recovered THEN "ready" ELSE run[r]]
           /\ Touch(Recovered \cup new)
           /\ IF pc[e] = "poll"
              THEN /\ poll' = [poll EXCEPT ![e] = "answered"]
                   /\ todo' = [todo EXCEPT ![e] = answer]
                   /\ UNCHANGED heard
              ELSE /\ poll' = [poll EXCEPT ![e] = "none"]
                   /\ heard' = heard \cup answer
                   /\ UNCHANGED todo
  /\ UNCHANGED <<broken, pc, current, faults>>

\* The poll fails and nothing of it is written: 500, which goes to Poll Retry
\* Required, where nobody is told.
PollFails(e) ==
  /\ poll[e] = "asked"
  /\ Fault
  /\ poll' = [poll EXCEPT ![e] = "none"]
  /\ pc' = [pc EXCEPT ![e] = "idle"]
  /\ UNCHANGED <<run, earlier, old, broken, todo, current, heard>>

\* Mutant: the node's own failure is taken like an answer of 500.
GiveUpQuietly(e) ==
  /\ pc[e] = "poll"
  /\ Fault
  /\ pc' = [pc EXCEPT ![e] = "idle"]
  /\ poll' = [poll EXCEPT ![e] = IF @ = "asked" THEN "asked" ELSE "none"]
  /\ todo' = [todo EXCEPT ![e] = {}]
  /\ UNCHANGED <<run, earlier, old, broken, current, heard>>

\* Poll Runs waits no longer, or the answer is lost: the node fails and 03 is
\* told.  A poll that was asked for goes on by itself.
GiveUp(e) ==
  /\ pc[e] = "poll"
  /\ Fault
  /\ pc' = [pc EXCEPT ![e] = "idle"]
  /\ poll' = [poll EXCEPT ![e] = IF @ = "asked" THEN "asked" ELSE "none"]
  /\ heard' = heard \cup todo[e]
  /\ todo' = [todo EXCEPT ![e] = {}]
  /\ UNCHANGED <<run, earlier, old, broken, current>>

\* Split Run IDs
Split(e) ==
  /\ poll[e] = "answered"
  /\ poll' = [poll EXCEPT ![e] = "none"]
  /\ pc' = [pc EXCEPT ![e] = IF todo[e] = {} THEN "idle" ELSE "next"]
  /\ UNCHANGED <<run, earlier, old, broken, todo, current, heard, faults>>

-----------------------------------------------------------------------------
(* Workflow 02, for one run after another                                    *)

\* 02 has ended for the current run: Process Each Bill goes on with the next,
\* whether it ended well or not.
EndsFor(e, r) ==
  /\ todo' = [todo EXCEPT ![e] = @ \ {r}]
  /\ pc' = [pc EXCEPT ![e] = IF todo[e] \subseteq {r} THEN "idle" ELSE "next"]
  /\ current' = [current EXCEPT ![e] = Nobody]

\* Stop and Error: 03 is told, with the run.
FailsFor(e, r) ==
  /\ EndsFor(e, r)
  /\ heard' = heard \cup {r}

GoTo(e, r, next) ==
  /\ pc' = [pc EXCEPT ![e] = next]
  /\ current' = [current EXCEPT ![e] = r]
  /\ UNCHANGED todo

\* The engine's decision: matched or unprocessable, or a case with or without
\* a question of wording.
Decided(r) ==
  /\ \E s \in {"closed", "pending", "ready"} : run' = [run EXCEPT ![r] = s]
  /\ Touch({r})

\* A run is reconciled once; after that the decision is replayed.
Reconcile(e, r) ==
  /\ pc[e] = "next"
  /\ r \in todo[e] \ broken
  /\ IF run[r] = "ingested" THEN Decided(r) ELSE UNCHANGED <<run, earlier, old>>
  /\ CASE run'[r] = "closed" -> EndsFor(e, r)
       [] run'[r] \in {"pending", "reviewing", "stale"} -> GoTo(e, r, "semantic")
       [] OTHER -> GoTo(e, r, "notify")
  /\ UNCHANGED <<broken, poll, heard, faults>>

\* The call fails, before or after its commit; a commit after the lease was lost
\* leaves a key that fails on every repeat.
ReconcileFails(e, r) ==
  /\ pc[e] = "next"
  /\ r \in todo[e]
  /\ \/ /\ r \in broken
        /\ UNCHANGED <<run, earlier, old, broken, faults>>
     \/ /\ Fault
        /\ UNCHANGED <<run, earlier, old, broken>>
     \/ /\ Fault
        /\ run[r] = "ingested"
        /\ Decided(r)
        /\ broken' \in {broken, broken \cup {r}}
  /\ FailsFor(e, r)
  /\ UNCHANGED poll

\* The attempt is on record before the model is asked.
Review(e) ==
  LET r == current[e]
  IN  /\ pc[e] = "semantic"
      /\ run[r] = "pending"
      /\ run' = [run EXCEPT ![r] = "reviewing"]
      /\ Touch({r})
      /\ GoTo(e, r, "answer")
      /\ UNCHANGED <<broken, poll, heard, faults>>

\* The stage has ended meanwhile: the gate refuses, and 02 goes on.
PastReview(e) ==
  LET r == current[e]
  IN  /\ pc[e] = "semantic"
      /\ run[r] \in {"ready", "claimed", "carded", "closed"}
      /\ GoTo(e, r, "notify")
      /\ UNCHANGED <<run, earlier, old, broken, poll, heard, faults>>

\* Another attempt is in flight, or was abandoned: semantic-review or notify
\* refuses the run.
UnderReview(e) ==
  LET r == current[e]
  IN  /\ pc[e] = "semantic"
      /\ run[r] \in {"reviewing", "stale"}
      /\ FailsFor(e, r)
      /\ UNCHANGED <<run, earlier, old, broken, poll, faults>>

Reviewed(e) ==
  LET r == current[e]
  IN  /\ pc[e] = "answer"
      /\ run' = [run EXCEPT ![r] = "ready"]
      /\ Touch({r})
      /\ GoTo(e, r, "notify")
      /\ UNCHANGED <<broken, poll, heard, faults>>

\* Slack takes the card, or the case has one, or needs none.
Notify(e) ==
  LET r == current[e]
  IN  /\ pc[e] = "notify"
      /\ run[r] # "claimed"
      /\ IF run[r] = "ready"
         THEN run' = [run EXCEPT ![r] = "carded"] /\ Touch({r})
         ELSE UNCHANGED <<run, earlier, old>>
      /\ EndsFor(e, r)
      /\ UNCHANGED <<broken, poll, heard, faults>>

\* Mutant: a post that failed leaves no mark on the run.
RefusedUnmarked(e) ==
  LET r == current[e]
  IN  /\ pc[e] = "notify"
      /\ run[r] = "ready"
      /\ FailsFor(e, r)
      /\ UNCHANGED <<run, earlier, old, broken, poll, faults>>

\* Slack refuses the card: not a fault, it may do so for good.
Refused(e) ==
  LET r == current[e]
  IN  /\ pc[e] = "notify"
      /\ run[r] = "ready"
      /\ Touch({r})
      /\ FailsFor(e, r)
      /\ UNCHANGED <<run, broken, poll, faults>>

\* The run was claimed by a notify that died: it is refused, or what the key holds
\* of an earlier card is replayed and taken for success.
TurnedAway(e) ==
  LET r == current[e]
  IN  /\ pc[e] = "notify"
      /\ run[r] = "claimed"
      /\ FailsFor(e, r) \/ (EndsFor(e, r) /\ UNCHANGED heard)
      /\ UNCHANGED <<run, earlier, old, broken, poll, faults>>

\* The call to semantic-review or notify fails, or its answer is lost.
CallFails(e) ==
  /\ pc[e] \in {"semantic", "answer", "notify"}
  /\ Fault
  /\ FailsFor(e, current[e])
  /\ UNCHANGED <<run, earlier, old, broken, poll>>

\* notify dies with the run claimed, or posts the card and its answer is lost.
NotifyDies(e) ==
  LET r == current[e]
  IN  /\ pc[e] = "notify"
      /\ run[r] = "ready"
      /\ Fault
      /\ \E s \in {"claimed", "carded"} : run' = [run EXCEPT ![r] = s]
      /\ Touch({r})
      /\ FailsFor(e, r)
      /\ UNCHANGED <<broken, poll>>

-----------------------------------------------------------------------------
(* People                                                                    *)

\* The other team has its card at once, or Slack refuses it, or the notify dies;
\* nobody is told.
HandedOver(r) ==
  \/ /\ \E s \in {"carded", "ready"} : run' = [run EXCEPT ![r] = s]
     /\ UNCHANGED faults
  \/ /\ Fault
     /\ run' = [run EXCEPT ![r] = "claimed"]

\* The team decides the case, or hands it over.
Decide(r) ==
  /\ run[r] = "carded"
  /\ \/ run' = [run EXCEPT ![r] = "closed"] /\ UNCHANGED faults
     \/ HandedOver(r)
  /\ Touch({r})
  /\ UNCHANGED <<broken, poll, pc, todo, current, heard>>

\* The runbook: a claimed run, which the metrics list once it is old, is returned by
\* hand, updated_at as it was.  To run notify again is left to the re-send.
Return(r) ==
  /\ run[r] = "claimed"
  /\ r \in old
  /\ run' = [run EXCEPT ![r] = "ready"]
  /\ UNCHANGED <<earlier, old, broken, poll, pc, todo, current, heard, faults>>

\* The runbook: a run left INGESTED that somebody heard of, who cannot see whether
\* it is being sent again.
LeftBehind(r) == run[r] = "ingested" /\ r \in heard

\* Workflow 02 is run again for it,
RunAgain(e, r) ==
  /\ LeftBehind(r)
  /\ pc[e] = "idle"
  /\ poll[e] = "none"
  /\ pc' = [pc EXCEPT ![e] = "next"]
  /\ todo' = [todo EXCEPT ![e] = {r}]
  /\ UNCHANGED <<run, earlier, old, broken, poll, current, heard, faults>>

\* or the runbook's loop reconciles it, and no more.
ReconcileByHand(r) ==
  /\ LeftBehind(r)
  /\ Decided(r)
  /\ UNCHANGED <<broken, poll, pc, todo, current, heard, faults>>

-----------------------------------------------------------------------------

Init ==
  /\ run = [r \in Run |-> "draft"]
  /\ earlier = [r \in Run |-> {}]
  /\ old = {}
  /\ broken = {}
  /\ poll = [e \in Execution |-> "none"]
  /\ pc = [e \in Execution |-> "idle"]
  /\ todo = [e \in Execution |-> {}]
  /\ current = [e \in Execution |-> Nobody]
  /\ heard = {}
  /\ faults = 0

\* What the service answers in the end, and n8n does with it.
Proceed(e) ==
  \/ Poll(e) \/ Split(e)
  \/ \E r \in Run : Reconcile(e, r) \/ ReconcileFails(e, r)
  \/ Review(e) \/ PastReview(e) \/ UnderReview(e) \/ Reviewed(e)
  \/ Notify(e) \/ Refused(e) \/ TurnedAway(e)

Recover(r) == ReconcileByHand(r) \/ Return(r) \/ \E e \in Execution : RunAgain(e, r)

Next ==
  \/ \E e \in Execution :
       \/ Schedule(e) \/ Proceed(e) \/ PollFails(e) \/ GiveUp(e)
       \/ CallFails(e) \/ NotifyDies(e)
  \/ \E r \in Run : AgeAttempt(r) \/ EndsLate(r) \/ Decide(r) \/ Recover(r)
  \/ Age

Spec == Init /\ [][Next]_vars

\* The schedule fires, every call is answered or given up, time passes, and the
\* operator acts on what 03 told and on the stuck runs of the metrics.
Fairness ==
  /\ \A e \in Execution : WF_vars(Proceed(e)) /\ WF_vars(Schedule(e))
  /\ WF_vars(Age)
  /\ \A r \in Run : WF_vars(AgeAttempt(r)) /\ WF_vars(Recover(r))

FairSpec == Spec /\ Fairness

-----------------------------------------------------------------------------
(* Properties                                                                *)

\* updated_at is a point in time: what is earlier than an earlier run is earlier,
\* what is not earlier is as late, and the oldest grow old first.
TimeOrder ==
  /\ \A q, r \in Run : q \in earlier[r] =>
       earlier[q] \subseteq earlier[r] /\ r \notin earlier[q]
  /\ \A q, r \in Ingested : q \notin earlier[r] => earlier[r] \subseteq earlier[q]
  /\ \A r \in old : earlier[r] \subseteq old

\* How far a run has come, for good: a hand-over asks for another card, and a claim
\* is returned.
Progress ==
  [draft |-> 0, ingested |-> 1, pending |-> 2, reviewing |-> 3, stale |-> 4,
   ready |-> 5, claimed |-> 5, carded |-> 5, closed |-> 6]

\* No run goes back: whatever is sent again, answered late or done by hand, it is
\* reconciled once, its wording is reviewed once, and a closed case stays closed
\* (reconcile's replay, start_attempt, abandon_stale_attempts).
NeverBack == [][\A r \in Run : Progress[run[r]] <= Progress[run'[r]]]_run

\* A run that nothing in flight carries, and no later poll will send, is one a
\* failure was told of: no lost answer, no failed call and no run that fails
\* before it in the list strands a bill in silence (workflows 01 to 03).
StrandedIsHeard ==
  \A r \in Run : run[r] \in {"ingested", "pending"} /\ ~Carried(r) => r \in heard

AtNotify(r) == \E e \in Execution : pc[e] = "notify" /\ current[e] = r

\* No case waits behind others for ever: one that is ready for a card is sent to
\* notify again, however often Slack refuses others, and one that a dead notify had
\* claimed too, while fewer cases than the limit fail before their notify
\* (runs_awaiting_a_card, notify's updated_at, the runbook's section 1).
NoCaseStarves ==
  \A r \in Run :
    []<>(\/ run[r] \notin {"ready", "claimed"} \/ AtNotify(r)
         \/ r \in broken \/ Cardinality(broken) >= Limit)

\* Every bill that became a run is reconciled in the end, by workflow 02 or by
\* the operator it was told to (run_poll, the runbook's section 1).
EveryRunIsReconciled ==
  \A r \in Run : []<>(run[r] # "ingested")
=============================================================================
