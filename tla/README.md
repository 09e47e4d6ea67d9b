# Bill and purchase-order exception router: specifications

TLA+ models of the policy service in `policy_service/`, TLC configurations that
check them on small instances, and TLAPS proofs for every instance. Paths below
are relative to the repository.

## 1. The system

A FastAPI service over PostgreSQL decides what happens to draft supplier bills.
n8n workflows call it, Xero holds the bills and purchase orders, a Claude model
may comment on a wording difference, and people decide review cases in Slack.

    n8n 01 --poll--> bills from Xero become runs (INGESTED)
    n8n 02 --reconcile--> MATCHED (COMPLETED) or REVIEW_REQUIRED (REVIEW_READY)
           --semantic-review--> one bounded model attempt, never a decision
           --notify--> a card for the run's team (NOTIFY_PENDING, AWAITING_TRIAGE)
    Slack  --click, modal submission--> hand-off, question, or final decision (COMPLETED)
    n8n 03 --alert--> a failure of 01 or 02 is posted in the alerts channel

Everything shares one database. No transaction is open while Xero, Claude or
Slack is called (I12), so each operation is several transactions with other
operations between them. That is where the difficulty of the system is.

### Components

| Component | State it keeps | Operations | What makes it correct |
| --- | --- | --- | --- |
| Triage (`domain/triage.py`, `api/slack.py`) | `runs.workflow_status`, `triage_destination`, `triage_decisions`, `slack_notifications`; cards in Slack | notify, check_click, record_decision, the card updates | one final decision, one escalation, one open question; decisions come from the team that has the case; one notify at a time; a waiting case has a live card of its team |
| Tables (`slack_blocks.py`, `enums.py`, `routing.py`) | none | allowed actions, destinations | every case always offers a move |
| Idempotency (`db/idempotency_store.py`, `api/idempotency.py`) | `idempotency_registry` | claim, reopen, complete, fail | one holder per claim, no doubled work inside a lease, fenced results, one body per key |
| Endpoints (`api/runs.py`) | none of their own | poll, reconcile, semantic-review, notify | a failed call leaves a key that can run again |
| Poller (`domain/poller.py`) | `poll_cursors`, new `runs` | page walk, ingest, re-send | no bill skipped, one run per bill version, no case forgotten or starved |
| Semantic review (`domain/semantic.py`) | `semantic_attempts`, `semantic_stage_status` | start, finalise, abandon | one attempt at a time; a late result changes nothing; the stage ends |
| Duplicate check (`db/repository.py`) | advisory locks, keys of `runs` | lock, look up, commit | of two bills sharing a key at least one is flagged; no deadlock |
| Reconciliation (`domain/reconciliation.py`, `routing.py`) | none | pair lines, compare, gate, route | deterministic; every difference is an exception; routing by precedence |
| Connection pool (`db/engine.py`) | at most 8 connections | take, give back | every request ends, though failing ones need a second connection |
| Xero client (`integrations/xero_*.py`) | token cache | retries, token refresh | a mandated wait is never shortened; a bounded number of attempts; no stale token |
| Alerts (`api/alerts.py`, workflow 03) | alert history in the registry | post unless repeated | no failure is silenced |
| Workflows 01 and 02 (`n8n/workflows/`) | the poll's answer, the place in it | poll, reconcile, review, notify per run | nothing is left behind without anybody told |
| Claude client | none | one call | a reply is used only when it validates |
| Limits, authentication, redaction, parsing, configuration | none | filters and conversions | covered by unit tests |

`PROJECT.json` lists every component with its sources and status.

### What is hard

- **Reads without a lock.** Notify's first check, a modal's preview, the retry
  check, the choice of the card to update, and `claim()`'s SELECT are all used
  after another transaction may have changed what they read.
- **The claim that outlives its lock.** NOTIFY_PENDING stands for a lock while
  Slack is called, yet a click may arrive from the card before its post is on
  record, and a decision may move the run meanwhile.
- **Slack.** A post may succeed without an answer, an update may be lost, a
  delivery is repeated, a modal is submitted long after it was checked.
- **Crashes.** Between a committed claim and its record, between the decision
  and its card work, between work done and the registry.
- **Leases.** A holder may outlive its claim and come back.
- **A list that changes while it is read.** People save and approve bills between
  the pages of one poll, polls overlap, and the cursor decides what is never
  asked for again.
- **Two bills at once.** Two duplicates reconciled at the same time each look for
  the other before either is committed; they take two locks each.
- **Waits of one for another.** A request that fails needs a second connection
  while it holds its first, threads share a token and the lock of its cache, and
  Xero says how long to wait.
- **Answers that carry work.** The runs of a poll exist only in its answer once it
  has committed; a call of a workflow that fails leaves a run where no later poll
  looks, and the re-send takes a limited number, the oldest first.
- **Documents nobody thought of.** Descriptions repeat, codes and amounts are
  missing, and the engine must neither guess a pair nor stay silent on a
  difference.

Every hazard, at its line and with the property that covers it, is in
`PROJECT.json` under `hazards`.

## 2. The modules

| Module | Models | Checked and proved in |
| --- | --- | --- |
| `TriageRules` | the teams, controls, hand-offs; `allowed_actions`, `handoff_destination` | |
| `Case` | what triage promises about one case: an abstract specification | through `Triage` |
| `Triage` | one case: database rows, cards in Slack, requests in flight | `MCTriage`, `TriageProofs` |
| `Registry` | what the registry promises about one key: an abstract specification | through `Idempotency`, `Semantic`, `Reconcile` |
| `Idempotency` | one key of one operation and the requests that carry it | `MCIdempotency`, `IdempotencyProofs` |
| `Semantic` | the model stage of one case: workflow 02's executions, attempts, the poll's recovery | `MCSemantic`, `SemanticProofs` |
| `PollWalk` | polls that overlap: the page walk, the cursor, the runs | `MCPollWalk`, `PollWalkProofs` |
| `Decisions` | what reconciliation promises about duplicates: an abstract specification | through `Reconcile` |
| `Reconcile` | the reconcile endpoint for several runs at once, with the duplicate check | `MCReconcile`, `ReconcileProofs` |
| `Engine` | the deterministic decision on one bill and one order | `MCEngine`, `ReconcileProofs` |
| `Transport` | calls to Xero in several threads: retries, waits, the token cache | `MCTransport`, `TransportProofs` |
| `Requests` | requests in flight, the connection pool, the alerts of workflow 03 | `MCRequests`, `RequestsProofs` |
| `Pipeline` | workflows 01 and 02, the poll's answer and its re-send, the operator | `MCPipeline`, `PipelineProofs` |

Three modules say what a component promises, and the detailed ones are shown to
keep it, by refinement mappings: `Case` is implemented by `Triage`
(`ImplementsCase`), `Decisions` by `Reconcile` (`DecidesOneByOne`), and `Registry` by
`Idempotency` (`KeyIsFenced`). `Semantic` and `Reconcile` keep of their keys only who
may execute; that they may is proved by the same promise, `Registry`, which their
keys implement as well (`KeyIsFenced`, `KeysAreFenced`). The decision of `Engine` is
what `Reconcile` records.
`Pipeline` composes the system from the outside: one call to an endpoint is one
step there, with the outcomes that the endpoint's own module says it can have.
`Requests` looks across them at what they hold. Each says in its header what it
takes from the others.

A definition called a mutant in its comment is a plausible mistake in the code,
used only to show that a property can fail.

### Triage

Variables against the code: `status`, `destination` are the run's row;
`decisions` the rows of `triage_decisions` in order; `notification` the run's
row of `slack_notifications`; `cards` the messages Slack holds, a card's
timestamp being its index; `interactions` the clicks and opened modals whose
deliveries may come, once or often; `worker` what each request in flight is
doing and what it has read.

A step is one committed transaction, one unlocked read, or one Slack call.
`SELECT ... FOR UPDATE` on the run makes a locked check and the writes after it
one step.

| Code | Actions |
| --- | --- |
| click and modal (`_click`, `_open_modal`, `_submission`) | `Press`, `OpenModal`, `RefuseModal`, `Deliver` |
| `record_decision` under the lock | `Close`, `HandOff`, `InPlace`, `Refuse` |
| `_finish`, `update_card_best_effort` | `FinishRead`, `FinishUpdate` |
| `_refused`, `refresh_decided_card`, `refresh_current_card` | `Settle`, `RedrawLoad`, `RedrawControls`, `RedrawMatch`, `Redraw` |
| `notify` | `CallNotify` or `NotifyCheck`, `NotifyClaim` or `NotifyRefused`, `SlackPosts` or `SlackRefuses`, `NotifyRecord` |
| crash; runbook section 1 | `Crash`, `Recover` |

Abstractions. One run is modelled: triage never reads another run's rows. The
case starts where `load_for_notification` accepts it, REVIEW_REQUIRED with its
model stage finished, and triage changes neither. Users, notes, channels, times
and layout are left out. The preview before a modal is one step: it records
nothing, and whatever is submitted is checked again under the lock. A Slack
update takes effect during the call or is lost. The key of n8n's notify call is
left to `Idempotency`: here notify may be called at any time, which includes
every replay and reopening. A failed commit is a `Crash`. The unique indexes
`uq_triage_one_final_per_run` and `uq_triage_one_escalation_per_run` are left
out on purpose: the checks show that the code keeps their promises without
them. Final `ESCALATE` rows written before migration 005c are not modelled.

Two constants are assumptions about people and timing. With `EarlyClicks` FALSE
nobody clicks a card before the outcome of a post is on record; with
`PromptFinish` TRUE the card work of a decision ends before another request's
notify claims the run. The `early` run makes neither assumption; `wrong_team`
shows what the first one carries.

### Idempotency

`row` is the key's row; `result` in it is the generation that wrote the result.
Time is the set `expired` of generations whose lease has run out: an abandoned
claim's lease always runs out, a live holder's only as a counted fault. A step is
one SQL statement with its commit, since `claim()` reads without a lock and then
changes the row with a conditional UPDATE.

`owed` is `awaits_card`, the one fact on which a recorded result is withdrawn
(`reopen`); endpoints other than notify correspond to `owed` staying FALSE.
`Complete` commits the work with its result, even for a displaced holder, whose
work stays while its result is dropped, as every caller does. What the work is,
retention and clean-up are left out.

`TheKey` maps it to `Registry`, which knows of neither generations nor leases: who
holds the row's generation is the holder, who holds another is displaced, and a
key that was never used or has failed is free. That a permanent failure is not
executed again is not among its promises, since `claim()` does not keep it.

### Semantic

`stage` is `runs.semantic_stage_status`, `attempts` the statuses in
`semantic_attempts`, `key` the registry row of `<run>-semantic` as far as it
decides who executes, `card` the stage the card on record was drawn from, `exec`
what each execution of workflow 02 and the request it sent are doing, `sent` the
executions asked for and not started.

| Code | Actions |
| --- | --- |
| the claim of the key (`_claim`) | `Execute`, `TurnAway`, `Replay` |
| `review`: load, `start_attempt`, the call, `finalise` | `Load`, `Start`, `StageMoved`, `SecondAttempt`, `Called`, `Finalise` |
| the answer; `_release_claim` | `Complete`; `Fails`, `Release` |
| `load_card_context`, notify | `Notify`, `SlackRefuses` |
| the poll: `abandon_stale_attempts`, `runs_awaiting_a_card` | `Abandon`, `Resend` |
| n8n and crashes | `Begin`, `SentTwice`, `NotSent`, `GiveUp`, `Crash` |

The stage starts PENDING: the gate has permitted a review and the flag is on.
Notify is one step here, since `Triage` has its parts. Which rejection reason an
attempt gets, and what the model says, are left out. The ten minutes after which
an attempt is stale are longer than any timeout, so abandoning an attempt whose
request still runs is a counted fault, as is a lease that is lost early.

`key` has no generation: its holder is the execution whose claim is current.
`TheKey` maps it to `Registry`, with a result that is never withdrawn.

### PollWalk

`saved` is Xero's `UpdatedDateUTC` of each bill, which is its version, `drafts` the
bills Xero still holds as drafts; `cursor` the high-water mark; `runs` the drafts
whose version has a run; `poll` what each
poll in flight has read. Time counts in `REQUERY_OVERLAP`. The actions are the
handler's steps: `Begin` (`started_at`), `ReadCursor`, `Fetch` (one iteration of
`walk_pages`), `Commit` (ingest, `advance_cursor`, the key's result), `Fail`; and
people's, `Save` and `Approve`.

Whether Xero's `If-Modified-Since` includes the time itself is the constant
`Strict`: safety is checked under the strict reading, which loses more.
`EditsInSteps` says whether people save bills while a walk steps page numbers
within one timestamp. Left out: the clocks of Xero and the service are the same
(a skew is what the overlap is for), saves that leave the content as it was, and
the organisation's allow-list.

A bill of `Unsound` may be saved in a form that `Bill.model_validate` refuses. A
poll that received one (`refused`) fails as a whole in `Reject`: the loop has no
handler of its own, so the runs, the cursor and the key are rolled back.

### Reconcile

`claim` is the registry row of each run's key, `result` the run's row and its
duplicate keys, `lock` the advisory lock of each key, `request` what each request
is doing. Keys are numbers in their sort order, an invoice key and a business key
for a bill. A step is one statement: `Lock` and `LookUp` one key each, `Update`
(`UPDATE ... RECONCILING`, which the schema refuses for a run with an outcome),
`Commit`. Every rollback gives up the locks. The bill may be another version at
each fetch, so the keys of a run are chosen at `Fetch`.

`Decisions` has `result` alone and one step: a run without a decision is decided,
with some keys, and flagged on exactly those that another bill has been decided
with. `DecidesOneByOne` says that every commit is such a step and nothing else
touches `result`, which is more than `DuplicateIsFlagged`: a decision also counts no
duplicate that is none, and what a request read is not out of date at its commit.

### Engine

The engine is one function, so `Called` takes every input of the constant
`Input`, `Decide` is the call (`EngineSpec` is the two), and the invariants compare
the decision with the documents and with the decisions on documents slightly
changed; until the call the decision is `NotCalled`. `EngineAssumption` says that a
call is of two parsed documents (sequences of `LineItem`) and a `Heading`, and that
each text has a strict and a loose form. A text is what
`normalise_strict` makes of a description, `LooseOf` what `normalise_loose` makes
of it, an item code is normalised, amounts are cents, with `Absent`
(-1000, which no amount of the runs is) where the document gives none, and an
exception is its code and whether it is of the residual pair: line references
and evidence are left out. The conditions of eligibility that read one field
each are a set, `failed`, and the order in which the code asks for them is kept.

### Transport

`call` is what each thread's `_get` is doing: the attempt, what it has slept, the
token it sends, and what is left of its timeout, its sleep and the delay Xero
asked for. `cache` is the `TokenCache`. There is no clock: `Tick` takes one unit
off every remaining time, and the token's life (`life`) is counted besides
`expires_at` (`left`), so that the two can disagree. A token notes the callers
that met a 401 since it was issued (`outdated`).

| Code | Actions |
| --- | --- |
| `TokenCache.get`, `request_token` | `UseCached`, `Fetch`, `Fetched`, `FetchRefused` |
| `_get`: the answer, the 401, the failure | `Answered`, `Unauthorised`, `Throttled`, `Unanswered` |
| `next_retry` and the decision of `_get` | `Decide`, with `Backoff`, `NotBefore`, `Delays`, `Releases` |
| `TokenCache.invalidate`; `sleep` | `Invalidate`; `Wake` |

The lock is held by the thread that fetches. Times are whole units; jitter is any
delay up to the backoff. `Horizon` stands for `datetime.max`: a longer delay is
clamped to it, and released, since it is longer than a worker may sleep. The
allow-list of operations, the filter of headers and the parsing of answers keep
no state and are left out. `MarginAssumption` is what the configured times say:
the margin of 60 seconds covers a fetch and a request, each ended by its timeout.

### Requests

`request` is what each request waits for, `key` the registry row of its key as far
as it decides who may run, `posts` the alerts in the channel, `fresh` those
recorded as posted within `REPEAT_WINDOW`; `node`, `tries` and `impatient` are the Alert node
of each execution of workflow 03.

| Code | Actions |
| --- | --- |
| a run endpoint (`runs.py`), its one connection | `Arrive`, `Claim`, `Succeed`, `Fail`, `Release`, `LeaseExpires` |
| `alert`, three connections one after another | `ClaimAlert`, `Post` or `Refuse`, `Record` or `Withdraw`, `Age` |
| workflow 03: the tries and the timeout of a try | `Break`, `Again`, `GiveUp` |
| the pool's timeout; a restart | `TurnAway`; `Restart` |

The four run endpoints hold their connection the same way and are one kind of
request. `free` stands for a key never used or one that failed and may run again;
a permanent failure is not told apart, since it is `Idempotency`'s subject. An
alert's lease (300 s) outlasts all tries of its node, so it does not run out. A
request is turned away only while no connection is free. A database statement that
fails while an alert is suppressed or recorded (`alerts.py:124-131`, `168-171`), or
inside a release, is not a step of its own: it leaves the claim behind, as a try that
is cut off does.

### Pipeline

`run` is how far each bill has come, `earlier` the order of `runs.updated_at` (for
each run, those whose time is before its own), `old` the runs whose time is longer
ago than `UNNOTIFIED_AFTER`, `broken` the runs whose reconcile key fails on every repeat, `poll` and `pc` what
the service and n8n think of each execution of workflow 01, `todo` the part of the
answer that is still to be processed, `heard` the runs that a failure told to
workflow 03 was about (for a poll that was given up: the runs of its answer,
which the operator finds as INGESTED).

| Code | Actions |
| --- | --- |
| workflow 01 | `Schedule`, `GiveUp`, `PollFails`, `Split`, `EndsFor` |
| the poll (`runs.py`, `poller.py`, `semantic.py`) | `Poll`, with `Recovered`, `Awaiting` and `Resent` |
| workflow 02 | `Reconcile` or `ReconcileFails`; `Review`, `Reviewed`, `PastReview`, `UnderReview`; `Notify`, `Refused`, `TurnedAway` or `NotifyDies`; `CallFails` |
| time | `Age`, `AgeAttempt`; `EndsLate` |
| people | `Decide` with `HandedOver`; `RunAgain`, `ReconcileByHand`, `Return` (runbook section 1) |

One step is one call with its answer. A call that n8n gives up takes effect then
or not at all; that it may take effect later is in `Semantic`, `Reconcile` and
`Triage`. Of the poll and of semantic-review the later effect is a step here: a poll
that is given up goes on, and so may a review (`EndsLate`). A notify that dies after
its claim, in workflow 02 or after a hand-over, leaves the run `claimed`
(NOTIFY_PENDING): notify turns it away, no poll sends it, and the operator, who finds
it among the stuck runs (`scripts/capture_metrics.py:49`), returns it. PostgreSQL's `now()` is the time at which a transaction began, so the runs
that one poll recovers and ingests share one `updated_at`; where they are more than
the limit, the query's ORDER BY leaves to the database which of them come first,
and `Resent` takes any. A case whose stage has ended passes semantic-review, which replays or refuses
and changes nothing, so workflow 02 goes straight on to notify. A card that
reached Slack without an answer is refused here. n8n does not die: an execution
that is cut off leaves its runs without anybody told. A run whose reconcile Xero
refuses for good (422), or whose bill Xero no longer has (409), is not modelled
either: it stays INGESTED, and every repeat fails with an alert.

## 3. The runs

| Run | Expect | Question | Bounds |
| --- | --- | --- | --- |
| `orderly` | pass | with orderly clicks and prompt card work, is every decision made by the team that has the case, one notify at a time, a waiting case never without a live card of its team, and does a case ready for a card get one, or is it closed? | 2 requests, 3 interactions, 1 fault |
| `early` | pass | with no assumption, is a case closed once and for good, and does it move only as `Case` allows (one escalation, one question at a time)? | 2 requests, 3 interactions, 1 fault |
| `wrong_team` | violation | is every decision made by the team that has the case, with early clicks? | 3 requests, no fault |
| `registry` | pass | does the key do what `Registry` promises, is a claim never doubled inside its lease, its result never lost to a stale holder, its body the one claimed, and does a key in use come to a result or a permanent failure? | 3 requests, 2 bodies, 3 faults, 1 hand-off |
| `semantic` | pass | does a stage in progress always have an attempt in flight, does a card show a stage that has ended, and does a review that was started reach a person? | 3 executions, 2 sent, 4 faults |
| `left_pending` | violation | does any review case without a card reach a person? | 2 executions, 1 fault |
| `poll_walk` | pass | is a draft without a run always one the next poll asks for, and does every draft get a run once no malformed bill is left? | 2 bills, one of which may be malformed, pages of 1, at most 3 a poll, 2 polls, 1 fault |
| `reconcile` | pass | of two bills with a common key is one flagged, are the decisions those of bills taken one at a time, is there no circle of waits, and is each run decided? | 2 requests, 2 bills, 3 keys, 2 faults |
| `documents` | pass | is silence agreement, a copy silent, the model asked about wording alone, the order of lines of no effect, and a case routed by its cause? | up to 3 lines, one spoilt; 2 lines under 31 headings |
| `transport` | pass | is no delay shortened, no worker kept, no token used that is about to expire or was refused, and does every call end? | 2 threads, 3 attempts, delays of 0, 1, 2 and 5 against a worker's 2 |
| `requests` | pass | is every claim released, every suppressed alert and every alert that ended well in the channel, and does every request end? | 2 connections, 2 run requests, 2 alerts, one of 2 tries and one of 1 |
| `pipeline` | pass | is nothing stranded in silence, does no run go back, does no case starve behind others, and is every run reconciled? | 2 runs, 2 executions, a limit of 1, 3 faults |

The bounds: every conflict in the code is between two requests (a claim, a lock
or a conditional UPDATE decides between two), so two are enough, and three where
a third is displaced or takes over from the second. Three interactions reach a
hand-off or escalation, a decision by the new team, and a stale or repeated click
among them. A fault is a crash, a failure, a lost answer or a lease lost early;
one interrupts an operation, and more let the recovery from one meet another.
Deadlock is checked in `requests` and `pipeline`; elsewhere it is not: a closed
case, a key with a result, a decided run, and a clock at its bound rightly stop.

In `semantic` a third execution takes over from, or is turned away by, two that
are already in conflict, and four faults let a request lose its lease, answer
late and be abandoned in one behaviour. In `poll_walk` a page holds one bill, so
that two bills are already more than a page: both at one time make the walk
number its pages, a bill saved during the walk makes it meet the cap, and two
polls let an earlier one write the cursor after a later one. A backlog that takes
several polls, each cut short by the cap, needs more bills and is outside these
bounds. In `reconcile` two
invoice keys and one business key let two requests share one lock or two, and let
a bill change its keys between its versions; the theorems do not depend on these
numbers. `documents` has lines alike in code, in wording, in wording but for
punctuation, and in none, so that every tier of the pairing takes, leaves and
refuses lines; one line of the bill differs from its like in one of the ten ways
a line can. In `transport` the delays lie below, at and above what a worker may
sleep, the last past `Horizon`; tokens live shorter and longer than the margin, so
that the cache is used, expires and is not filled at all; three attempts let two
sleeps add up past what one may be. In `requests` there are as many
connections as run requests, so that failing ones can hold them all and each wait
for a second that nobody gives back, while alerts wait for a first; two alerts may
be identical or not; one has a second try, so that its first can outlive n8n's
patience and work beside it. Restarts are not bounded. In `pipeline` two runs are one
more than the limit, two executions can carry the same run, and three faults let a
call fail again in what recovers from two.

`orderly`, `early`, `poll_walk`, `documents` and `transport`
take one to three minutes each, the others less. Symmetry is used in `early` only, over requests: the other passing
runs check liveness, where it is unsound, or have nothing to exchange.

### Fairness

`Triage`: requests in flight run on (weak fairness of deciding, card work and
notify); the poll re-sends a case in REVIEW_READY without a card, every few
minutes for as long as it lacks one (strong fairness, since deliveries may
occupy every worker in between; `runs_awaiting_a_card`); the operator returns a
run left in NOTIFY_PENDING (`docs/runbook.md` section 1). People owe nothing:
nobody is assumed to click. Faults are bounded, so Slack answers eventually.

`Idempotency`: requests run on, the clock runs, and the workflow repeats a call
while the key has failed or its lease has run out (`n8n` retries, the poll
re-sends).

`Semantic`: requests and workflows run on; n8n starts what the poll asks for; the
poll, every few minutes, abandons a stale attempt and re-sends a finished stage
without a card. What the poll does not do, starting a stage left PENDING, is not
assumed, which is what `left_pending` shows.

`PollWalk`: workflow 01 polls on schedule and a poll in flight runs on. People
may save bills as long as the clock runs, whose bound ends it; a cap of three
pages of one is more than fits in an overlap (see the remark on the cap below).

`Reconcile`: requests run on, strongly fair because PostgreSQL grants a lock in
the order it was asked for, so no request waits for ever while others take the
lock in turn; and a run's reconcile is called until its key has a result (the
operator for a run left INGESTED, the poll and workflow 02 for a case without a
card).

`Transport`: a thread runs on and its timeout ends a wait for an answer; a thread
that waits for the cache's lock gets it in the end (strong fairness), though
others take it in turn.

`Requests`: what a request asked of Slack or Xero is answered or ended by a
timeout, a wait for a connection ends with one or with the pool's timeout, and
n8n sends what is due: of each run's request, and of the alerts' requests taken
together, which are finitely many. Nothing is assumed of restarts, which may go on
for ever; no request then lasts beyond the next.

`Pipeline`: the schedule fires, every call is answered or given up, time passes,
and the operator acts on what workflow 03 told and on the stuck runs the metrics
list. Whether Slack takes a card is not
assumed: `Refused` may happen for ever. Faults are bounded.

`Engine` has one step and no liveness.

### What the violation runs show

1. `wrong_team`: `_check_click` takes every card as current while no post is on
   record. Two clicks on the first card in that gap are both accepted, the second
   as the decision of the team the first one sent the case to. ADR-009 says such
   a click is refused.
2. `left_pending`: a run whose stage is PENDING when its workflow 02 dies is in
   no poll's answer: `runs_awaiting_a_card` selects finished stages. The runbook's own
   recovery loop reconciles and does no more, so a run it brings to PENDING stays
   there as well.

Other behaviours of the code that the models have and no run is about:

- The hand-off of `wrong_team` returns the run to REVIEW_READY while the first
  notify is in Slack, so a second one may post beside it, and the first one's
  late record may replace the second team's: the case then waits with every click
  refused as superseded (`triage.py:640`, `406`). Hence `EarlyClicks` in
  `orderly`.
- Card work that another request's notify overtakes draws the decided card over
  the new team's (`triage.py:789`). Hence `PromptFinish`.
- The retry in `claim()` asks for `status='FAILED'` and not for the error class it
  read, so a permanent failure recorded in between is executed once more
  (`idempotency_store.py:141`).
- `start_attempt` inserts an attempt and then finds that the stage has moved; the
  refusal is caught and the attempt committed, so notify refuses the run until a
  poll abandons it (`runs.py:372`). `Mine` in `SemanticProofs` says so.
- A truncated poll puts the cursor back by the overlap, so when the cap reads no
  further than the bills of one overlap each poll reads the same ones
  (`runs.py:189`). Hence the cap in `poll_walk`.
- While more than a page of bills share a timestamp the walk numbers its pages; a
  bill that leaves the earlier pages moves the rest forward and one falls between
  two pages (`poller.py:119`; four bills and pages of two are enough). `poll_walk`
  assumes that nobody saves or approves a bill between two such requests
  (`EditsInSteps` FALSE).
- A reconcile that has lost its claim commits the decision without the key's
  result (`runs.py:297`); the next holder's UPDATE is refused by the schema, and so
  is every repeat. In `Pipeline` such a run is `broken`.
- Nothing compares item codes: two lines with different codes and different
  wordings are the model's question of wording (`reconciliation.py:483`).
- One malformed bill fails every poll until somebody mends it, and the 500 goes to
  Poll Retry Required, where nobody is told (`runs.py:172`, `01-bill-polling.json:188`).
  `n8n/README.md:96` says "One malformed bill should not cost you the other eight".
  `EveryBillGetsARun` exempts the time while there is one.
- A run whose workflow 02 fails before notify claims it is not written to, so it
  keeps its place among the oldest and is sent again at every poll, where
  `poller.py:141` says it is retried every 15 minutes; as many of them as the limit
  keep all other cases from being sent again. Hence the exemption for `broken` in
  `NoCaseStarves`.
- Runs that one poll recovers or ingests share their `updated_at`, and which of them
  are sent again when they are more than the limit is the database's choice
  (`poller.py:178`). Each attempt to notify gives a run a time of its own, so
  `NoCaseStarves` holds whatever that choice is.
- A try of an alert that is cut off by a restart, by the pool's timeout or by n8n's
  own leaves its key PROCESSING; the next try is told 202 IN_PROGRESS, which the
  Alert node takes for success (`alerts.py:108`, `03-error-handler.json:86`). Nobody
  hears of that failure. Hence the exemption in `AlertIsHeard`.
- Two identical alerts that run at once both post (`alerts.py:124`).
- A call released because Xero asks for a long delay forgets the delay: the next
  poll asks Xero without waiting for it (`xero_client.py:134`). `RetryAfterIsHonoured`
  is about one call. `raise_alert` is computed and read by nobody.
- After a hand-over whose notify died, the key of the run's notify still holds the
  success of the earlier card: an execution of workflow 02 that reaches notify before
  the run is returned has that success replayed, and nobody is told (`triage.py:329`, `slack.py:331`). Only the stuck runs
  of the metrics show it; `NoCaseStarves` rests on the operator's acting on them.

## 4. What is proved

For any number of requests, executions, polls, runs, keys, bills, interactions,
bodies and faults, and for documents of any length:

- `TriageProofs`: `TypeCorrect`, `ClosedOnce` (one final decision, the last),
  `EscalatedOnce`, `ClosedForGood` (no step changes a closed case), and
  `Implementation`: every behaviour of `Triage` is one of `Case`, step by step. When
  nobody clicks a card before its post is on record, also `DecidedByTheTeam`,
  `NotifyAlone` and `AwaitingCarded`; when card work is prompt besides,
  `CurrentCardLives`.
- `IdempotencyProofs`: `TypeCorrect`, `ClaimedByOne`, `DoubledOnlyAfterLease`,
  `Fenced`, `BodyMatches`, the action property `ResultKept` (a result on record
  is given up by a reopening alone), and `Fencing`: every behaviour of `Idempotency`
  is one of `Registry`.
- `SemanticProofs`: `TypeCorrect`, `NeverStranded` (a stage in progress has an
  attempt in flight), `Recorded` (the stage and the attempts agree),
  `CardDrawnOnce`, `EndsOnce` and `AttemptEnds` (the two action properties), and
  `Fencing`: its key implements `Registry` too.
- `PollWalkProofs`: `TypeCorrect`, and `NothingIsSkipped` when nobody edits bills
  between two pages of one query.
- `ReconcileProofs`, about `Reconcile`: `TypeCorrect`, `Flagged` (of two bills
  decided with a common key one is flagged), `FlaggedForAReason`, `DecidedForGood`,
  `NoCircle`, `Serialised` (every behaviour of `Reconcile` is one of `Decisions`), and
  `Fencing` (the key of every run implements `Registry`).
- `ReconcileProofs`, about `Engine`: `DecisionIsTyped`, `SilenceMeansAgreement`,
  `ACopyIsMatched`, `WordingIsAllThatIsAsked`, `OrderIsNothing`, `CauseOwnsTheCase`: all
  that `documents` checks.
- `TransportProofs`: `TypeCorrect`, `Honoured`, `Released`, `Outlives`, `Replaced`: all
  the safety that `transport` checks, for every schedule.
- `RequestsProofs`: `TypeCorrect`, `ClaimReleased`, `Heeded`, `SuppressedHeard`: all the
  safety that `requests` checks, for every size of the pool.
- `PipelineProofs`: `TypeCorrect`, `LatestLast` (what is done to `updated_at` is an order
  in time), `NobodyIsStranded`, and the action property `Forward` (no run goes back).

So every safety property of the passing runs is a theorem, the action properties
and the three refinements included. The type invariants are theorems and in no run;
`EscalatedOnce`, `ClosedForGood`, `ClaimedByOne`, `FlaggedForAReason`, `DecidedForGood`,
`Recorded`, `EndsOnce`, `AttemptEnds`, `LatestLast` and the `Fencing` of `SemanticProofs`
and `ReconcileProofs` state properties that no run lists.

Some theorems about `Triage` and `PollWalk` assume that a constant has the value it
has in the run of the same question. Without it the property is false:
`wrong_team` shows it for `EarlyClicks`, and section 3 names the behaviours behind
`PromptFinish` and `EditsInSteps`.

**Triage, the rows.** The invariant is `SafeInv`. `OneFinalDecision` alone is not
inductive in types: a send-back moves a case to `EscalatedFrom`, which is a team
only because an Escalate row exists whenever the control is offered, so
`OneEscalation` and `NotEscalatedTwice` (no Escalate from the escalations team)
join it, with `DecideKnown` (a delivery in progress is of a recorded
interaction) and `SlackTeam` (a card is posted or redrawn for a real team). The
argument: `CaseStep` sorts every action into those that leave the case alone and
those that append exactly one allowed decision; `DecidedRow` says what such a
decision is; `SafeNext` then needs one case for each. `OfferedControls`,
`EscalateOffered` and `HandOffMoves` are the facts about the tables of
`TriageRules`. The only assumption is `TriageAssumption`, the types of the
bounds.

**Triage implements Case.** `CaseInv` adds `QuestionInv` to `SafeInv`: the information
requests are at most one ahead of the answers, so that the count of open questions
that the code takes from the rows is the abstract flag. `DecideIsACaseStep` maps
each of `Close`, `HandOff` and `InPlace` to a step of `Case`; `LeftCaseStutters` says
that every other action is a stutter, the card work, the crashes and notify
included.

**Triage, the order of things.** `OrderInv` is what holds when clicks are orderly. A
click is of a card that is in Slack (`ClickInv`); a post on record, or about to be
recorded, is of a card of the team it names (`CardInv`); and while the run is
REVIEW_READY or NOTIFY_PENDING there is no post on record for its team, while only
the holder of the claim is in Slack, for the run's team (`StatusInv`). The last is
why a click cannot meet a half-finished notify: a decision needs a card on record,
which nobody has while somebody posts. `NotifyExclusive` and `DecidedByItsTeam` are
proved along with it. `LiveInv` adds that whoever is about to take the controls off
a card does so when no case waits on it (`WorkIsSafe`), which `PromptFinish` makes
inductive: a claim waits for the card work of the decision before it. `QuietStep`
sums up the actions that record, post and put on record nothing.

**Idempotency.** The invariant `IInv` adds to `OneHolder`, `NeverDoubled` and
`ResultIsTheHolders` that every generation in use is at most the row's, that an
expired generation was handed out, and that a request's body is the row's
(`Known`). `TakeOverKeeps`, `MovesOn`, `RecordsEnd` and `InsertKeeps` are the
four ways a step can touch the row. `ResultKept` sorts the steps that change a row
with a result: the fencing by generation leaves only a reopening.

**The registry, three times.** `Fencing` has the same shape in the three modules. A
step of one request leaves the part of every other in `holder` and `displaced` as it
was, unless it takes the key over, when the holder joins the displaced; and then
each action is one of `Claim`, `Record`, `Vanish`, `EndUnheard` or a stutter. In
`IdempotencyProofs` the mapping needs `IInv`: `OneHolder`, so that the holder is one
request, and `Known`, so that a new generation is nobody's yet. `SemanticProofs` adds
`KeyInv` (a key has a working holder only while it is held), `ReconcileProofs`
`KeysInv` (a request at rest is for no run). The three
together are why a detailed model of a key can stand for its reduced one: each
reduced key moves only as `Registry` allows, as the detailed one does. `Registry`
withholds one thing from the reduced keys: `Reopens` is FALSE for them, since those
endpoints never withdraw a result. They assume that no execution and no
request is called NOBODY.

**Semantic.** The invariant `IInv` joins the facts about stage, attempts and card
that the runs check to three that a step needs: one attempt at most is in flight
(`OneInFlight`), the first attempt takes the stage out of PENDING (`Fresh`), and
a request that will finalise has an attempt of its own for which the stage waits
while it has not ended (`Mine`). The last is where the attempt of a refused
review matters: it is in flight and nobody's. `EndKeeps` and `AppendKeeps` say
what the two ways of changing `attempts` keep; the actions that touch neither are
settled by `Steady` and `SteadyPoll`. `RowStep` sorts every step by what it does
to attempts and stage, and the two action properties follow from it.

**PollWalk.** `NoBillSkipped` speaks of the cursor, and every poll in flight may
write it, so `QueryInv` says of each what its commit will be worth. While it walks,
every draft without a run is one it has seen or one its query still finds; when it
has read everything, the same of the cursor it will write (`started_at` less the
overlap), since whatever is saved meanwhile is saved later than that (`ClockInv`).
Page numbers are the delicate part. `SteppedOver` says that every bill whose place in
the answer is before the page to come has been seen; it holds because the answer
of a query changes between two of its pages only by edits, which is the
hypothesis. `PageOf` and `ShortPageIsLast` count: bills have different ranks, the
ranks fill an initial part of the numbers (`RanksAreOnto`), so a page short of
`PageSize` is the last. A truncated poll keeps its query instead of its start.

**Reconcile.** `DuplicateIsFlagged` is not inductive: it depends on what requests
under way have locked and read. `IInv` adds that what a request has read is still
so (`Sound`: a key found on another bill is there, one looked up and not found is
on none), that each lock is held by the request that says so (`LocksMatch`), that
one request at most is about to commit a run (`OneDecides`), and that a run
without a decision has no keys (`Untouched`). `Quiet` covers the steps that
decide nothing, `Rollback` those that give up the locks. `CommitKeeps` is where
two requests meet: whoever has looked up a key holds its lock, so a commit with
that key cannot make what another has read untrue. `NoCircle` is an argument by
rank: who waits for a key holds only smaller ones, so the key's holder is further
along (`HolderIsFurther`); of finitely many ranks one is smallest (`SmallestOf`),
and that request waits for none of the others. `Serialised` adds to `IInv` that what a
request has found is of its own bill (`OfItsBill`). `CommitIsADecision` is the step
that counts: `Sound` says that the keys found are exactly those on another bill
now, and that the run is still without a decision, which `Update` and the row's lock
see to. All other steps leave `result` alone. The assumption is
`ReconcileAssumption`: the keys are finitely many and numbered in their sort
order, and no request or run is called NOBODY.

**Engine.** There is one step, so `EngineInv` (the decision is that of `reconcile` on
the input) is the whole induction, and the work is in what `reconcile` computes. The
assumption is `EngineAssumption`. The pairing comes first: `Matched` says what
a tier adds (two lines that are each the only one left with their key), `TierKeeps`
and `PairsAre` that in the end no line is in two pairs and that each pair names the
same goods. From there:

- `SilenceMeansAgreement`: `FoundNothing` says that the engine finds nothing exactly
  when every line is paired, each pair agrees in every field and the headings agree
  in currency and totals; `MatchedIs` adds the conditions that stop it earlier.
- `ACopyIsMatched`: the converse on documents that are copies. `CopyPairs` shows that
  lines that differ from one another are each paired with their own copy.
- `OrderIsNothing`: a rearrangement of the lines is a permutation, and each tier
  commutes with it (`SameTier`, so `SamePairing`); codes, the residual pair and the
  decision follow (`SameCodes`, `SameResidual`, `SameDecision`).
- `WordingIsAllThatIsAsked`: `PermittedIs` says when the gate opens, `Bystanders` that
  the one line left over on each side plays no part in the other pairs, and
  `Reworded` that giving it the other's text pairs the two and changes nothing else.
- `CauseOwnsTheCase`: `FoundCodes` and `PairCodesAre` say what the engine may find,
  `RouteIs` what the routing makes of it, `OwnersAreApart` that the teams' tables
  share no code.
- `DecisionIsTyped`: documents of one length leave as many lines of the one as of the
  other without a pair (`Counted`, by pigeonhole), so no outcome is left without a
  team, a reason or a recorded gate.

Two things came to light in attempts to prove these. The model of
`compare_account_codes` was a CASE whose guards overlap, and now follows the order
of the code's conditions. And two lines whose texts are nothing but punctuation
share the empty loose form without a common strict one, which the definition of
"the same goods" has to admit as the code does.

**Transport.** `IInv` says of each call (`CallInv`) that only a sleeping call has a
delay left, never more than its sleep, and that a token on its way lives longer
than the way can take; of the cache (`CacheInv`) that a token that may be used lives
at least a request longer than `left`; and of each caller (`FreshFor`) that once it
has invalidated the cache, no token cached, being fetched or sent by it is older
than its 401. The lock is what makes the last inductive: nobody fetches while the
cache is emptied. `DecideKeeps` settles every failure of every kind; `DelayIsWhole`
is where clamping a delay to the representable must not shorten one that is slept
out. The assumptions are `TransportAssumption` (types, and a horizon no nearer than
a worker's longest sleep) and `MarginAssumption`.

**Requests.** `AlertIsHeard` depends on what its key says about the channel
(`KeyInv`), on a request that goes to record a post having made it (`RecordInv`), on what
makes a repeat being in the channel (`FreshInv`), and
on an alert having one request at a time until its node loses patience
(`PatienceInv`, with `SentInv` and `TriesInv` for the order of its tries). With
more than one, the second's IN_PROGRESS is what the exemption is about.
`RequestsAssumption` says that the kinds of keys are disjoint.

**Pipeline.** To strand a run a step must take it out of a list or move it to a stage
no poll selects. `StageInv` says that a run is called for a stage only when the
call before has moved it, `ListInv` that no list is overwritten while it holds runs,
`FilledInv` that a list has no drafts. `EndingStrandsNobody` is the end of workflow
02 for one run: what others carry they still carry, and the run itself was moved
or told of. The order of the runs plays no part in it, so `TypesInv` leaves it out.

`TypeCorrect` and `LatestLast` are about that order. `TimeOrder` says that `earlier` is
a weak order (what is earlier than an earlier run is earlier, what is not earlier is
as late) and that the oldest grow old first. Only two things are done to it:
`TouchKeepsOrder` moves a set of runs to the end together, as one transaction does, and
`AgeKeepsOrder` lets the oldest of the others grow old; `NextOrder` sorts the actions
into these and the ones that leave it alone. Without the last conjunct of
`TimeOrder` the re-send could pass over an old case for a newer one.

`Forward` needs one fact that no run lists, `AnswerInv`: while n8n waits for the answer
of a semantic-review the run is under review, and nobody else waits for it. That
is why the answer finds the run where it was left. `Moves` names the ways a run may
go on; `ReviewMoves`, `ReviewedMoves`, `CallMoves` and `OtherMoves` show that there are
no others. A hand-over asks for another card of the same case, and a claim is
returned, so a ready, a claimed and a carded case count alike.

Model-checked only:

- Liveness (`CardEventually`, `NeverStuck`, `ReviewReachesAPerson`,
  `EveryBillGetsARun`, `EveryRunIsDecided`, `EveryCallEnds`, `EveryRequestEnds`,
  `NoCaseStarves`, `EveryRunIsReconciled`). It rests on fairness and so on when a step
  is enabled, which the prover does not reach.
- The two violations, which are counterexamples.

## 5. Not modelled, and what is left

Not modelled: text and decimal parsing, block layout, the validation of a model's
reply (`claude_contract.py`), request filters, authentication, redaction,
configuration, the evaluation harness, scripts and the migrations' mechanics.
They are sequential, hold no shared state and are covered by tests.

Left to do, in this order:

1. The rejection reasons of the model's reply as a function of what arrives, with
   the order in which the contract asks, and the theorem that only a reply in
   order is accepted.
2. n8n dying between two nodes in `Pipeline`, with what an operator can see of it.
3. That `Pipeline` takes of `Semantic`, `Reconcile` and `Triage` only outcomes they
   have is an argument in the headers. For the keys it is proved (`Fencing`); for the
   moves of a run it would be a refinement of `Pipeline`'s `run` by each of them.
