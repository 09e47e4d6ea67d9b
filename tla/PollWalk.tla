------------------------------ MODULE PollWalk ------------------------------
(***************************************************************************)
(* The polls that turn Xero's draft bills into runs: the page walk over a    *)
(* list of bills that people edit while it is read, and the cursor a poll   *)
(* leaves for the next one.  A step is one request to Xero, or one           *)
(* transaction.                                                             *)
(*                                                                          *)
(* Time counts in units in which REQUERY_OVERLAP is one.  A bill's version   *)
(* is the time it was saved; saving changes its content.  Only the versions  *)
(* Xero still holds are kept track of: an older one is in no answer again.   *)
(***************************************************************************)
EXTENDS Naturals, FiniteSets, FiniteSetsExt

CONSTANTS
  Bill,            \* bills, numbered: ties in Xero's order go by number
  Poll,            \* polls that can overlap
  PageSize,        \* MAX_BILLS_PER_POLL
  MaxPages,        \* MAX_POLL_PAGES
  Overlap,         \* POLL_OVERLAP_MINUTES
  Strict,          \* does If-Modified-Since exclude the time itself?
  EditsInSteps,    \* people may save bills while a walk steps page numbers
  Together,        \* bound: bills saved within one Overlap
  MaxBacklogTime,  \* bound: when the bills before the first poll were saved
  MaxTime,         \* bound: the clock
  Unsound,         \* bound: the bills that can be saved malformed
  MaxFaults        \* bound: polls that fail

ASSUME PollWalkAssumption ==
  /\ Bill \subseteq Nat /\ IsFiniteSet(Bill)
  /\ Unsound \subseteq Bill
  /\ PageSize \in Nat \ {0} /\ MaxPages \in Nat \ {0}
  /\ Overlap \in Nat \ {0} /\ Together \in Nat
  /\ Strict \in BOOLEAN /\ EditsInSteps \in BOOLEAN
  /\ MaxBacklogTime \in Nat \ {0} /\ MaxTime \in Nat /\ MaxFaults \in Nat

VARIABLES
  now,      \* the clock, Xero's and the service's
  saved,    \* UpdatedDateUTC of each bill in Xero, 0 for none yet
  drafts,   \* the bills that are drafts
  malformed,  \* the drafts that Bill.model_validate refuses
  cursor,   \* poll_cursors.high_water_mark, 0 before the first poll
  runs,     \* the drafts whose version has a run
  poll,     \* what each poll is doing
  faults    \* failed polls so far

vars == <<now, saved, drafts, malformed, cursor, runs, poll, faults>>

-----------------------------------------------------------------------------
(* Values                                                                   *)

\* left counts the requests the cap still allows; seen is the drafts whose
\* version was handled, and refused whether a malformed version was received;
\* last is last_updated.
Idle == [pc |-> "idle", started |-> 0, since |-> 0, page |-> 1, left |-> 0,
         seen |-> {}, refused |-> FALSE, last |-> 0, truncated |-> FALSE]

PollState ==
  [pc: {"idle", "cursor", "walk", "commit"}, started: Nat, since: Nat, page: Nat,
   left: Nat, seen: SUBSET Bill, refused: BOOLEAN, last: Nat, truncated: BOOLEAN]

TypeOK ==
  /\ now \in Nat
  /\ saved \in [Bill -> Nat]
  /\ drafts \subseteq Bill
  /\ malformed \subseteq drafts
  /\ cursor \in Nat
  /\ runs \subseteq Bill
  /\ poll \in [Poll -> PollState]
  /\ faults \in Nat

\* d before t, or the beginning.
Before(t, d) == IF t > d THEN t - d ELSE 0

-----------------------------------------------------------------------------
(* Xero's answer to list_invoices                                           *)

ModifiedSince(b, since) ==
  \/ since = 0
  \/ IF Strict THEN saved[b] > since ELSE saved[b] >= since

Precedes(b, c) == saved[b] < saved[c] \/ (saved[b] = saved[c] /\ b < c)

\* One page of the drafts modified since, in the order UpdatedDateUTC ASC.
Page(since, page) ==
  LET found == {b \in drafts : ModifiedSince(b, since)}
      Rank(b) == Cardinality({c \in found : Precedes(c, b)})
  IN  {b \in found : Rank(b) \div PageSize = page - 1}

-----------------------------------------------------------------------------
(* People save and approve bills; the clock runs                            *)

\* Bounds how many drafts were saved close together.
Spread ==
  \A b \in drafts :
    Cardinality({c \in drafts : saved[c] \in saved[b]..(saved[b] + Overlap)}) <= Together

Stepping == \E p \in Poll : poll[p].pc = "walk" /\ poll[p].page > 1

\* What has a run, or was handled, is not Xero's version of the bill any more.
Outdated(b) ==
  /\ EditsInSteps \/ ~Stepping
  /\ runs' = runs \ {b}
  /\ poll' = [p \in Poll |-> [poll[p] EXCEPT !.seen = @ \ {b}]]
  /\ UNCHANGED <<now, cursor, faults>>

\* A bill is saved, or a new one written; no two saves have the same time.
Save(b) ==
  /\ saved[b] < now
  /\ saved' = [saved EXCEPT ![b] = now]
  /\ drafts' = drafts \cup {b}
  /\ \E bad \in SUBSET ({b} \cap Unsound) : malformed' = (malformed \ {b}) \cup bad
  /\ Outdated(b)
  /\ Spread'

\* An approved bill is no draft any more.
Approve(b) ==
  /\ b \in drafts
  /\ drafts' = drafts \ {b}
  /\ malformed' = malformed \ {b}
  /\ Outdated(b)
  /\ UNCHANGED saved

Tick ==
  /\ now < MaxTime
  /\ now' = now + 1
  /\ UNCHANGED <<saved, drafts, malformed, cursor, runs, poll, faults>>

-----------------------------------------------------------------------------
(* One poll                                                                 *)

\* started_at is taken before the claim of the poll's key.
Begin(p) ==
  /\ poll[p].pc = "idle"
  /\ poll' = [poll EXCEPT ![p] = [Idle EXCEPT !.pc = "cursor", !.started = now]]
  /\ UNCHANGED <<now, saved, drafts, malformed, cursor, runs, faults>>

ReadCursor(p) ==
  /\ poll[p].pc = "cursor"
  /\ poll' = [poll EXCEPT ![p].pc = "walk", ![p].since = cursor, ![p].left = MaxPages]
  /\ UNCHANGED <<now, saved, drafts, malformed, cursor, runs, faults>>

\* A full page with something new in it: query again from just before its newest
\* bill.  Nothing new in it: more than a page shares a time, so step on.
NextQuery(p, answer, fresh) ==
  IF fresh # {}
  THEN [poll[p] EXCEPT !.since = Before(Max({saved[b] : b \in answer}), 1), !.page = 1]
  ELSE [poll[p] EXCEPT !.page = @ + 1]

LastRequest(p) == poll[p].left = 1

\* One request, and what the walk makes of its answer.
Fetch(p) ==
  LET answer == Page(poll[p].since, poll[p].page)
      fresh == answer \ poll[p].seen
      short == Cardinality(answer) < PageSize
      next == IF short THEN poll[p] ELSE NextQuery(p, answer, fresh)
  IN  /\ poll[p].pc = "walk"
      /\ poll' = [poll EXCEPT ![p] =
           [next EXCEPT !.seen = @ \cup fresh,
                        !.refused = @ \/ fresh \cap malformed # {},
                        !.last = IF fresh = {} THEN @ ELSE Max({saved[b] : b \in fresh}),
                        !.left = @ - 1,
                        !.truncated = ~short,
                        !.pc = IF short \/ LastRequest(p) THEN "commit" ELSE "walk"]]
      /\ UNCHANGED <<now, saved, drafts, malformed, cursor, runs, faults>>

\* Mutant: a complete poll moves the cursor to when it ends.
CursorFromTheEnd(p) ==
  IF ~poll[p].truncated THEN Before(now, Overlap)
  ELSE IF poll[p].last # 0 THEN Before(poll[p].last, Overlap) ELSE cursor

\* A complete poll moves the cursor to when it started, a truncated one to the
\* last bill it received, both less the overlap.
NewCursor(p) ==
  IF ~poll[p].truncated THEN Before(poll[p].started, Overlap)
  ELSE IF poll[p].last # 0 THEN Before(poll[p].last, Overlap) ELSE cursor

\* The runs and the cursor in one transaction; a version that has a run already
\* gets no second one.
Commit(p) ==
  /\ poll[p].pc = "commit"
  /\ ~poll[p].refused
  /\ runs' = runs \cup poll[p].seen
  /\ cursor' = NewCursor(p)
  /\ poll' = [poll EXCEPT ![p] = Idle]
  /\ UNCHANGED <<now, saved, drafts, malformed, faults>>

\* Mutant: the cursor is moved in a transaction of its own.
RejectAdvancing(p) ==
  /\ poll[p].pc = "commit"
  /\ poll[p].refused
  /\ cursor' = NewCursor(p)
  /\ poll' = [poll EXCEPT ![p] = Idle]
  /\ UNCHANGED <<now, saved, drafts, malformed, runs, faults>>

\* One malformed bill fails the whole poll, whoever mends it meanwhile.
Reject(p) ==
  /\ poll[p].pc = "commit"
  /\ poll[p].refused
  /\ poll' = [poll EXCEPT ![p] = Idle]
  /\ UNCHANGED <<now, saved, drafts, malformed, cursor, runs, faults>>

\* A request to Xero, the transaction or the process fails: nothing is written.
Fail(p) ==
  /\ poll[p].pc # "idle"
  /\ faults < MaxFaults
  /\ faults' = faults + 1
  /\ poll' = [poll EXCEPT ![p] = Idle]
  /\ UNCHANGED <<now, saved, drafts, malformed, cursor, runs>>

-----------------------------------------------------------------------------

Init ==
  /\ now = MaxBacklogTime
  /\ saved \in [Bill -> 0..MaxBacklogTime]
  /\ drafts = {b \in Bill : saved[b] > 0}
  /\ malformed \in SUBSET (drafts \cap Unsound)
  /\ Spread
  /\ cursor = 0
  /\ runs = {}
  /\ poll = [p \in Poll |-> Idle]
  /\ faults = 0

Proceed(p) == ReadCursor(p) \/ Fetch(p) \/ Commit(p) \/ Reject(p)

Next ==
  \/ \E b \in Bill : Save(b) \/ Approve(b)
  \/ Tick
  \/ \E p \in Poll : Begin(p) \/ Proceed(p) \/ Fail(p)

Spec == Init /\ [][Next]_vars

\* Workflow 01 polls on schedule, and a poll in flight runs on.
Fairness ==
  /\ \A p \in Poll : WF_vars(Proceed(p))
  /\ WF_vars(\E p \in Poll : Begin(p))

FairSpec == Spec /\ Fairness

-----------------------------------------------------------------------------
(* Properties                                                               *)

\* No bill is skipped: whatever people save while pages are read, and however
\* polls overlap, end early or fail, a draft without a run is one the next poll
\* asks Xero for (walk_pages, advance_cursor).
NoBillSkipped == \A b \in drafts : b \in runs \/ ModifiedSince(b, cursor)

\* Every draft gets a run, unless it is approved first, through saves, polls
\* that overlap, fail or are cut short, and once no malformed bill is left that
\* fails every poll (walk_pages, advance_cursor, run_poll).
EveryBillGetsARun ==
  \A b \in Bill : []<>(b \in drafts => b \in runs \/ malformed # {})
=============================================================================
