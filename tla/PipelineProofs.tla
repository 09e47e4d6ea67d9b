--------------------------- MODULE PipelineProofs ---------------------------
(***************************************************************************)
(* That nothing is stranded in silence, that updated_at orders the runs in   *)
(* time and that no run goes back, for any number of runs, executions and    *)
(* faults, and any limit.                                                    *)
(***************************************************************************)
EXTENDS Pipeline, TLAPS

-----------------------------------------------------------------------------
(* The inductive invariant                                                   *)

\* What the executions and the runs are; the order of the runs has no part in it.
TypesInv ==
  /\ run \in [Run -> Status]
  /\ poll \in [Execution -> {"none", "asked", "answered"}]
  /\ pc \in [Execution -> Pc]
  /\ todo \in [Execution -> SUBSET Run]
  /\ current \in [Execution -> Run \cup {Nobody}]
  /\ heard \subseteq Run

\* The order of the runs is one of runs.
OrderTypes ==
  /\ earlier \in [Run -> SUBSET Ingested]
  /\ old \subseteq Ingested
  /\ broken \subseteq Run
  /\ faults \in Nat

\* A list that is put in place of another finds it empty.
ListInv ==
  \A e \in Execution :
    /\ pc[e] = "idle" => todo[e] = {}
    /\ poll[e] = "asked" => todo[e] = {}
    /\ poll[e] = "asked" => pc[e] \in {"idle", "poll"}
    /\ poll[e] = "answered" => pc[e] = "poll"
    /\ pc[e] = "poll" => poll[e] # "none"

\* How far a run is that a card was asked for.
AtCard == {"ready", "claimed", "carded", "closed"}

\* A run gets on to a call of workflow 02 only when the one before has moved it.
StageInv ==
  \A e \in Execution :
    /\ pc[e] \in {"semantic", "answer", "notify"} => current[e] \in Run
    /\ pc[e] = "semantic" => run[current[e]] \notin {"draft", "ingested"}
    /\ pc[e] = "answer" => run[current[e]] \notin {"draft", "ingested", "pending"}
    /\ pc[e] = "notify" => run[current[e]] \in AtCard

\* Only runs are in a list.
FilledInv == \A e \in Execution : \A r \in todo[e] : run[r] # "draft"

IInv ==
  /\ TypesInv
  /\ ListInv
  /\ FilledInv
  /\ StageInv
  /\ StrandedIsHeard

-----------------------------------------------------------------------------
(* The ends of workflow 02                                                   *)

\* What leaves a list of runs to do.
Left(e, S) == \A f \in Execution : todo'[f] = IF f = e THEN todo[f] \ S ELSE todo[f]

LEMMA EndingLeaves ==
  ASSUME TypesInv, NEW e \in Execution, NEW r \in Run, EndsFor(e, r)
  PROVE  /\ Left(e, {r})
         /\ todo' \in [Execution -> SUBSET Run]
         /\ pc' \in [Execution -> Pc]
         /\ current' \in [Execution -> Run \cup {Nobody}]
         /\ \A f \in Execution : f # e => pc'[f] = pc[f] /\ current'[f] = current[f]
         /\ pc'[e] = IF todo[e] \subseteq {r} THEN "idle" ELSE "next"
  BY DEF EndsFor, Left, TypesInv, Pc

\* Where other executions are stays true of a run that is reconciled meanwhile, or
\* that somebody else asks a card for.
LEMMA StagesStay ==
  ASSUME IInv, NEW e \in Execution, pc'[e] \in {"idle", "next"},
         \A f \in Execution : f # e => pc'[f] = pc[f] /\ current'[f] = current[f],
         \A q \in Run : run'[q] = run[q] \/ run[q] = "ingested" \/ run'[q] \in AtCard
  PROVE  StageInv'
<1>1. ASSUME NEW f \in Execution, f # e, pc[f] \in {"semantic", "answer", "notify"}
      PROVE  /\ current[f] \in Run /\ run[current[f]] # "ingested"
             /\ run'[current[f]] = run[current[f]] \/ run'[current[f]] \in AtCard
  BY <1>1 DEF IInv, StageInv, AtCard
<1> QED
  BY <1>1 DEF IInv, StageInv, AtCard

LEMMA FilledStays ==
  ASSUME TypesInv, FilledInv, NEW e \in Execution, NEW r \in Run, Left(e, {r}),
         \A q \in Run : run[q] # "draft" => run'[q] # "draft"
  PROVE  FilledInv'
<1>1. \A f \in Execution : todo'[f] \subseteq todo[f] /\ todo[f] \subseteq Run
  BY DEF Left, TypesInv
<1> QED
  BY <1>1 DEF FilledInv

\* A list that ends keeps ListInv.
LEMMA EndingKeepsLists ==
  ASSUME TypesInv, ListInv, NEW e \in Execution, NEW r \in Run,
         EndsFor(e, r), poll' = poll, pc[e] \notin {"idle", "poll"}
  PROVE  ListInv'
<1>1. \A f \in Execution : f # e => pc'[f] = pc[f] /\ todo'[f] = todo[f]
  BY EndingLeaves DEF Left
<1>2. /\ todo'[e] = todo[e] \ {r}
      /\ pc'[e] = IF todo[e] \subseteq {r} THEN "idle" ELSE "next"
  BY EndingLeaves DEF Left
<1>3. poll[e] \notin {"asked", "answered"}
  BY DEF ListInv
<1> QED
  BY <1>1, <1>2, <1>3 DEF ListInv

\* What is still carried.
LEMMA OthersAreCarried ==
  ASSUME NEW e \in Execution, NEW r \in Run, Left(e, {r}), NEW q \in Run, q # r, Carried(q)
  PROVE  Carried(q)'
  BY DEF Left, Carried

\* A step after which 02 ends for a run that is past waiting, or was told of.
LEMMA EndingStrandsNobody ==
  ASSUME TypesInv, StrandedIsHeard, NEW e \in Execution, NEW r \in Run, Left(e, {r}),
         \A q \in Run \ {r} : run'[q] = run[q],
         heard \subseteq heard',
         run'[r] \in {"ingested", "pending"} => r \in heard'
  PROVE  StrandedIsHeard'
<1> SUFFICES ASSUME NEW q \in Run, run'[q] \in {"ingested", "pending"}, ~Carried(q)'
             PROVE  q \in heard'
  BY DEF StrandedIsHeard
<1>1. CASE q = r
  BY <1>1
<1>2. CASE q # r
  <2>1. ~Carried(q)
    BY <1>2, OthersAreCarried
  <2> QED
    BY <1>2, <2>1 DEF StrandedIsHeard
<1> QED
  BY <1>1, <1>2

\* A step that leaves every list alone.
LEMMA SameLists ==
  ASSUME TypesInv, StrandedIsHeard, todo' = todo, heard' = heard,
         \A q \in Run : run'[q] \in {"ingested", "pending"} =>
           run[q] \in {"ingested", "pending"} \/ Carried(q)
  PROVE  StrandedIsHeard'
<1>1. \A q \in Run : Carried(q)' <=> Carried(q)
  BY DEF Carried
<1> QED
  BY <1>1 DEF StrandedIsHeard

\* What reconcile makes of a run.
LEMMA Deciding ==
  ASSUME TypesInv, NEW r \in Run, Decided(r)
  PROVE  /\ run' \in [Run -> Status]
         /\ run'[r] \in {"closed", "pending", "ready"}
         /\ \A q \in Run \ {r} : run'[q] = run[q]
  BY DEF Decided, TypesInv, Status

-----------------------------------------------------------------------------
(* Every step keeps the invariant                                            *)

LEMMA InitInv == Init => IInv
  BY DEF Init, IInv, TypesInv, ListInv, FilledInv, StageInv, StrandedIsHeard, Status, Pc

LEMMA ScheduleKeeps ==
  ASSUME IInv, NEW e \in Execution, Schedule(e)
  PROVE  IInv'
<1>1. TypesInv' /\ ListInv' /\ FilledInv' /\ StageInv'
  BY DEF Schedule, IInv, TypesInv, ListInv, FilledInv, StageInv, Pc
<1>2. StrandedIsHeard'
  BY SameLists DEF Schedule, IInv
<1> QED
  BY <1>1, <1>2 DEF IInv

\* The poll's transaction: a new run is in a list, or told of.
LEMMA PollKeeps ==
  ASSUME IInv, OrderTypes, NEW e \in Execution, Poll(e)
  PROVE  IInv'
<1>1. PICK new \in SUBSET (Run \ Ingested), cases \in SUBSET Awaiting :
        /\ run' = [r \in Run |-> IF r \in new THEN "ingested"
                                 ELSE IF r \in Recovered THEN "ready" ELSE run[r]]
        /\ IF pc[e] = "poll"
           THEN /\ poll' = [poll EXCEPT ![e] = "answered"]
                /\ todo' = [todo EXCEPT ![e] = Recovered \cup cases \cup new]
                /\ UNCHANGED heard
           ELSE /\ poll' = [poll EXCEPT ![e] = "none"]
                /\ heard' = heard \cup (Recovered \cup cases \cup new)
                /\ UNCHANGED todo
  BY DEF Poll
<1>2. poll[e] = "asked" /\ UNCHANGED <<pc, current>>
  BY DEF Poll
<1>3. Recovered \subseteq Run /\ cases \subseteq {r \in Run : run[r] = "ready"}
  BY DEF Recovered, Awaiting, OrderTypes, Ingested
<1>4. \A q \in Run : run[q] # "draft" => run'[q] \in {run[q], "ready"} /\ q \notin new
  BY <1>1 DEF Ingested
<1>5. \A q \in Run : run[q] # "stale" /\ q \notin new => run'[q] = run[q]
  BY <1>1 DEF Recovered
<1>6. \A q \in Run : run'[q] \in {"ingested", "pending"} => q \in new \/ run[q] = run'[q]
  BY <1>1
<1>7. run' \in [Run -> Status]
  BY <1>1 DEF IInv, TypesInv, Status
<1>8. CASE pc[e] = "poll"
  <2>1. /\ poll' = [poll EXCEPT ![e] = "answered"]
        /\ todo' = [todo EXCEPT ![e] = Recovered \cup cases \cup new]
        /\ UNCHANGED heard
    BY <1>1, <1>8
  <2>2. TypesInv' /\ ListInv'
    BY <1>2, <1>3, <1>7, <1>8, <2>1 DEF IInv, TypesInv, ListInv
  <2>3. StageInv' /\ FilledInv'
    <3>1. \A q \in cases : q \in Run /\ run'[q] # "draft"
      BY <1>3, <1>4
    <3>2. \A q \in Recovered \cup new : q \in Run /\ run'[q] # "draft"
      BY <1>1 DEF Recovered
    <3>3. FilledInv'
      BY <1>4, <2>1, <3>1, <3>2 DEF IInv, TypesInv, FilledInv
    <3>4. StageInv'
      BY <1>2, <1>4, <1>5 DEF IInv, StageInv, AtCard
    <3> QED
      BY <3>3, <3>4
  <2>4. todo[e] = {}
    BY <1>2 DEF IInv, ListInv
  <2>5. \A q \in Run : (Carried(q) => Carried(q)') /\ (q \in new => Carried(q)')
    BY <2>1, <2>4 DEF IInv, TypesInv, Carried
  <2>6. StrandedIsHeard'
    BY <1>6, <2>1, <2>5 DEF IInv, StrandedIsHeard
  <2> QED
    BY <2>2, <2>3, <2>6 DEF IInv
<1>9. CASE pc[e] # "poll"
  <2>1. /\ poll' = [poll EXCEPT ![e] = "none"]
        /\ heard' = heard \cup (Recovered \cup cases \cup new)
        /\ UNCHANGED todo
    BY <1>1, <1>9
  <2>2. TypesInv' /\ ListInv'
    BY <1>2, <1>3, <1>7, <1>9, <2>1 DEF IInv, TypesInv, ListInv
  <2>3. StageInv' /\ FilledInv'
    BY <1>2, <1>4, <1>5, <2>1 DEF IInv, TypesInv, StageInv, FilledInv, AtCard
  <2>4. \A q \in Run : Carried(q) <=> Carried(q)'
    BY <2>1 DEF Carried
  <2>5. StrandedIsHeard'
    BY <1>6, <2>1, <2>4 DEF IInv, StrandedIsHeard
  <2> QED
    BY <2>2, <2>3, <2>5 DEF IInv
<1> QED
  BY <1>8, <1>9

LEMMA PollFailsKeeps ==
  ASSUME IInv, NEW e \in Execution, PollFails(e)
  PROVE  IInv'
<1>1. TypesInv' /\ ListInv' /\ FilledInv' /\ StageInv'
  BY DEF PollFails, IInv, TypesInv, ListInv, FilledInv, StageInv, Pc
<1>2. StrandedIsHeard'
  BY SameLists DEF PollFails, IInv
<1> QED
  BY <1>1, <1>2 DEF IInv

\* What was in the lost answer is told of.
LEMMA GiveUpKeeps ==
  ASSUME IInv, NEW e \in Execution, GiveUp(e)
  PROVE  IInv'
<1>1. TypesInv' /\ ListInv' /\ FilledInv' /\ StageInv'
  BY DEF GiveUp, IInv, TypesInv, ListInv, FilledInv, StageInv, Pc
<1>2. ASSUME NEW q \in Run, run'[q] \in {"ingested", "pending"}, ~Carried(q)'
      PROVE  q \in heard'
  <2>1. heard' = heard \cup todo[e] /\ run' = run
        /\ \A f \in Execution : f # e => todo'[f] = todo[f]
    BY DEF GiveUp, IInv, TypesInv
  <2>2. CASE Carried(q)
    BY <1>2, <2>1, <2>2 DEF Carried
  <2>3. CASE ~Carried(q)
    BY <1>2, <2>1, <2>3 DEF IInv, StrandedIsHeard
  <2> QED
    BY <2>2, <2>3
<1> QED
  BY <1>1, <1>2 DEF IInv, StrandedIsHeard

LEMMA SplitKeeps ==
  ASSUME IInv, NEW e \in Execution, Split(e)
  PROVE  IInv'
<1>1. TypesInv' /\ ListInv' /\ FilledInv' /\ StageInv'
  BY DEF Split, IInv, TypesInv, ListInv, FilledInv, StageInv, Pc
<1>2. StrandedIsHeard'
  BY SameLists DEF Split, IInv
<1> QED
  BY <1>1, <1>2 DEF IInv

\* The run that was reconciled is done with, or 02 goes on with it.
LEMMA ReconcileKeeps ==
  ASSUME IInv, NEW e \in Execution, NEW r \in Run, Reconcile(e, r)
  PROVE  IInv'
<1>1. /\ pc[e] = "next" /\ r \in todo[e]
      /\ IF run[r] = "ingested" THEN Decided(r) ELSE UNCHANGED <<run, earlier, old>>
      /\ UNCHANGED <<poll, heard>>
  BY DEF Reconcile
<1>2. /\ run' \in [Run -> Status]
      /\ \A q \in Run \ {r} : run'[q] = run[q]
      /\ run[r] # "ingested" => run'[r] = run[r]
      /\ run[r] = "ingested" => run'[r] \in {"closed", "pending", "ready"}
  BY <1>1, Deciding DEF IInv, TypesInv
<1>3. \/ run'[r] = "closed" /\ EndsFor(e, r)
      \/ run'[r] \in {"pending", "reviewing", "stale"} /\ GoTo(e, r, "semantic")
      \/ run'[r] \notin {"closed", "pending", "reviewing", "stale"} /\ GoTo(e, r, "notify")
  BY DEF Reconcile
<1>4. run[r] # "draft"
  BY <1>1 DEF IInv, FilledInv
<1>5. CASE run'[r] = "closed" /\ EndsFor(e, r)
  <2>1. TypesInv'
    BY <1>1, <1>2, <1>5, EndingLeaves DEF IInv, TypesInv
  <2>2. ListInv'
    BY <1>1, <1>5, EndingKeepsLists DEF IInv
  <2>3. StageInv'
    BY <1>2, <1>5, EndingLeaves, StagesStay DEF IInv
  <2>4. FilledInv'
    BY <1>2, <1>5, EndingLeaves, FilledStays DEF IInv
  <2>5. StrandedIsHeard'
    BY <1>1, <1>2, <1>5, EndingLeaves, EndingStrandsNobody DEF IInv
  <2> QED
    BY <2>1, <2>2, <2>3, <2>4, <2>5 DEF IInv
<1>6. ASSUME NEW next \in {"semantic", "notify"}, GoTo(e, r, next),
             next = "semantic" => run'[r] \in {"pending", "reviewing", "stale"},
             next = "notify" => run'[r] \notin {"closed", "pending", "reviewing", "stale"}
      PROVE  IInv'
  <2>1. /\ pc' = [pc EXCEPT ![e] = next]
        /\ current' = [current EXCEPT ![e] = r]
        /\ UNCHANGED todo
    BY <1>6 DEF GoTo
  <2>2. TypesInv'
    BY <1>1, <1>2, <2>1 DEF IInv, TypesInv, Pc
  <2>3. ListInv' /\ FilledInv'
    BY <1>1, <1>2, <1>4, <2>1 DEF IInv, TypesInv, ListInv, FilledInv
  <2>4. next = "notify" => run'[r] \in AtCard
    BY <1>2, <1>4, <1>6 DEF Status, AtCard
  <2>5. StageInv'
    BY <1>1, <1>2, <1>6, <2>1, <2>4 DEF IInv, TypesInv, StageInv, AtCard
  <2>6. \A q \in Run : run'[q] \in {"ingested", "pending"} =>
          run[q] \in {"ingested", "pending"} \/ Carried(q)
    BY <1>1, <1>2 DEF Carried
  <2>7. StrandedIsHeard'
    BY <1>1, <2>1, <2>6, SameLists DEF IInv
  <2> QED
    BY <2>2, <2>3, <2>5, <2>7 DEF IInv
<1> QED
  BY <1>3, <1>5, <1>6

\* A run 02 fails for was told of.
LEMMA FailingKeeps ==
  ASSUME IInv, NEW e \in Execution, NEW r \in Run, pc[e] \notin {"idle", "poll"},
         FailsFor(e, r), poll' = poll, run' \in [Run -> Status],
         \A q \in Run \ {r} : run'[q] = run[q],
         \/ run'[r] = run[r]
         \/ run[r] = "ingested" /\ run'[r] # "draft"
         \/ run'[r] \in AtCard
  PROVE  IInv'
<1>1. EndsFor(e, r) /\ heard' = heard \cup {r}
  BY DEF FailsFor
<1>2. TypesInv'
  BY <1>1, EndingLeaves DEF IInv, TypesInv
<1>3. ListInv'
  BY <1>1, EndingKeepsLists DEF IInv
<1>4. FilledInv'
  <2>1. \A q \in Run : run[q] # "draft" => run'[q] # "draft"
    BY DEF AtCard
  <2> QED
    BY <1>1, <2>1, EndingLeaves, FilledStays DEF IInv
<1>5. StageInv'
  BY <1>1, EndingLeaves, StagesStay DEF IInv
<1>6. StrandedIsHeard'
  BY <1>1, EndingLeaves, EndingStrandsNobody DEF IInv
<1> QED
  BY <1>2, <1>3, <1>4, <1>5, <1>6 DEF IInv

LEMMA ReconcileFailsKeeps ==
  ASSUME IInv, NEW e \in Execution, NEW r \in Run, ReconcileFails(e, r)
  PROVE  IInv'
<1>1. pc[e] = "next" /\ FailsFor(e, r) /\ poll' = poll
  BY DEF ReconcileFails
<1>2. run' = run \/ (run[r] = "ingested" /\ Decided(r))
  BY DEF ReconcileFails
<1>3. CASE run' = run
  BY <1>1, <1>3, FailingKeeps DEF IInv, TypesInv
<1>4. CASE run[r] = "ingested" /\ Decided(r)
  BY <1>1, <1>4, Deciding, FailingKeeps DEF IInv
<1> QED
  BY <1>2, <1>3, <1>4

\* 02 moves its run on and stays with it.
LEMMA GoingOnKeeps ==
  ASSUME IInv, NEW e \in Execution, NEW r \in Run, r = current[e],
         pc[e] \in {"semantic", "answer"}, NEW next \in {"answer", "notify"},
         GoTo(e, r, next), UNCHANGED <<poll, heard>>, run' \in [Run -> Status],
         \A q \in Run \ {r} : run'[q] = run[q],
         next = "answer" => run[r] = "pending" /\ run'[r] = "reviewing",
         next = "notify" => run'[r] \in AtCard,
         run'[r] = run[r] \/ run[r] \in {"pending", "reviewing", "stale"} \/ run'[r] = "ready"
  PROVE  IInv'
<1>1. /\ pc' = [pc EXCEPT ![e] = next]
      /\ current' = [current EXCEPT ![e] = r]
      /\ UNCHANGED todo
  BY DEF GoTo
<1>2. TypesInv' /\ ListInv'
  BY <1>1 DEF IInv, TypesInv, ListInv, Pc
<1>3. run'[r] \notin {"draft", "ingested", "pending"}
  BY DEF AtCard
<1>4. FilledInv' /\ StageInv'
  BY <1>1, <1>3 DEF IInv, TypesInv, FilledInv, StageInv, AtCard
<1>5. StrandedIsHeard'
  BY <1>1, <1>3, SameLists DEF IInv
<1> QED
  BY <1>2, <1>4, <1>5 DEF IInv

LEMMA ReviewKeeps ==
  ASSUME IInv, NEW e \in Execution, Review(e) \/ PastReview(e) \/ Reviewed(e)
  PROVE  IInv'
<1> DEFINE r == current[e]
<1>1. r \in Run /\ pc[e] \in {"semantic", "answer"}
  BY DEF Review, PastReview, Reviewed, IInv, StageInv
<1>2. CASE Review(e)
  BY <1>1, <1>2, GoingOnKeeps DEF Review, IInv, TypesInv, Status
<1>3. CASE PastReview(e)
  BY <1>1, <1>3, GoingOnKeeps DEF PastReview, IInv, TypesInv, AtCard
<1>4. CASE Reviewed(e)
  BY <1>1, <1>4, GoingOnKeeps DEF Reviewed, IInv, TypesInv, Status, AtCard
<1> QED
  BY <1>2, <1>3, <1>4

LEMMA CallFailsKeeps ==
  ASSUME IInv, NEW e \in Execution,
         \/ UnderReview(e) \/ Refused(e) \/ CallFails(e)
         \/ TurnedAway(e) /\ FailsFor(e, current[e])
  PROVE  IInv'
<1>1. /\ pc[e] \in {"semantic", "answer", "notify"}
      /\ FailsFor(e, current[e])
      /\ UNCHANGED <<run, poll>>
  BY DEF UnderReview, Refused, CallFails, TurnedAway
<1>2. current[e] \in Run
  BY <1>1 DEF IInv, StageInv
<1> QED
  BY <1>1, <1>2, FailingKeeps DEF IInv, TypesInv

\* A notify that dies moves its run on, and 02 fails for it.
LEMMA NotifyDiesKeeps ==
  ASSUME IInv, NEW e \in Execution, NotifyDies(e)
  PROVE  IInv'
<1> DEFINE r == current[e]
<1>1. /\ r \in Run /\ pc[e] = "notify" /\ FailsFor(e, r) /\ poll' = poll
      /\ \E s \in {"claimed", "carded"} : run' = [run EXCEPT ![r] = s]
  BY DEF NotifyDies, IInv, StageInv
<1>2. /\ run' \in [Run -> Status]
      /\ \A q \in Run \ {r} : run'[q] = run[q]
      /\ run'[r] \in AtCard
  BY <1>1 DEF IInv, TypesInv, Status, AtCard
<1> QED
  BY <1>1, <1>2, FailingKeeps

\* A card is asked for only of a run that is ready, or past that, and 02 ends well.
LEMMA NotifyKeeps ==
  ASSUME IInv, NEW e \in Execution, Notify(e) \/ (TurnedAway(e) /\ UNCHANGED heard)
  PROVE  IInv'
<1> DEFINE r == current[e]
<1>1. /\ r \in Run /\ run[r] \in AtCard
      /\ pc[e] = "notify" /\ EndsFor(e, r) /\ UNCHANGED <<poll, heard>>
  BY DEF Notify, TurnedAway, FailsFor, IInv, StageInv
<1>2. /\ run' \in [Run -> Status]
      /\ \A q \in Run \ {r} : run'[q] = run[q]
      /\ run'[r] \in AtCard
  BY <1>1 DEF Notify, TurnedAway, IInv, TypesInv, Status, AtCard
<1>3. TypesInv' /\ ListInv'
  BY <1>1, <1>2, EndingLeaves, EndingKeepsLists DEF IInv, TypesInv
<1>4. FilledInv'
  BY <1>1, <1>2, EndingLeaves, FilledStays DEF IInv, AtCard
<1>5. StageInv'
  BY <1>1, <1>2, EndingLeaves, StagesStay DEF IInv
<1>6. StrandedIsHeard'
  BY <1>1, <1>2, EndingLeaves, EndingStrandsNobody DEF IInv, AtCard
<1> QED
  BY <1>3, <1>4, <1>5, <1>6 DEF IInv

LEMMA AgeAttemptKeeps ==
  ASSUME IInv, NEW r \in Run, AgeAttempt(r) \/ EndsLate(r)
  PROVE  IInv'
<1>1. PICK s \in {"stale", "ready"} :
        /\ run[r] = "reviewing" /\ run' = [run EXCEPT ![r] = s]
        /\ UNCHANGED <<poll, pc, todo, current, heard>>
  BY DEF AgeAttempt, EndsLate
<1>2. TypesInv' /\ ListInv' /\ FilledInv' /\ StageInv'
  BY <1>1 DEF IInv, TypesInv, ListInv, FilledInv, StageInv, Status, AtCard
<1>3. StrandedIsHeard'
  BY <1>1, SameLists DEF IInv, TypesInv
<1> QED
  BY <1>2, <1>3 DEF IInv

LEMMA DecideKeeps ==
  ASSUME IInv, NEW r \in Run, Decide(r)
  PROVE  IInv'
<1>1. PICK s \in AtCard :
        /\ run[r] = "carded" /\ run' = [run EXCEPT ![r] = s]
        /\ UNCHANGED <<poll, pc, todo, current, heard>>
  BY DEF Decide, HandedOver, AtCard
<1>2. TypesInv' /\ ListInv' /\ FilledInv' /\ StageInv'
  BY <1>1 DEF IInv, TypesInv, ListInv, FilledInv, StageInv, Status, AtCard
<1>3. StrandedIsHeard'
  BY <1>1, SameLists DEF IInv, TypesInv, AtCard
<1> QED
  BY <1>2, <1>3 DEF IInv

LEMMA RecoverKeeps ==
  ASSUME IInv, NEW r \in Run, Recover(r)
  PROVE  IInv'
<1>1. CASE ReconcileByHand(r)
  <2>1. /\ run[r] = "ingested" /\ r \in heard
        /\ UNCHANGED <<poll, pc, todo, current, heard>>
    BY <1>1 DEF ReconcileByHand, LeftBehind
  <2>2. /\ run' \in [Run -> Status]
        /\ run'[r] \in {"closed", "pending", "ready"}
        /\ \A q \in Run \ {r} : run'[q] = run[q]
    BY <1>1, Deciding DEF ReconcileByHand, IInv
  <2>3. TypesInv' /\ ListInv' /\ FilledInv'
    BY <2>1, <2>2 DEF IInv, TypesInv, ListInv, FilledInv
  <2>4. StageInv'
    <3> SUFFICES ASSUME NEW f \in Execution, pc[f] \in {"semantic", "answer", "notify"}
                 PROVE  current[f] \in Run \ {r}
      BY <2>1, <2>2 DEF IInv, StageInv
    <3> QED
      BY <2>1 DEF IInv, StageInv, AtCard
  <2>5. StrandedIsHeard'
    BY <2>1, <2>2, SameLists DEF IInv
  <2> QED
    BY <2>3, <2>4, <2>5 DEF IInv
<1>2. CASE \E e \in Execution : RunAgain(e, r)
  <2>1. PICK e \in Execution : RunAgain(e, r)
    BY <1>2
  <2>2. /\ run[r] = "ingested" /\ pc[e] = "idle" /\ poll[e] = "none"
        /\ pc' = [pc EXCEPT ![e] = "next"] /\ todo' = [todo EXCEPT ![e] = {r}]
        /\ UNCHANGED <<run, poll, current, heard>>
    BY <2>1 DEF RunAgain, LeftBehind
  <2>3. TypesInv' /\ ListInv' /\ FilledInv' /\ StageInv'
    BY <2>2 DEF IInv, TypesInv, ListInv, FilledInv, StageInv, Pc
  <2>4. \A q \in Run : Carried(q) => Carried(q)'
    BY <2>2 DEF Carried, IInv, TypesInv, ListInv
  <2>5. StrandedIsHeard'
    BY <2>2, <2>4 DEF IInv, StrandedIsHeard
  <2> QED
    BY <2>3, <2>5 DEF IInv
<1>3. CASE Return(r)
  <2>1. /\ run[r] = "claimed" /\ run' = [run EXCEPT ![r] = "ready"]
        /\ UNCHANGED <<poll, pc, todo, current, heard>>
    BY <1>3 DEF Return
  <2>2. TypesInv' /\ ListInv' /\ FilledInv' /\ StageInv'
    BY <2>1 DEF IInv, TypesInv, ListInv, FilledInv, StageInv, Status, AtCard
  <2>3. StrandedIsHeard'
    BY <2>1, SameLists DEF IInv, TypesInv
  <2> QED
    BY <2>2, <2>3 DEF IInv
<1> QED
  BY <1>1, <1>2, <1>3 DEF Recover

LEMMA Unmoved ==
  ASSUME IInv, UNCHANGED <<run, poll, pc, todo, current, heard>>
  PROVE  IInv'
BY DEF IInv, TypesInv, ListInv, FilledInv, StageInv, StrandedIsHeard, Carried

LEMMA NextInv == IInv /\ OrderTypes /\ [Next]_vars => IInv'
<1> SUFFICES ASSUME IInv, OrderTypes, [Next]_vars PROVE IInv'
  OBVIOUS
<1>1. ASSUME NEW e \in Execution, Proceed(e) PROVE IInv'
  <2>1. CASE TurnedAway(e)
    BY <2>1, CallFailsKeeps, NotifyKeeps DEF TurnedAway
  <2> QED
    BY <1>1, <2>1, PollKeeps, SplitKeeps, ReconcileKeeps, ReconcileFailsKeeps, ReviewKeeps,
       CallFailsKeeps, NotifyKeeps DEF Proceed
<1>2. ASSUME NEW e \in Execution, \/ Schedule(e) \/ PollFails(e) \/ GiveUp(e)
                                 \/ CallFails(e) \/ NotifyDies(e)
      PROVE  IInv'
  BY <1>2, ScheduleKeeps, PollFailsKeeps, GiveUpKeeps, CallFailsKeeps, NotifyDiesKeeps
<1>3. ASSUME NEW r \in Run, AgeAttempt(r) \/ EndsLate(r) \/ Decide(r) \/ Recover(r)
      PROVE  IInv'
  BY <1>3, AgeAttemptKeeps, DecideKeeps, RecoverKeeps
<1>4. CASE Age \/ UNCHANGED vars
  BY <1>4, Unmoved DEF Age, vars
<1> QED
  BY <1>1, <1>2, <1>3, <1>4 DEF Next

-----------------------------------------------------------------------------
(* The order of the runs                                                     *)

OrderInv == OrderTypes /\ TimeOrder

LEMMA InitOrder == Init => OrderInv
  BY PipelineAssumption DEF Init, OrderInv, OrderTypes, TimeOrder, Ingested

\* Nothing makes a run a bill again.
LEMMA RunsStay ==
  ASSUME IInv, [Next]_vars
  PROVE  Ingested \subseteq Ingested'
<1> SUFFICES ASSUME NEW q \in Run, run[q] # "draft" PROVE run'[q] # "draft"
  BY DEF Ingested
<1>1. ASSUME NEW r \in Run, Decided(r) PROVE run'[q] # "draft"
  BY <1>1, Deciding DEF IInv
<1>2. ASSUME NEW e \in Execution, Poll(e) PROVE run'[q] # "draft"
  BY <1>2 DEF Poll
<1>3. ASSUME NEW e \in Execution, Proceed(e) PROVE run'[q] # "draft"
  <2>1. ASSUME NEW r \in Run, Reconcile(e, r) \/ ReconcileFails(e, r)
        PROVE  run'[q] # "draft"
    BY <1>1, <2>1 DEF Reconcile, ReconcileFails
  <2>2. ASSUME Review(e) \/ Reviewed(e) \/ Notify(e) PROVE run'[q] # "draft"
    BY <2>2 DEF Review, Reviewed, Notify, IInv, TypesInv
  <2> QED
    BY <1>2, <1>3, <2>1, <2>2 DEF Proceed, Split, PastReview, UnderReview, Refused, TurnedAway
<1>4. ASSUME NEW r \in Run, AgeAttempt(r) \/ EndsLate(r) \/ Decide(r) \/ Return(r)
      PROVE  run'[q] # "draft"
  BY <1>4 DEF AgeAttempt, EndsLate, Decide, HandedOver, Return, IInv, TypesInv
<1>5. ASSUME NEW r \in Run, Recover(r) PROVE run'[q] # "draft"
  BY <1>1, <1>4, <1>5 DEF Recover, ReconcileByHand, RunAgain
<1>6. CASE Age \/ UNCHANGED vars
  BY <1>6 DEF Age, vars
<1>7. ASSUME NEW e \in Execution, \/ Schedule(e) \/ PollFails(e) \/ GiveUp(e)
                                 \/ CallFails(e) \/ NotifyDies(e)
      PROVE  run'[q] # "draft"
  BY <1>7 DEF Schedule, PollFails, GiveUp, CallFails, NotifyDies, IInv, TypesInv
<1> QED
  BY <1>3, <1>4, <1>5, <1>6, <1>7 DEF Next

\* Every step writes to some runs, the new ones among them, or to none, or lets
\* time pass.
LEMMA Writes ==
  ASSUME IInv, OrderTypes, [Next]_vars
  PROVE  \/ UNCHANGED <<earlier, old>> /\ Ingested' = Ingested
         \/ \E S \in SUBSET Ingested' : Touch(S) /\ Ingested' \subseteq Ingested \cup S
         \/ Age
<1> DEFINE W ==
      \/ UNCHANGED <<earlier, old>> /\ Ingested' = Ingested
      \/ \E S \in SUBSET Ingested' : Touch(S) /\ Ingested' \subseteq Ingested \cup S
<1>1. ASSUME NEW r \in Run, run[r] = "ingested", Decided(r) PROVE W
  <2>1. {r} \subseteq Ingested' /\ Ingested' \subseteq Ingested
    BY <1>1, Deciding DEF IInv, Ingested
  <2> QED
    BY <1>1, <2>1 DEF Decided
<1>2. ASSUME NEW e \in Execution, Poll(e) PROVE W
  <2>1. PICK new \in SUBSET (Run \ Ingested) :
          /\ run' = [r \in Run |-> IF r \in new THEN "ingested"
                                   ELSE IF r \in Recovered THEN "ready" ELSE run[r]]
          /\ Touch(Recovered \cup new)
    BY <1>2 DEF Poll
  <2>2. /\ Recovered \cup new \subseteq Ingested'
        /\ Ingested' \subseteq Ingested \cup new
    BY <2>1 DEF Recovered, Ingested
  <2> QED
    BY <2>1, <2>2
<1>3. ASSUME NEW r \in Run, r \in Ingested, Touch({r}), Ingested' = Ingested PROVE W
  BY <1>3
<1>4. ASSUME NEW e \in Execution, \/ Review(e) \/ Reviewed(e) \/ Notify(e)
                                 \/ Refused(e) \/ NotifyDies(e)
      PROVE  W
  <2>1. current[e] \in Ingested
    BY <1>4 DEF Review, Reviewed, Notify, Refused, NotifyDies, IInv, StageInv, AtCard, Ingested
  <2>2. Ingested' = Ingested
    BY <1>4, <2>1 DEF Review, Reviewed, Notify, Refused, NotifyDies, IInv, TypesInv, Ingested
  <2> QED
    BY <1>3, <1>4, <2>1, <2>2 DEF Review, Reviewed, Notify, Refused, NotifyDies, Ingested
<1>5. ASSUME UNCHANGED <<run, earlier, old>> PROVE W
  BY <1>5 DEF Ingested
<1>6. ASSUME NEW e \in Execution, Proceed(e) PROVE W
  <2>1. ASSUME NEW r \in Run, Reconcile(e, r) PROVE W
    BY <1>1, <1>5, <2>1 DEF Reconcile
  <2>2. ASSUME NEW r \in Run, ReconcileFails(e, r) PROVE W
    BY <1>1, <1>5, <2>2 DEF ReconcileFails
  <2>3. ASSUME Split(e) \/ PastReview(e) \/ UnderReview(e) \/ TurnedAway(e) PROVE W
    BY <1>5, <2>3 DEF Split, PastReview, UnderReview, TurnedAway
  <2> QED
    BY <1>2, <1>4, <1>6, <2>1, <2>2, <2>3 DEF Proceed
<1>7. ASSUME NEW r \in Run, AgeAttempt(r) \/ EndsLate(r) \/ Decide(r) \/ Recover(r)
      PROVE  W
  <2>1. CASE EndsLate(r) \/ Decide(r)
    <3>1. r \in Ingested /\ Ingested' = Ingested /\ Touch({r})
      BY <2>1 DEF EndsLate, Decide, HandedOver, IInv, TypesInv, Ingested
    <3> QED
      BY <1>3, <3>1
  <2>2. CASE AgeAttempt(r) \/ Return(r)
    <3>1. Ingested' = Ingested /\ UNCHANGED <<earlier, old>>
      BY <2>2 DEF AgeAttempt, Return, IInv, TypesInv, Ingested
    <3> QED
      BY <3>1
  <2>3. CASE Recover(r)
    BY <1>1, <1>5, <2>2, <2>3 DEF Recover, ReconcileByHand, RunAgain, LeftBehind
  <2> QED
    BY <1>7, <2>1, <2>2, <2>3
<1>8. ASSUME NEW e \in Execution, Schedule(e) \/ PollFails(e) \/ GiveUp(e) \/ CallFails(e)
      PROVE  W
  BY <1>5, <1>8 DEF Schedule, PollFails, GiveUp, CallFails
<1>9. CASE UNCHANGED vars
  BY <1>5, <1>9 DEF vars
<1> QED
  BY <1>4, <1>6, <1>7, <1>8, <1>9 DEF Next

LEMMA NextTypes ==
  ASSUME IInv, OrderTypes, [Next]_vars
  PROVE  OrderTypes'
<1>1. Ingested \subseteq Ingested'
  BY RunsStay
<1>2. earlier' \in [Run -> SUBSET Ingested'] /\ old' \subseteq Ingested'
  <2>1. CASE UNCHANGED <<earlier, old>>
    BY <1>1, <2>1 DEF OrderTypes
  <2>2. ASSUME NEW S \in SUBSET Ingested', Touch(S)
        PROVE  earlier' \in [Run -> SUBSET Ingested'] /\ old' \subseteq Ingested'
    BY <1>1, <2>2 DEF Touch, OrderTypes
  <2>3. CASE Age
    BY <1>1, <2>3 DEF Age, OrderTypes
  <2> QED
    BY <2>1, <2>2, <2>3, Writes
<1>3. broken' \subseteq Run /\ faults' \in Nat
  <2>1. faults' \in {faults, faults + 1} /\ \E S \in SUBSET Run : broken' \in {broken, broken \cup S}
    BY DEF Next, Proceed, Recover, vars, Fault, Age, Schedule, Poll, Split, Reconcile,
           ReconcileFails, Review, PastReview, UnderReview, Reviewed, Notify, Refused,
           TurnedAway, PollFails, GiveUp, CallFails, NotifyDies, AgeAttempt, EndsLate, Decide,
           HandedOver, Return, ReconcileByHand, RunAgain
  <2> QED
    BY <2>1 DEF OrderTypes
<1> QED
  BY <1>2, <1>3 DEF OrderTypes

\* What is written to is as late as anything, and later than all else.
LEMMA TouchKeepsOrder ==
  ASSUME OrderInv, NEW S \in SUBSET Ingested', Ingested \subseteq Ingested',
         Ingested' \subseteq Ingested \cup S, Touch(S)
  PROVE  TimeOrder'
<1>1. \A r \in Run : earlier'[r] = (IF r \in S THEN Ingested ELSE earlier[r]) \ S
  BY DEF Touch
<1>2. old' = old \ S
  BY DEF Touch
<1>3. Ingested \subseteq Run /\ Ingested' \subseteq Run
  BY DEF Ingested
<1>4. \A r \in Run : earlier[r] \subseteq Ingested
  BY DEF OrderInv, OrderTypes
<1>5. \A q, r \in Run : q \in earlier'[r] =>
        earlier'[q] \subseteq earlier'[r] /\ r \notin earlier'[q]
  BY <1>1, <1>4 DEF OrderInv, TimeOrder
<1>6. \A q, r \in Ingested' : q \notin earlier'[r] => earlier'[r] \subseteq earlier'[q]
  BY <1>1, <1>3, <1>4 DEF OrderInv, TimeOrder
<1>7. \A r \in old' : earlier'[r] \subseteq old'
  BY <1>1, <1>2, <1>3 DEF OrderInv, OrderTypes, TimeOrder
<1> QED
  BY <1>5, <1>6, <1>7 DEF TimeOrder

LEMMA AgeKeepsOrder ==
  ASSUME OrderInv, Age
  PROVE  TimeOrder'
<1>1. /\ old' = {r \in Ingested : earlier[r] \subseteq old}
      /\ UNCHANGED <<run, earlier>>
  BY DEF Age
<1>2. old \subseteq old'
  BY <1>1 DEF OrderInv, OrderTypes, TimeOrder
<1> QED
  BY <1>1, <1>2 DEF OrderInv, TimeOrder, Ingested

LEMMA NextOrder ==
  ASSUME IInv, OrderInv, [Next]_vars
  PROVE  OrderInv'
<1>1. OrderTypes'
  BY NextTypes DEF OrderInv
<1>2. ASSUME UNCHANGED <<earlier, old>>, Ingested' = Ingested PROVE TimeOrder'
  BY <1>2 DEF OrderInv, TimeOrder
<1>3. ASSUME NEW S \in SUBSET Ingested', Touch(S), Ingested' \subseteq Ingested \cup S
      PROVE  TimeOrder'
  BY <1>3, RunsStay, TouchKeepsOrder
<1>4. ASSUME Age PROVE TimeOrder'
  BY <1>4, AgeKeepsOrder
<1>5. TimeOrder'
  BY <1>2, <1>3, <1>4, Writes DEF OrderInv
<1> QED
  BY <1>1, <1>5 DEF OrderInv

-----------------------------------------------------------------------------
(* How a run moves                                                           *)

\* Who waits for a review waits for the only one in flight.
AnswerInv ==
  \A e \in Execution : pc[e] = "answer" =>
    /\ run[current[e]] = "reviewing"
    /\ \A f \in Execution : pc[f] = "answer" /\ current[f] = current[e] => f = e

Awaited(q) == \E e \in Execution : pc[e] = "answer" /\ current[e] = q

\* Every way a run goes on, but for the end of a review that is awaited.
Onward ==
  {<<"draft", "ingested">>, <<"ingested", "closed">>, <<"ingested", "pending">>,
   <<"ingested", "ready">>, <<"pending", "reviewing">>, <<"stale", "ready">>,
   <<"ready", "carded">>, <<"ready", "claimed">>, <<"claimed", "ready">>,
   <<"carded", "closed">>, <<"carded", "ready">>, <<"carded", "claimed">>}

Moves(q) ==
  \/ run'[q] = run[q]
  \/ <<run[q], run'[q]>> \in Onward
  \/ run[q] = "reviewing" /\ run'[q] \in {"stale", "ready"} /\ ~Awaited(q)

\* No execution begins to wait for a review.
StaysAsIt ==
  \A f \in Execution : pc'[f] = "answer" => pc[f] = "answer" /\ current'[f] = current[f]

LEMMA AwaitedStay ==
  ASSUME IInv, AnswerInv, StaysAsIt, \A q \in Run : Moves(q)
  PROVE  AnswerInv'
<1> SUFFICES ASSUME NEW e \in Execution, pc'[e] = "answer"
             PROVE  /\ run'[current'[e]] = "reviewing"
                    /\ \A f \in Execution : pc'[f] = "answer" /\ current'[f] = current'[e] => f = e
  BY DEF AnswerInv
<1>1. pc[e] = "answer" /\ current'[e] = current[e] /\ current[e] \in Run
  BY DEF StaysAsIt, IInv, StageInv
<1>2. run[current[e]] = "reviewing" /\ Awaited(current[e])
  BY <1>1 DEF AnswerInv, Awaited
<1>3. run'[current[e]] = "reviewing"
  BY <1>1, <1>2 DEF Moves, Onward
<1> QED
  BY <1>1, <1>3 DEF AnswerInv, StaysAsIt

\* The awaited review ends, and nobody awaits it any more.
LEMMA ReviewedMoves ==
  ASSUME IInv, AnswerInv, NEW e \in Execution, Reviewed(e)
  PROVE  /\ AnswerInv'
         /\ \A q \in Run : Moves(q) \/ (run[q] = "reviewing" /\ run'[q] = "ready")
<1> DEFINE r == current[e]
<1>1. /\ r \in Run /\ pc[e] = "answer" /\ run[r] = "reviewing"
      /\ run' = [run EXCEPT ![r] = "ready"]
      /\ pc' = [pc EXCEPT ![e] = "notify"] /\ current' = [current EXCEPT ![e] = r]
  BY DEF Reviewed, GoTo, IInv, StageInv, AnswerInv
<1>2. \A q \in Run \ {r} : run'[q] = run[q]
  BY <1>1 DEF IInv, TypesInv
<1>3. run'[r] = "ready"
  BY <1>1 DEF IInv, TypesInv
<1>4. AnswerInv'
  <2> SUFFICES ASSUME NEW f \in Execution, pc'[f] = "answer"
               PROVE  /\ run'[current'[f]] = "reviewing"
                      /\ \A g \in Execution : pc'[g] = "answer" /\ current'[g] = current'[f] => g = f
    BY DEF AnswerInv
  <2>1. f # e /\ pc[f] = "answer" /\ current'[f] = current[f]
    BY <1>1 DEF IInv, TypesInv
  <2>2. current[f] # r /\ current[f] \in Run /\ run[current[f]] = "reviewing"
    BY <1>1, <2>1 DEF AnswerInv, IInv, StageInv
  <2>3. \A g \in Execution : pc'[g] = "answer" => pc[g] = "answer" /\ current'[g] = current[g]
    BY <1>1 DEF IInv, TypesInv
  <2> QED
    BY <1>2, <2>1, <2>2, <2>3 DEF AnswerInv
<1> QED
  BY <1>1, <1>2, <1>3, <1>4 DEF Moves

\* A review starts only for a run that has had none.
LEMMA ReviewMoves ==
  ASSUME IInv, AnswerInv, NEW e \in Execution, Review(e)
  PROVE  AnswerInv' /\ \A q \in Run : Moves(q)
<1> DEFINE r == current[e]
<1>1. /\ r \in Run /\ pc[e] = "semantic" /\ run[r] = "pending"
      /\ run' = [run EXCEPT ![r] = "reviewing"]
      /\ pc' = [pc EXCEPT ![e] = "answer"] /\ current' = [current EXCEPT ![e] = r]
  BY DEF Review, GoTo, IInv, StageInv
<1>2. run'[r] = "reviewing" /\ \A q \in Run \ {r} : run'[q] = run[q]
  BY <1>1 DEF IInv, TypesInv
<1>3. /\ pc'[e] = "answer" /\ current'[e] = r
      /\ \A f \in Execution \ {e} : pc'[f] = pc[f] /\ current'[f] = current[f]
  BY <1>1 DEF IInv, TypesInv
<1>4. \A f \in Execution \ {e} : pc[f] = "answer" => current[f] # r /\ current[f] \in Run
  BY <1>1 DEF AnswerInv, IInv, StageInv
<1>5. AnswerInv'
  BY <1>2, <1>3, <1>4 DEF AnswerInv
<1>6. \A q \in Run : Moves(q)
  BY <1>1, <1>2 DEF Moves, Onward
<1> QED
  BY <1>5, <1>6

\* Every other call of a workflow.
LEMMA EndingStays ==
  ASSUME IInv, NEW e \in Execution, NEW r \in Run, EndsFor(e, r)
  PROVE  StaysAsIt
BY EndingLeaves DEF IInv, StaysAsIt

LEMMA CallMoves ==
  ASSUME IInv, AnswerInv, NEW e \in Execution,
         \/ Proceed(e) /\ ~Review(e) /\ ~Reviewed(e)
         \/ Schedule(e) \/ PollFails(e) \/ GiveUp(e) \/ CallFails(e) \/ NotifyDies(e)
  PROVE  StaysAsIt /\ \A q \in Run : Moves(q)
<1> DEFINE M == StaysAsIt /\ \A q \in Run : Moves(q)
<1>1. ASSUME Poll(e) PROVE M
  <2>1. UNCHANGED <<pc, current>>
    BY <1>1 DEF Poll
  <2>2. \A q \in Run : Moves(q)
    BY <1>1 DEF Poll, Moves, Onward, Ingested, Recovered
  <2> QED
    BY <2>1, <2>2 DEF StaysAsIt
<1>2. ASSUME Schedule(e) \/ PollFails(e) \/ GiveUp(e) \/ Split(e) PROVE M
  BY <1>2 DEF Schedule, PollFails, GiveUp, Split, StaysAsIt, Moves, IInv, TypesInv
<1>3. ASSUME NEW r \in Run, NEW next \in {"semantic", "notify"}, GoTo(e, r, next)
      PROVE  StaysAsIt
  BY <1>3 DEF GoTo, StaysAsIt, IInv, TypesInv
<1>4. ASSUME NEW r \in Run, run[r] = "ingested", Decided(r) PROVE \A q \in Run : Moves(q)
  BY <1>4, Deciding DEF IInv, Moves, Onward
<1>5. ASSUME NEW r \in Run, Reconcile(e, r) PROVE M
  <2>1. StaysAsIt
    BY <1>3, <1>5, EndingStays DEF Reconcile
  <2>2. \A q \in Run : Moves(q)
    BY <1>4, <1>5 DEF Reconcile, Moves
  <2> QED
    BY <2>1, <2>2
<1>6. ASSUME NEW r \in Run, ReconcileFails(e, r) PROVE M
  <2>1. StaysAsIt
    BY <1>6, EndingStays DEF ReconcileFails, FailsFor
  <2>2. \A q \in Run : Moves(q)
    BY <1>4, <1>6 DEF ReconcileFails, Moves
  <2> QED
    BY <2>1, <2>2
<1>7. ASSUME PastReview(e) PROVE M
  BY <1>3, <1>7 DEF PastReview, IInv, StageInv, Moves
<1>8. ASSUME UnderReview(e) \/ Refused(e) \/ TurnedAway(e) \/ CallFails(e) PROVE M
  <2>1. /\ pc[e] \in {"semantic", "answer", "notify"}
        /\ EndsFor(e, current[e]) /\ UNCHANGED run
    BY <1>8 DEF UnderReview, Refused, TurnedAway, CallFails, FailsFor
  <2>2. current[e] \in Run
    BY <2>1 DEF IInv, StageInv
  <2> QED
    BY <2>1, <2>2, EndingStays DEF Moves
<1>9. ASSUME Notify(e) \/ NotifyDies(e) PROVE M
  <2>1. current[e] \in Run /\ EndsFor(e, current[e])
    BY <1>9 DEF Notify, NotifyDies, FailsFor, IInv, StageInv
  <2>2. \A q \in Run : Moves(q)
    BY <1>9, <2>1 DEF Notify, NotifyDies, Moves, Onward, IInv, TypesInv
  <2> QED
    BY <2>1, <2>2, EndingStays
<1> QED
  BY <1>1, <1>2, <1>5, <1>6, <1>7, <1>8, <1>9 DEF Proceed

LEMMA OtherMoves ==
  ASSUME IInv, AnswerInv,
         \/ \E r \in Run : AgeAttempt(r) \/ EndsLate(r) \/ Decide(r) \/ Recover(r)
         \/ Age \/ UNCHANGED vars
  PROVE  StaysAsIt /\ \A q \in Run : Moves(q)
<1> DEFINE M == StaysAsIt /\ \A q \in Run : Moves(q)
<1>1. ASSUME NEW r \in Run, AgeAttempt(r) \/ EndsLate(r) PROVE M
  BY <1>1 DEF AgeAttempt, EndsLate, StaysAsIt, Moves, Awaited, IInv, TypesInv
<1>2. ASSUME NEW r \in Run, Decide(r) \/ Return(r) PROVE M
  BY <1>2 DEF Decide, HandedOver, Return, StaysAsIt, Moves, Onward, IInv, TypesInv
<1>3. ASSUME NEW r \in Run, ReconcileByHand(r) PROVE M
  BY <1>3, Deciding DEF ReconcileByHand, LeftBehind, StaysAsIt, Moves, Onward, IInv
<1>4. ASSUME NEW r \in Run, NEW e \in Execution, RunAgain(e, r) PROVE M
  BY <1>4 DEF RunAgain, StaysAsIt, Moves, IInv, TypesInv
<1>5. ASSUME Age \/ UNCHANGED vars PROVE M
  BY <1>5 DEF Age, vars, StaysAsIt, Moves
<1> QED
  BY <1>1, <1>2, <1>3, <1>4, <1>5 DEF Recover

LEMMA NextMoves ==
  ASSUME IInv, AnswerInv, [Next]_vars
  PROVE  /\ AnswerInv'
         /\ \A q \in Run : Moves(q) \/ (run[q] = "reviewing" /\ run'[q] = "ready")
<1>1. CASE StaysAsIt /\ \A q \in Run : Moves(q)
  BY <1>1, AwaitedStay
<1>2. ASSUME NEW e \in Execution, Review(e) \/ Reviewed(e)
      PROVE  /\ AnswerInv'
             /\ \A q \in Run : Moves(q) \/ (run[q] = "reviewing" /\ run'[q] = "ready")
  BY <1>2, ReviewMoves, ReviewedMoves
<1> QED
  BY <1>1, <1>2, CallMoves, OtherMoves DEF Next, Proceed

LEMMA Inductive == Spec => [](IInv /\ OrderInv)
<1>1. IInv /\ OrderInv /\ [Next]_vars => (IInv /\ OrderInv)'
  BY NextInv, NextOrder DEF OrderInv
<1>2. Init => IInv /\ OrderInv
  BY InitInv, InitOrder
<1> QED
  BY <1>1, <1>2, PTL DEF Spec

-----------------------------------------------------------------------------
(* The theorems                                                              *)

\* Type correctness, and no bill that has no run has an age.
THEOREM TypeCorrect == Spec => []TypeOK
<1>1. IInv /\ OrderInv => TypeOK
  BY DEF IInv, OrderInv, TypesInv, OrderTypes, TypeOK
<1> QED
  BY Inductive, <1>1, PTL

\* What is written to together is as late, and later than all the rest, however the
\* writes follow on one another and whenever time passes (runs.updated_at): the
\* oldest cases, which a poll sends again, are the ones left alone the longest.
THEOREM LatestLast == Spec => []TimeOrder
<1>1. IInv /\ OrderInv => TimeOrder
  BY DEF OrderInv
<1> QED
  BY Inductive, <1>1, PTL

\* No run is left INGESTED or PENDING in silence, whatever calls fail and whatever
\* answers are lost (workflows 01 to 03, run_poll).
THEOREM NobodyIsStranded == Spec => []StrandedIsHeard
<1>1. IInv /\ OrderInv => StrandedIsHeard
  BY DEF IInv
<1> QED
  BY Inductive, <1>1, PTL

\* No run goes back, for any number of runs, executions and faults: an awaited
\* review is the only one in flight and is not abandoned, so that its answer finds
\* the run where it left it (start_attempt, abandon_stale_attempts).
THEOREM Forward == Spec => NeverBack
<1>1. Init => AnswerInv
  BY DEF Init, AnswerInv
<1>2. IInv /\ AnswerInv /\ [Next]_vars =>
        AnswerInv' /\ [\A r \in Run : Progress[run[r]] <= Progress[run'[r]]]_run
  <2> SUFFICES ASSUME IInv, AnswerInv, [Next]_vars
               PROVE  AnswerInv' /\ \A r \in Run : Progress[run[r]] <= Progress[run'[r]]
    OBVIOUS
  <2>1. \A s \in Status : Progress[s] \in Nat
    BY DEF Status, Progress
  <2>2. \A r \in Run : Moves(r) \/ (run[r] = "reviewing" /\ run'[r] = "ready")
                    => Progress[run[r]] <= Progress[run'[r]]
    BY <2>1 DEF Moves, Onward, Progress, IInv, TypesInv
  <2> QED
    BY <2>2, NextMoves
<1>3. IInv /\ OrderInv => IInv
  OBVIOUS
<1> QED
  BY <1>1, <1>2, <1>3, Inductive, PTL DEF Spec, NeverBack
=============================================================================
