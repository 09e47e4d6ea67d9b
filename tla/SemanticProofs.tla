--------------------------- MODULE SemanticProofs ---------------------------
(***************************************************************************)
(* Proofs about Semantic, for any number of executions and any bounds: the   *)
(* model stage ends once, with what an attempt recorded, no card is drawn    *)
(* before, and the key does what Registry promises.                          *)
(***************************************************************************)
EXTENDS Semantic, TLAPS

OneInFlight == \A m, n \in InFlight : m = n

\* The first attempt takes the stage out of PENDING.
Fresh == stage = "PENDING" => attempts = <<>>

\* A request that will finalise has an attempt of its own, and while that one
\* has not ended the stage waits for it: an attempt started by a refused review
\* is nobody's.
Mine ==
  \A e \in Exec :
    exec[e].pc \in {"call", "finalise"} =>
      /\ exec[e].attempt \in DOMAIN attempts
      /\ attempts[exec[e].attempt] = "STARTED" => stage = "IN_PROGRESS"

Rows ==
  /\ OneInFlight
  /\ Fresh
  /\ NeverWaitsForNobody
  /\ RecommendationIsRecorded

IInv == TypeOK /\ Rows /\ Mine /\ CardIsFinal

Status == {"STARTED", "SUCCEEDED", "REJECTED"}

-----------------------------------------------------------------------------

\* One execution moves, the others stay.
LEMMA ExecUpdate ==
  ASSUME exec \in [Exec -> Execution], NEW e \in Exec, NEW x \in Execution,
         exec' = [exec EXCEPT ![e] = x]
  PROVE  /\ exec' \in [Exec -> Execution]
         /\ exec'[e] = x
         /\ \A f \in Exec : f # e => exec'[f] = exec[f]
OBVIOUS

LEMMA IdleType ==
  /\ Idle \in Execution
  /\ Idle.pc = "idle"
  /\ \A pc \in Pc : /\ [Idle EXCEPT !.pc = pc] \in Execution
                    /\ [Idle EXCEPT !.pc = pc].pc = pc
BY DEF Idle, Execution, Pc

\* A step that leaves the rows and the card alone, and gives no request an
\* attempt.
LEMMA Steady ==
  ASSUME IInv, UNCHANGED <<stage, attempts, card>>,
         NEW e \in Exec, NEW x \in Execution,
         exec' = [exec EXCEPT ![e] = x],
         x.pc \in {"call", "finalise"} =>
           exec[e].pc \in {"call", "finalise"} /\ x.attempt = exec[e].attempt,
         key' \in Key, sent' \in Nat, faults' \in Nat
  PROVE  IInv'
<1>1. /\ exec' \in [Exec -> Execution]
      /\ exec'[e] = x
      /\ \A f \in Exec : f # e => exec'[f] = exec[f]
  BY ExecUpdate DEF IInv, TypeOK
<1>2. TypeOK'
  BY <1>1 DEF IInv, TypeOK
<1>3. Mine'
  BY <1>1 DEF IInv, Mine
<1>4. Rows' /\ CardIsFinal'
  BY DEF IInv, Rows, OneInFlight, Fresh, NeverWaitsForNobody,
         RecommendationIsRecorded, CardIsFinal, InFlight, With
<1> QED
  BY <1>2, <1>3, <1>4 DEF IInv

\* The same for a step of the poll, which moves no execution.
LEMMA SteadyPoll ==
  ASSUME IInv, UNCHANGED <<stage, attempts, card, exec, key>>,
         sent' \in Nat, faults' \in Nat
  PROVE  IInv'
BY DEF IInv, TypeOK, Rows, Mine, OneInFlight, Fresh, NeverWaitsForNobody,
       RecommendationIsRecorded, CardIsFinal, InFlight, With

\* An attempt in flight ends, with a recommendation only where the stage still
\* waits for it.
LEMMA EndKeeps ==
  ASSUME IInv, NEW n \in DOMAIN attempts, attempts[n] = "STARTED",
         NEW recommended \in BOOLEAN, recommended => stage = "IN_PROGRESS",
         EndAttempt(n, recommended)
  PROVE  /\ stage' \in Stage
         /\ attempts' \in Seq(Status)
         /\ DOMAIN attempts' = DOMAIN attempts
         /\ Rows'
         /\ InFlight' = {}
         /\ stage \in Terminal => stage' = stage
<1> DEFINE s == IF recommended THEN "SUCCEEDED" ELSE "REJECTED"
<1>1. /\ attempts \in Seq(Status) /\ stage \in Stage /\ s \in Status /\ s # "STARTED"
      /\ stage # "PENDING"
  BY DEF IInv, TypeOK, Status, Rows, Fresh
<1>2. attempts' = [attempts EXCEPT ![n] = s]
  BY DEF EndAttempt
<1>3. stage' = IF stage # "IN_PROGRESS" THEN stage ELSE IF recommended THEN WithIt ELSE WithoutIt
  BY DEF EndAttempt
<1> HIDE DEF s
<1>4. /\ attempts' \in Seq(Status) /\ DOMAIN attempts' = DOMAIN attempts
      /\ attempts'[n] = s
      /\ \A m \in DOMAIN attempts : m # n => attempts'[m] = attempts[m]
  BY <1>1, <1>2
<1>5. stage' \in Terminal /\ (stage \in Terminal => stage' = stage)
  BY <1>1, <1>3 DEF Stage, Terminal, WithIt, WithoutIt
<1>6. InFlight' = {}
  <2>1. \A m \in DOMAIN attempts : attempts[m] = "STARTED" => m = n
    BY DEF IInv, Rows, OneInFlight, InFlight, With
  <2> QED
    BY <2>1, <1>1, <1>4 DEF InFlight, With
<1>7. RecommendationIsRecorded'
  <2>1. CASE recommended
    <3>1. s = "SUCCEEDED" /\ stage' = WithIt
      BY <2>1, <1>3 DEF s
    <3> QED
      BY <3>1, <1>4 DEF RecommendationIsRecorded, With
  <2>2. CASE ~recommended
    <3>1. s = "REJECTED" /\ (stage' = WithIt) = (stage = WithIt)
      BY <2>2, <1>3 DEF s, WithIt, WithoutIt
    <3>2. With("SUCCEEDED")' = With("SUCCEEDED")
      BY <3>1, <1>4 DEF With
    <3> QED
      BY <3>1, <3>2 DEF IInv, Rows, RecommendationIsRecorded
  <2> QED
    BY <2>1, <2>2
<1>8. OneInFlight' /\ Fresh' /\ NeverWaitsForNobody'
  BY <1>5, <1>6 DEF OneInFlight, Fresh, NeverWaitsForNobody, Terminal, WithIt, WithoutIt
<1>9. stage' \in Stage
  BY <1>5 DEF Stage
<1> QED
  BY <1>4, <1>5, <1>6, <1>7, <1>8, <1>9 DEF Rows

\* An attempt is recorded while none is in flight, by a review that starts or
\* by one that is refused.
LEMMA AppendKeeps ==
  ASSUME IInv, InFlight = {}, attempts' = Append(attempts, "STARTED"),
         \/ stage = "PENDING" /\ stage' = "IN_PROGRESS"
         \/ stage # "PENDING" /\ stage' = stage
  PROVE  /\ attempts' \in Seq(Status)
         /\ stage' \in Stage
         /\ Len(attempts') \in DOMAIN attempts'
         /\ \A m \in DOMAIN attempts : m \in DOMAIN attempts' /\ attempts'[m] = attempts[m]
         /\ Rows'
<1>1. attempts \in Seq(Status) /\ stage \in Stage
  BY DEF IInv, TypeOK, Status
<1>2. /\ attempts' \in Seq(Status)
      /\ Len(attempts') = Len(attempts) + 1
      /\ attempts'[Len(attempts')] = "STARTED"
      /\ DOMAIN attempts' = DOMAIN attempts \cup {Len(attempts')}
      /\ \A m \in DOMAIN attempts : m # Len(attempts') /\ attempts'[m] = attempts[m]
  BY <1>1 DEF Status
<1>3. InFlight' = {Len(attempts')}
  BY <1>2 DEF InFlight, With
<1>4. With("SUCCEEDED")' = With("SUCCEEDED")
  BY <1>2 DEF With
<1>5. (stage' = WithIt) = (stage = WithIt)
  BY DEF WithIt
<1>6. RecommendationIsRecorded'
  BY <1>4, <1>5 DEF IInv, Rows, RecommendationIsRecorded
<1>7. OneInFlight' /\ NeverWaitsForNobody' /\ Fresh'
  BY <1>3 DEF OneInFlight, NeverWaitsForNobody, Fresh
<1>8. stage' \in Stage
  BY <1>1 DEF Stage
<1> QED
  BY <1>2, <1>6, <1>7, <1>8 DEF Rows

-----------------------------------------------------------------------------
(* The steps that touch the rows                                            *)

LEMMA StartStep ==
  ASSUME IInv, NEW e \in Exec, Start(e)
  PROVE  IInv'
<1> DEFINE x == [exec[e] EXCEPT !.pc = "call", !.attempt = Len(attempts')]
<1>1. exec \in [Exec -> Execution] /\ exec[e] \in Execution
  BY DEF IInv, TypeOK
<1>2. /\ attempts' \in Seq(Status) /\ stage' \in Stage /\ Rows'
      /\ Len(attempts') \in DOMAIN attempts'
      /\ \A m \in DOMAIN attempts : m \in DOMAIN attempts' /\ attempts'[m] = attempts[m]
  BY AppendKeeps DEF Start
<1>3. x \in Execution /\ x.attempt = Len(attempts')
  <2>1. Len(attempts') \in Nat
    BY <1>2
  <2> QED
    BY <1>1, <2>1 DEF Execution, Pc
<1>4. exec' = [exec EXCEPT ![e] = x]
  BY <1>1 DEF Start
<1> HIDE DEF x
<1>5. /\ exec' \in [Exec -> Execution]
      /\ exec'[e] = x
      /\ \A f \in Exec : f # e => exec'[f] = exec[f]
  BY <1>1, <1>3, <1>4, ExecUpdate
<1>6. TypeOK'
  BY <1>2, <1>5 DEF IInv, TypeOK, Start, Status
<1>7. stage' = "IN_PROGRESS"
  BY DEF Start
<1>8. Mine'
  BY <1>2, <1>3, <1>5, <1>7 DEF IInv, Mine
<1>9. CardIsFinal'
  BY DEF IInv, TypeOK, CardIsFinal, Start, Terminal, WithIt, WithoutIt
<1> QED
  BY <1>2, <1>6, <1>8, <1>9 DEF IInv

LEMMA StageMovedStep ==
  ASSUME IInv, NEW e \in Exec, StageMoved(e)
  PROVE  IInv'
<1>1. exec \in [Exec -> Execution] /\ exec[e] \in Execution
  BY DEF IInv, TypeOK
<1>2. /\ attempts' \in Seq(Status) /\ stage' \in Stage /\ Rows'
      /\ \A m \in DOMAIN attempts : m \in DOMAIN attempts' /\ attempts'[m] = attempts[m]
  BY AppendKeeps DEF StageMoved
<1>3. PICK x \in Execution : exec' = [exec EXCEPT ![e] = x] /\ x.pc \in {"idle", "notify"}
  BY <1>1, IdleType DEF StageMoved, Answered, Pc
<1>4. /\ exec' \in [Exec -> Execution]
      /\ exec'[e] = x
      /\ \A f \in Exec : f # e => exec'[f] = exec[f]
  BY <1>1, <1>3, ExecUpdate
<1>5. key' \in Key
  BY DEF IInv, TypeOK, StageMoved, Key
<1>6. TypeOK'
  BY <1>2, <1>4, <1>5 DEF IInv, TypeOK, StageMoved, Status
<1>7. Mine'
  <2> SUFFICES ASSUME NEW f \in Exec, exec'[f].pc \in {"call", "finalise"}
               PROVE  /\ exec'[f].attempt \in DOMAIN attempts'
                      /\ attempts'[exec'[f].attempt] # "STARTED"
    BY DEF Mine
  <2>1. f # e /\ exec'[f] = exec[f]
    BY <1>3, <1>4
  <2>2. exec[f].attempt \in DOMAIN attempts
    BY <2>1 DEF IInv, Mine
  <2>3. attempts[exec[f].attempt] # "STARTED"
    BY <2>2 DEF StageMoved, InFlight, With
  <2> QED
    BY <1>2, <2>1, <2>2, <2>3
<1>8. CardIsFinal'
  BY DEF IInv, CardIsFinal, StageMoved
<1> QED
  BY <1>2, <1>6, <1>7, <1>8 DEF IInv

\* Whoever ends the attempt in flight, no request is left with one in flight.
LEMMA EndedStep ==
  ASSUME IInv, NEW n \in DOMAIN attempts, attempts[n] = "STARTED",
         NEW recommended \in BOOLEAN, recommended => stage = "IN_PROGRESS",
         EndAttempt(n, recommended), UNCHANGED <<key, card>>,
         sent' \in Nat, faults' \in Nat, exec' \in [Exec -> Execution],
         \A e \in Exec : exec'[e].pc \in {"call", "finalise"} => exec'[e] = exec[e]
  PROVE  IInv'
<1>1. /\ stage' \in Stage /\ attempts' \in Seq(Status)
      /\ DOMAIN attempts' = DOMAIN attempts
      /\ Rows' /\ InFlight' = {}
      /\ stage \in Terminal => stage' = stage
  BY EndKeeps
<1>2. TypeOK'
  BY <1>1 DEF IInv, TypeOK, Status
<1>3. Mine'
  BY <1>1 DEF IInv, Mine, InFlight, With
<1>4. CardIsFinal'
  BY <1>1 DEF IInv, TypeOK, CardIsFinal
<1> QED
  BY <1>1, <1>2, <1>3, <1>4 DEF IInv

LEMMA FinaliseStep ==
  ASSUME IInv, NEW e \in Exec, Finalise(e)
  PROVE  IInv'
<1> DEFINE x == [exec[e] EXCEPT !.pc = "complete"]
<1>1. exec \in [Exec -> Execution] /\ exec[e] \in Execution
  BY DEF IInv, TypeOK
<1>2. x \in Execution /\ x.pc = "complete"
  BY <1>1 DEF Execution, Pc
<1>3. exec' = [exec EXCEPT ![e] = x]
  BY <1>1 DEF Finalise, GoTo
<1> HIDE DEF x
<1>4. /\ exec' \in [Exec -> Execution]
      /\ exec'[e] = x
      /\ \A f \in Exec : f # e => exec'[f] = exec[f]
  BY <1>1, <1>2, <1>3, ExecUpdate
<1>5. CASE attempts[exec[e].attempt] = "STARTED"
  <2>1. exec[e].attempt \in DOMAIN attempts /\ stage = "IN_PROGRESS"
    BY <1>5 DEF IInv, Mine, Finalise
  <2>2. exec[e].result \in BOOLEAN
    BY <1>1 DEF Execution
  <2>3. \A f \in Exec : exec'[f].pc \in {"call", "finalise"} => exec'[f] = exec[f]
    BY <1>2, <1>4
  <2>4. /\ EndAttempt(exec[e].attempt, exec[e].result) /\ UNCHANGED <<key, card>>
        /\ sent' \in Nat /\ faults' \in Nat
    BY <1>5 DEF Finalise, IInv, TypeOK
  <2> QED
    BY <1>4, <1>5, <2>1, <2>2, <2>3, <2>4, EndedStep
<1>6. CASE attempts[exec[e].attempt] # "STARTED"
  <2>1. /\ UNCHANGED <<stage, attempts, card>>
        /\ key' \in Key /\ sent' \in Nat /\ faults' \in Nat
    BY <1>6 DEF Finalise, IInv, TypeOK
  <2> QED
    BY <1>2, <1>3, <2>1, Steady
<1> QED
  BY <1>5, <1>6

LEMMA AbandonStep ==
  ASSUME IInv, NEW n \in DOMAIN attempts, Abandon(n)
  PROVE  IInv'
<1>1. attempts[n] = "STARTED" /\ EndAttempt(n, FALSE) /\ UNCHANGED <<key, card, exec>>
  BY DEF Abandon
<1>2. sent' \in Nat
  BY DEF Abandon, IInv, TypeOK
<1>3. faults' \in Nat
  <2>1. Fault \/ UNCHANGED faults
    BY DEF Abandon
  <2> QED
    BY <2>1 DEF Fault, IInv, TypeOK
<1>4. exec' \in [Exec -> Execution]
  BY <1>1 DEF IInv, TypeOK
<1> QED
  BY <1>1, <1>2, <1>3, <1>4, EndedStep

LEMMA NotifyStep ==
  ASSUME IInv, NEW e \in Exec, Notify(e)
  PROVE  IInv'
<1>1. exec' \in [Exec -> Execution] /\ exec'[e].pc = "idle"
      /\ \A f \in Exec : f # e => exec'[f] = exec[f]
  BY IdleType, ExecUpdate DEF IInv, TypeOK, Notify
<1>2. card' \in Terminal \cup {"NONE"} /\ CardIsFinal'
  BY DEF IInv, TypeOK, Notify, ReadyForCard, CardIsFinal, Terminal
<1>3. TypeOK'
  BY <1>1, <1>2 DEF IInv, TypeOK, Notify
<1>4. Mine'
  BY <1>1 DEF IInv, Mine, Notify
<1>5. Rows'
  BY DEF IInv, Rows, OneInFlight, Fresh, NeverWaitsForNobody,
         RecommendationIsRecorded, InFlight, With, Notify
<1> QED
  BY <1>2, <1>3, <1>4, <1>5 DEF IInv

\* The steps of a request or a workflow that touch neither rows nor card: they
\* set the execution going elsewhere, end it, or leave it where it is.
LEMMA OtherStep ==
  ASSUME IInv, NEW e \in Exec,
         \/ Begin(e) \/ Execute(e) \/ TurnAway(e) \/ Replay(e) \/ Load(e)
         \/ SecondAttempt(e) \/ Called(e) \/ Complete(e) \/ Release(e)
         \/ Fails(e) \/ Crash(e) \/ GiveUp(e) \/ SlackRefuses(e)
  PROVE  IInv'
<1> DEFINE Moves(x) ==
      /\ exec' = [exec EXCEPT ![e] = x]
      /\ x.pc \in {"call", "finalise"} =>
           exec[e].pc \in {"call", "finalise"} /\ x.attempt = exec[e].attempt
<1>1. exec \in [Exec -> Execution] /\ exec[e] \in Execution /\ key \in Key
      /\ sent \in Nat /\ faults \in Nat
  BY DEF IInv, TypeOK
<1>2. UNCHANGED <<stage, attempts, card>>
  BY DEF Begin, Execute, TurnAway, Replay, Load, SecondAttempt, Called,
         Complete, Release, Fails, Crash, GiveUp, SlackRefuses
<1>3. key' \in Key
  BY <1>1 DEF Begin, Execute, TurnAway, Replay, Load, SecondAttempt, Called,
         Complete, Release, Fails, Crash, GiveUp, SlackRefuses, Key
<1>4. sent' \in Nat
  BY <1>1 DEF Begin, Execute, TurnAway, Replay, Load, SecondAttempt, Called,
         Complete, Release, Fails, Crash, GiveUp, SlackRefuses
<1>5. faults' \in Nat
  <2>1. Fault \/ UNCHANGED faults
    BY DEF Begin, Execute, TurnAway, Replay, Load, SecondAttempt, Called,
           Complete, Release, Fails, Crash, GiveUp, SlackRefuses
  <2> QED
    BY <1>1, <2>1 DEF Fault
<1>6. \E x \in Execution : Moves(x)
  <2>1. CASE Begin(e) \/ Execute(e) \/ Load(e) \/ SecondAttempt(e) \/ Fails(e)
    <3>1. PICK pc \in Pc \ {"call", "finalise"} :
            exec' = [exec EXCEPT ![e] = [exec[e] EXCEPT !.pc = pc]]
      BY <1>1, <2>1 DEF Begin, Execute, Load, SecondAttempt, Fails, GoTo, Pc
    <3> DEFINE x == [exec[e] EXCEPT !.pc = pc]
    <3>2. x \in Execution /\ Moves(x)
      BY <1>1, <3>1 DEF Execution
    <3> QED
      BY <3>2
  <2>2. CASE TurnAway(e) \/ Replay(e) \/ Complete(e) \/ Release(e) \/ Crash(e)
             \/ SlackRefuses(e)
    BY <1>1, <2>2, IdleType
       DEF TurnAway, Replay, Complete, Release, Crash, SlackRefuses, Answered, Pc
  <2>3. CASE Called(e)
    <3>1. PICK r \in BOOLEAN :
            exec' = [exec EXCEPT ![e] = [exec[e] EXCEPT !.pc = "finalise", !.result = r]]
      BY <1>1, <2>3 DEF Called
    <3> DEFINE x == [exec[e] EXCEPT !.pc = "finalise", !.result = r]
    <3>2. x \in Execution /\ x.attempt = exec[e].attempt
      BY <1>1 DEF Execution, Pc
    <3>3. exec[e].pc = "call"
      BY <2>3 DEF Called
    <3> QED
      BY <3>1, <3>2, <3>3
  <2>4. CASE GiveUp(e)
    <3>1. exec' = [exec EXCEPT ![e] = [exec[e] EXCEPT !.waited = FALSE]]
      BY <1>1, <2>4 DEF GiveUp
    <3> DEFINE x == [exec[e] EXCEPT !.waited = FALSE]
    <3>2. x \in Execution /\ Moves(x)
      BY <1>1, <3>1 DEF Execution
    <3> QED
      BY <3>2
  <2> QED
    BY <2>1, <2>2, <2>3, <2>4
<1> QED
  BY <1>2, <1>3, <1>4, <1>5, <1>6, Steady

LEMMA PollStep ==
  ASSUME IInv, Resend \/ SentTwice \/ NotSent
  PROVE  IInv'
<1>1. UNCHANGED <<stage, attempts, card, exec, key>>
  BY DEF Resend, SentTwice, NotSent
<1>2. sent' \in Nat /\ faults' \in Nat
  BY DEF Resend, SentTwice, NotSent, Fault, IInv, TypeOK
<1> QED
  BY <1>1, <1>2, SteadyPoll

-----------------------------------------------------------------------------
(* The theorems                                                             *)

LEMMA IInvInit ==
  ASSUME Init
  PROVE  IInv
<1>1. PICK e \in Exec : exec = [[f \in Exec |-> Idle] EXCEPT ![e] = [Idle EXCEPT !.pc = "claim"]]
  BY DEF Init, Idle
<1>2. /\ exec \in [Exec -> Execution]
      /\ \A f \in Exec : exec[f].pc \in {"idle", "claim"}
  BY <1>1, IdleType DEF Pc
<1>3. TypeOK
  BY <1>2 DEF Init, TypeOK, Stage, Key
<1>4. InFlight = {} /\ With("SUCCEEDED") = {}
  BY DEF Init, InFlight, With
<1>5. Rows
  BY <1>4 DEF Init, Rows, OneInFlight, Fresh, NeverWaitsForNobody,
              RecommendationIsRecorded, WithIt
<1>6. Mine /\ CardIsFinal
  BY <1>2 DEF Init, Mine, CardIsFinal
<1> QED
  BY <1>3, <1>5, <1>6 DEF IInv

LEMMA IInvNext ==
  ASSUME IInv, [Next]_vars
  PROVE  IInv'
<1>1. CASE UNCHANGED vars
  BY <1>1, SteadyPoll DEF vars, IInv, TypeOK
<1>2. ASSUME NEW e \in Exec,
             Begin(e) \/ Proceed(e) \/ Fails(e) \/ Crash(e) \/ GiveUp(e) \/ SlackRefuses(e)
      PROVE  IInv'
  BY <1>2, StartStep, StageMovedStep, FinaliseStep, NotifyStep, OtherStep DEF Proceed, Review
<1>3. ASSUME NEW n \in DOMAIN attempts, Abandon(n)
      PROVE  IInv'
  BY <1>3, AbandonStep
<1>4. CASE Resend \/ SentTwice \/ NotSent
  BY <1>4, PollStep
<1> QED
  BY <1>1, <1>2, <1>3, <1>4 DEF Next

LEMMA Invariance == Spec => []IInv
<1>1. Init => IInv
  BY IInvInit
<1>2. IInv /\ [Next]_vars => IInv'
  BY IInvNext
<1> QED
  BY <1>1, <1>2, PTL DEF Spec

\* Every value stays in its type: no status of the code's tables is left.
THEOREM TypeCorrect == Spec => []TypeOK
<1>1. IInv => TypeOK
  BY DEF IInv
<1> QED
  BY <1>1, Invariance, PTL

\* A run at IN_PROGRESS has an attempt the poll can end, whatever crashes.
THEOREM NeverStranded == Spec => []NeverWaitsForNobody
<1>1. IInv => NeverWaitsForNobody
  BY DEF IInv, Rows
<1> QED
  BY <1>1, Invariance, PTL

\* The stage reports a recommendation exactly when one is recorded (I06).
THEOREM Recorded == Spec => []RecommendationIsRecorded
<1>1. IInv => RecommendationIsRecorded
  BY DEF IInv, Rows
<1> QED
  BY <1>1, Invariance, PTL

\* A card is drawn from a stage that changes no more (I31).
THEOREM CardDrawnOnce == Spec => []CardIsFinal
<1>1. IInv => CardIsFinal
  BY DEF IInv
<1> QED
  BY <1>1, Invariance, PTL

\* How a step may move the attempts and the stage: it leaves them alone, starts
\* an attempt, or ends the one in flight.
LEMMA RowStep ==
  ASSUME IInv, [Next]_vars
  PROVE  \/ UNCHANGED <<stage, attempts>>
         \/ /\ attempts' = Append(attempts, "STARTED")
            /\ stage \in Terminal => stage' = stage
         \/ \E n \in DOMAIN attempts, recommended \in BOOLEAN :
              /\ attempts[n] = "STARTED"
              /\ recommended => stage = "IN_PROGRESS"
              /\ EndAttempt(n, recommended)
<1>1. CASE UNCHANGED vars
  BY <1>1 DEF vars
<1>2. ASSUME NEW e \in Exec,
             \/ Begin(e) \/ Execute(e) \/ TurnAway(e) \/ Replay(e) \/ Load(e)
             \/ SecondAttempt(e) \/ Called(e) \/ Complete(e) \/ Release(e)
             \/ Fails(e) \/ Crash(e) \/ GiveUp(e) \/ SlackRefuses(e) \/ Notify(e)
      PROVE  UNCHANGED <<stage, attempts>>
  BY <1>2 DEF Begin, Execute, TurnAway, Replay, Load, SecondAttempt, Called,
              Complete, Release, Fails, Crash, GiveUp, SlackRefuses, Notify
<1>3. ASSUME NEW e \in Exec, Start(e) \/ StageMoved(e)
      PROVE  /\ attempts' = Append(attempts, "STARTED")
             /\ stage \in Terminal => stage' = stage
  BY <1>3 DEF Start, StageMoved, Terminal, WithIt, WithoutIt
<1>4. ASSUME NEW e \in Exec, Finalise(e), ~UNCHANGED <<stage, attempts>>
      PROVE  \E n \in DOMAIN attempts, recommended \in BOOLEAN :
               /\ attempts[n] = "STARTED"
               /\ recommended => stage = "IN_PROGRESS"
               /\ EndAttempt(n, recommended)
  <2>1. /\ exec[e].attempt \in DOMAIN attempts
        /\ attempts[exec[e].attempt] = "STARTED"
        /\ stage = "IN_PROGRESS"
        /\ EndAttempt(exec[e].attempt, exec[e].result)
    BY <1>4 DEF Finalise, IInv, Mine
  <2>2. exec[e].result \in BOOLEAN
    BY DEF IInv, TypeOK, Execution
  <2> QED
    BY <2>1, <2>2
<1>5. ASSUME NEW n \in DOMAIN attempts, Abandon(n)
      PROVE  attempts[n] = "STARTED" /\ EndAttempt(n, FALSE)
  BY <1>5 DEF Abandon
<1>6. CASE Resend \/ SentTwice \/ NotSent
  BY <1>6 DEF Resend, SentTwice, NotSent
<1> QED
  BY <1>1, <1>2, <1>3, <1>4, <1>5, <1>6 DEF Next, Proceed, Review

\* The model stage ends once, whatever arrives late (I32).
THEOREM EndsOnce == Spec => StageEndsOnce
<1>1. IInv /\ [Next]_vars => [(stage \in Terminal) => stage' = stage]_vars
  <2> SUFFICES ASSUME IInv, [Next]_vars, stage \in Terminal
               PROVE  stage' = stage
    OBVIOUS
  <2> QED
    BY RowStep, EndKeeps
<1> QED
  BY <1>1, Invariance, PTL DEF Spec, StageEndsOnce

\* An attempt makes exactly one transition.
THEOREM AttemptEnds == Spec => AttemptEndsOnce
<1> DEFINE Ended == \A n \in DOMAIN attempts :
             attempts[n] # "STARTED" => n \in DOMAIN attempts' /\ attempts'[n] = attempts[n]
<1>1. IInv /\ [Next]_vars => [Ended]_vars
  <2> SUFFICES ASSUME IInv, [Next]_vars, NEW n \in DOMAIN attempts, attempts[n] # "STARTED"
               PROVE  n \in DOMAIN attempts' /\ attempts'[n] = attempts[n]
    OBVIOUS
  <2>1. attempts \in Seq(Status)
    BY DEF IInv, TypeOK, Status
  <2>2. CASE UNCHANGED <<stage, attempts>>
    BY <2>2
  <2>3. CASE attempts' = Append(attempts, "STARTED")
    BY <2>1, <2>3 DEF Status
  <2>4. ASSUME NEW m \in DOMAIN attempts, NEW recommended \in BOOLEAN,
               attempts[m] = "STARTED", EndAttempt(m, recommended)
        PROVE  n \in DOMAIN attempts' /\ attempts'[n] = attempts[n]
    BY <2>1, <2>4 DEF EndAttempt
  <2> QED
    BY <2>2, <2>3, <2>4, RowStep
<1> QED
  BY <1>1, Invariance, PTL DEF Spec, AttemptEndsOnce

-----------------------------------------------------------------------------
(* The key does what the registry promises                                  *)

\* Who executes under the key's claim executes a claim in progress.
KeyInv == \A e \in Exec : Executing(e) /\ key.holder = e => key.status = "HELD"

\* What TheKey takes for its variables.
Holder == {e \in Exec : Executing(e) /\ key.holder = e}
Displaced == {e \in Exec : Executing(e) /\ key.holder # e}

\* An execution moves without the key being told: at most it goes away.
LEMMA Unnoticed ==
  ASSUME KeyInv, NEW e \in Exec, \A f \in Exec \ {e} : exec'[f] = exec[f],
         UNCHANGED key, Executing(e)' => Executing(e)
  PROVE  [TheKey!Next]_(TheKey!vars) /\ KeyInv'
<1>1. \A f \in Exec \ {e} :
        (f \in Holder' <=> f \in Holder) /\ (f \in Displaced' <=> f \in Displaced)
  BY DEF Holder, Displaced, Executing
<1>2. /\ Holder \subseteq Exec /\ Holder' \subseteq Exec
      /\ Displaced \subseteq Exec /\ Displaced' \subseteq Exec
  BY DEF Holder, Displaced
<1>3. KeyInv'
  BY DEF KeyInv, Executing
<1>4. [TheKey!Next]_(TheKey!vars)
  <2>1. CASE Executing(e)' <=> Executing(e)
    <3>1. (e \in Holder' <=> e \in Holder) /\ (e \in Displaced' <=> e \in Displaced)
      BY <2>1 DEF Holder, Displaced
    <3>2. Holder' = Holder /\ Displaced' = Displaced
      BY <1>1, <1>2, <3>1
    <3> QED
      BY <3>2 DEF TheKey!vars, Holder, Displaced
  <2>2. CASE Executing(e) /\ ~Executing(e)'
    <3>1. Holder' = Holder \ {e} /\ Displaced' = Displaced \ {e}
      BY <1>1, <1>2, <2>2 DEF Holder, Displaced
    <3>2. CASE key.holder = e
      <4>1. Holder = {e} /\ e \notin Displaced
        BY <2>2, <3>2 DEF Holder, Displaced
      <4>2. TheKey!Vanish(e)
        BY <3>1, <4>1 DEF TheKey!Vanish, Holder, Displaced
      <4> QED
        BY <4>2 DEF TheKey!Next
    <3>3. CASE key.holder # e
      <4>1. e \notin Holder
        BY <3>3 DEF Holder
      <4>2. TheKey!EndUnheard(e)
        BY <3>1, <4>1 DEF TheKey!EndUnheard, Holder, Displaced
      <4> QED
        BY <4>2 DEF TheKey!Next
    <3> QED
      BY <3>2, <3>3
  <2> QED
    BY <2>1, <2>2
<1> QED
  BY <1>3, <1>4

\* An execution takes the key.
LEMMA ExecuteClaims ==
  ASSUME TypeOK, KeyInv, NEW e \in Exec, Execute(e)
  PROVE  [TheKey!Next]_(TheKey!vars) /\ KeyInv'
<1>1. /\ key' = [status |-> "HELD", holder |-> e]
      /\ key.status \in {"FREE", "HELD"}
      /\ ~Executing(e) /\ Executing(e)'
      /\ \A f \in Exec \ {e} : exec'[f] = exec[f]
  BY DEF Execute, GoTo, Executing, TypeOK, Key, Execution
<1>2. Holder' = {e} /\ Displaced' = Displaced \cup Holder /\ e \notin Holder \cup Displaced
  BY <1>1 DEF Holder, Displaced, Executing
<1>3. TheKey!Claim(e)
  BY <1>1, <1>2 DEF TheKey!Claim, Holder, Displaced
<1> QED
  BY <1>1, <1>3 DEF TheKey!Next, KeyInv

\* An execution ends, and the key is told if it is the holder's.
LEMMA EndRecords ==
  ASSUME TypeOK, KeyInv, NEW e \in Exec, Executing(e), ~Executing(e)',
         \A f \in Exec \ {e} : exec'[f] = exec[f],
         key.holder = e => key'.status \in {"DONE", "FREE"} /\ key'.holder \in {e, Nobody},
         key.holder # e => key' = key
  PROVE  [TheKey!Next]_(TheKey!vars) /\ KeyInv'
<1>1. CASE key.holder # e
  BY <1>1, Unnoticed
<1>2. CASE key.holder = e
  <2>1. Holder = {e} /\ Holder' = {}
    BY <1>2, SemanticAssumption DEF Holder, Executing, Nobody
  <2>2. Displaced' = Displaced
    BY <1>2, SemanticAssumption DEF Displaced, Executing, Nobody
  <2>3. TheKey!Record(e)
    BY <1>2, <2>1, <2>2 DEF TheKey!Record, Holder, Displaced
  <2>4. KeyInv'
    BY <1>2, SemanticAssumption DEF KeyInv, Executing, Nobody
  <2> QED
    BY <2>3, <2>4 DEF TheKey!Next
<1> QED
  BY <1>1, <1>2

LEMMA KeyStep ==
  ASSUME TypeOK, KeyInv, [Next]_vars
  PROVE  [TheKey!Next]_(TheKey!vars) /\ KeyInv'
<1>1. ASSUME NEW e \in Exec,
             \/ Begin(e) \/ TurnAway(e) \/ Replay(e) \/ Load(e) \/ Start(e)
             \/ SecondAttempt(e) \/ Called(e) \/ Finalise(e) \/ Fails(e) \/ Crash(e)
             \/ GiveUp(e) \/ SlackRefuses(e) \/ Notify(e)
      PROVE  [TheKey!Next]_(TheKey!vars) /\ KeyInv'
  <2>1. UNCHANGED key /\ \A f \in Exec \ {e} : exec'[f] = exec[f]
    BY <1>1 DEF Begin, TurnAway, Replay, Load, Start, SecondAttempt, Called, Finalise,
                Fails, Crash, GiveUp, SlackRefuses, Notify, GoTo, Answered, TypeOK
  <2>2. Executing(e)' => Executing(e)
    BY <1>1 DEF Begin, TurnAway, Replay, Load, Start, SecondAttempt, Called, Finalise,
                Fails, Crash, GiveUp, SlackRefuses, Notify, GoTo, Answered, TypeOK,
                Executing, Idle, Execution
  <2> QED
    BY <2>1, <2>2, Unnoticed
<1>2. ASSUME NEW e \in Exec, StageMoved(e) \/ Complete(e) \/ Release(e)
      PROVE  [TheKey!Next]_(TheKey!vars) /\ KeyInv'
  <2>1. Executing(e) /\ \A f \in Exec \ {e} : exec'[f] = exec[f]
    BY <1>2 DEF StageMoved, Complete, Release, Answered, TypeOK, Executing
  <2>2. ~Executing(e)'
    BY <1>2 DEF StageMoved, Complete, Release, Answered, TypeOK, Executing, Idle, Execution
  <2>3. /\ key.holder = e => key'.status \in {"DONE", "FREE"} /\ key'.holder \in {e, Nobody}
        /\ key.holder # e => key' = key
    BY <1>2 DEF StageMoved, Complete, Release, TypeOK, Key
  <2> QED
    BY <2>1, <2>2, <2>3, EndRecords
<1>3. CASE UNCHANGED <<exec, key>>
  BY <1>3 DEF TheKey!vars, KeyInv, Executing
<1>4. ASSUME NEW n \in DOMAIN attempts, Abandon(n) PROVE UNCHANGED <<exec, key>>
  BY <1>4 DEF Abandon
<1>5. ASSUME Resend \/ SentTwice \/ NotSent \/ UNCHANGED vars PROVE UNCHANGED <<exec, key>>
  BY <1>5 DEF Resend, SentTwice, NotSent, vars
<1> QED
  BY <1>1, <1>2, <1>3, <1>4, <1>5, ExecuteClaims DEF Next, Proceed, Review

\* Of executions of workflow 02 that overlap, one at a time executes
\* semantic-review under the key, and only that one ends it (claim, complete).
THEOREM Fencing == Spec => KeyIsFenced
<1>1. Init => TheKey!Init /\ KeyInv
  <2> SUFFICES ASSUME Init PROVE TheKey!Init /\ KeyInv
    OBVIOUS
  <2>1. \A e \in Exec : ~Executing(e)
    BY DEF Init, Executing, Idle
  <2> QED
    BY <2>1 DEF Init, TheKey!Init, KeyInv
<1>2. IInv => TypeOK
  BY DEF IInv
<1>3. TypeOK /\ KeyInv /\ [Next]_vars => [TheKey!Next]_(TheKey!vars) /\ KeyInv'
  BY KeyStep
<1> QED
  BY <1>1, <1>2, <1>3, Invariance, PTL DEF Spec, KeyIsFenced, TheKey!Spec
=============================================================================
