------------------------- MODULE IdempotencyProofs --------------------------
(***************************************************************************)
(* Proofs about Idempotency, for every set of requests and bodies and every *)
(* bound: what the generation fencing of the registry buys, and that it      *)
(* makes of the registry what Registry promises.                             *)
(***************************************************************************)
EXTENDS Idempotency, TLAPS

\* A request that has read the row is for the row's body, and what it holds is
\* a generation the row has reached.
Known ==
  \A r \in Request :
    /\ request[r].pc # "idle" => row.status # "NONE" /\ request[r].hash = row.hash
    /\ Holding(r) => request[r].generation <= row.generation

IInv ==
  /\ TypeOK
  /\ Known
  /\ OneHolder
  /\ NeverDoubled
  /\ ResultIsTheHolders

-----------------------------------------------------------------------------

\* One request moves, the others stay.
LEMMA CallUpdate ==
  ASSUME request \in [Request -> Call], NEW r \in Request, NEW c \in Call,
         request' = [request EXCEPT ![r] = c]
  PROVE  /\ request' \in [Request -> Call]
         /\ request'[r] = c
         /\ \A s \in Request : s # r => request'[s] = request[s]
OBVIOUS

LEMMA CallTypes ==
  /\ Idle \in Call
  /\ Idle.pc = "idle"
  /\ \A h \in Hash, pc \in Pc :
       /\ [Idle EXCEPT !.pc = pc, !.hash = h] \in Call
       /\ [Idle EXCEPT !.pc = pc, !.hash = h].pc = pc
       /\ [Idle EXCEPT !.pc = pc, !.hash = h].hash = h
       /\ [Idle EXCEPT !.pc = pc, !.hash = h].generation = 0
BY DEF Idle, Call, Pc

\* The request given generation g keeps its body.
LEMMA Given ==
  ASSUME NEW c \in Call, NEW g \in Nat
  PROVE  /\ [c EXCEPT !.pc = "work", !.generation = g] \in Call
         /\ [c EXCEPT !.pc = "work", !.generation = g].pc = "work"
         /\ [c EXCEPT !.pc = "work", !.generation = g].generation = g
         /\ [c EXCEPT !.pc = "work", !.generation = g].hash = c.hash
BY DEF Call, Pc

\* A request takes the row over: the new generation is above every claim held, and
\* whoever held the old one had lost it or outlived its lease.
LEMMA TakeOverKeeps ==
  ASSUME IInv, NEW r \in Request, ~Holding(r), request[r].pc # "idle",
         row.status # "PROCESSING" \/ row.generation \in expired,
         TakeOver(r)
  PROVE  IInv'
<1> DEFINE g == row.generation + 1
           c == [request[r] EXCEPT !.pc = "work", !.generation = g]
<1>1. /\ row \in Row /\ request \in [Request -> Call] /\ request[r] \in Call
      /\ g \in Nat /\ row.generation \in Nat
  BY DEF IInv, TypeOK, Row
<1>2. /\ c \in Call /\ c.pc = "work" /\ c.generation = g /\ c.hash = request[r].hash
  BY <1>1, Given
<1>3. request' = [request EXCEPT ![r] = c]
  BY DEF TakeOver
<1> HIDE DEF c
<1>4. /\ request' \in [Request -> Call]
      /\ request'[r] = c
      /\ \A s \in Request : s # r => request'[s] = request[s]
  BY <1>1, <1>2, <1>3, CallUpdate
<1>5. /\ row' \in Row
      /\ row'.status = "PROCESSING" /\ row'.generation = g /\ row'.hash = row.hash
      /\ UNCHANGED <<expired, owed, faults, handoffs>>
  BY <1>1 DEF TakeOver, Row
<1>6. TypeOK'
  BY <1>4, <1>5 DEF IInv, TypeOK
<1>7. Known'
  <2>1. request'[r].hash = row'.hash
    BY <1>2, <1>4, <1>5 DEF IInv, Known
  <2> QED
    BY <1>1, <1>2, <1>4, <1>5, <2>1 DEF IInv, Known, Holding, Call
<1>8. OneHolder'
  <2>1. \A s \in Request : s # r /\ Holding(s)' => request'[s].generation < g
    BY <1>1, <1>4 DEF IInv, Known, Holding, Call
  <2> QED
    BY <1>1, <1>2, <1>4, <2>1 DEF IInv, OneHolder, Holding
<1>9. NeverDoubled'
  <2>1. \A s \in Request : s # r /\ Holding(s) => request[s].generation \in expired
    BY <1>1 DEF IInv, NeverDoubled, OwnsClaim
  <2> QED
    BY <1>2, <1>4, <1>5, <2>1 DEF NeverDoubled, OwnsClaim, Holding
<1>10. ResultIsTheHolders'
  BY <1>5 DEF ResultIsTheHolders
<1> QED
  BY <1>6, <1>7, <1>8, <1>9, <1>10 DEF IInv

\* A request that ends, or moves on without a claim, disturbs nothing while the
\* row stays.
LEMMA MovesOn ==
  ASSUME IInv, NEW r \in Request, NEW c \in Call,
         request' = [request EXCEPT ![r] = c],
         c.pc # "idle" => row.status # "NONE" /\ c.hash = row.hash,
         c.pc \in {"work", "release"} =>
           Holding(r) /\ c.generation = request[r].generation,
         UNCHANGED <<row, expired>>, owed' \in BOOLEAN, faults' \in Nat,
         handoffs' \in Nat
  PROVE  IInv'
<1>1. request \in [Request -> Call]
  BY DEF IInv, TypeOK
<1>2. /\ request' \in [Request -> Call]
      /\ request'[r] = c
      /\ \A s \in Request : s # r => request'[s] = request[s]
  BY <1>1, CallUpdate
<1>3. \A s \in Request : Holding(s)' =>
        Holding(s) /\ request'[s].generation = request[s].generation
  BY <1>2 DEF Holding
<1>4. TypeOK'
  BY <1>2 DEF IInv, TypeOK
<1>5. Known'
  BY <1>2, <1>3 DEF IInv, Known, Holding
<1>6. OneHolder' /\ NeverDoubled' /\ ResultIsTheHolders'
  BY <1>3 DEF IInv, OneHolder, NeverDoubled, OwnsClaim, ResultIsTheHolders
<1> QED
  BY <1>4, <1>5, <1>6 DEF IInv

\* The holder of the claim records how its work ended; a displaced one records
\* nothing.
LEMMA RecordsEnd ==
  ASSUME IInv, NEW r \in Request, Complete(r) \/ Release(r)
  PROVE  IInv'
<1>1. /\ request \in [Request -> Call] /\ row \in Row /\ request[r] \in Call
      /\ Holding(r)
  BY DEF IInv, TypeOK, Complete, Release, Holding
<1>2. CASE ~OwnsClaim(r)
  <2>1. UNCHANGED <<row, expired>> /\ owed' \in BOOLEAN /\ faults' \in Nat /\ handoffs' \in Nat
    BY <1>2 DEF Complete, Release, IInv, TypeOK
  <2>2. request' = [request EXCEPT ![r] = Idle]
    BY DEF Complete, Release
  <2> QED
    BY <2>1, <2>2, MovesOn, CallTypes
<1>3. CASE OwnsClaim(r)
  <2>1. /\ request' \in [Request -> Call]
        /\ request'[r] = Idle
        /\ \A s \in Request : s # r => request'[s] = request[s]
    BY <1>1, CallUpdate, CallTypes DEF Complete, Release
  <2>2. /\ row' \in Row /\ row'.generation = row.generation /\ row'.hash = row.hash
        /\ row'.status \in {"SUCCEEDED", "FAILED"}
        /\ row'.status = "SUCCEEDED" => row'.result = row'.generation
        /\ UNCHANGED <<expired, faults, handoffs>> /\ owed' \in BOOLEAN
    BY <1>1, <1>3 DEF Complete, Release, OwnsClaim, Row, Call, IInv, TypeOK
  <2>3. TypeOK'
    BY <2>1, <2>2 DEF IInv, TypeOK
  <2>4. \A s \in Request : Holding(s)' => s # r /\ Holding(s)
    BY <2>1, CallTypes DEF Holding
  <2>5. Known'
    BY <2>1, <2>2, <2>4, CallTypes DEF IInv, Known
  <2>6. OneHolder'
    BY <2>1, <2>4 DEF IInv, OneHolder
  <2>7. NeverDoubled'
    <3>1. \A s \in Request : Holding(s) /\ s # r => request[s].generation \in expired
      BY <1>1, <1>3 DEF IInv, NeverDoubled, OneHolder, OwnsClaim
    <3> QED
      BY <2>1, <2>2, <2>4, <3>1 DEF NeverDoubled
  <2>8. ResultIsTheHolders'
    BY <2>2 DEF ResultIsTheHolders
  <2> QED
    BY <2>3, <2>5, <2>6, <2>7, <2>8 DEF IInv
<1> QED
  BY <1>2, <1>3

-----------------------------------------------------------------------------

LEMMA IInit == Init => IInv
<1> SUFFICES ASSUME Init PROVE IInv
  OBVIOUS
<1>1. row \in Row /\ row.status = "NONE"
  BY DEF Init, NoRow, Row
<1>2. request \in [Request -> Call] /\ \A r \in Request : request[r].pc = "idle"
  BY CallTypes DEF Init
<1> QED
  BY <1>1, <1>2 DEF IInv, TypeOK, Known, OneHolder, NeverDoubled, ResultIsTheHolders,
     Holding, Init

\* The first request: nobody holds anything yet.
LEMMA InsertKeeps ==
  ASSUME IInv, NEW r \in Request, NEW h \in Hash, Insert(r, h)
  PROVE  IInv'
<1> DEFINE c == [Idle EXCEPT !.pc = "work", !.hash = h]
<1>1. request \in [Request -> Call] /\ row.status = "NONE"
  BY DEF IInv, TypeOK, Insert
<1>2. c \in Call /\ c.pc = "work" /\ c.hash = h /\ c.generation = 0
  BY CallTypes DEF Pc
<1>3. request' = [request EXCEPT ![r] = c]
  BY DEF Insert
<1> HIDE DEF c
<1>4. /\ request' \in [Request -> Call]
      /\ request'[r] = c
      /\ \A s \in Request : s # r => request'[s] = request[s]
  BY <1>1, <1>2, <1>3, CallUpdate
<1>5. \A s \in Request : s # r => request'[s].pc = "idle"
  BY <1>1, <1>4 DEF IInv, Known
<1>6. /\ row' \in Row /\ row'.status = "PROCESSING" /\ row'.hash = h
      /\ row'.generation = 0
      /\ UNCHANGED <<expired, owed, faults, handoffs>>
  BY DEF Insert, NoRow, Row
<1>7. TypeOK'
  BY <1>4, <1>6 DEF IInv, TypeOK
<1>8. Known'
  BY <1>2, <1>4, <1>5, <1>6 DEF Known, Holding
<1>9. OneHolder' /\ NeverDoubled'
  BY <1>2, <1>4, <1>5, <1>6 DEF OneHolder, NeverDoubled, OwnsClaim, Holding
<1> QED
  BY <1>6, <1>7, <1>8, <1>9 DEF IInv, ResultIsTheHolders

LEMMA RequestKeeps ==
  ASSUME IInv, NEW r \in Request,
         \/ \E h \in Hash : Read(r, h)
         \/ Reclaim(r)
         \/ Retry(r)
         \/ Replay(r)
         \/ Reopen(r)
         \/ WorkFails(r)
         \/ Crash(r)
  PROVE  IInv'
<1>1. /\ request \in [Request -> Call] /\ request[r] \in Call
      /\ owed \in BOOLEAN /\ faults \in Nat /\ handoffs \in Nat /\ faults + 1 \in Nat
  BY DEF IInv, TypeOK
<1>2. ASSUME TurnedAway(r) PROVE IInv'
  BY <1>1, <1>2, MovesOn, CallTypes DEF TurnedAway
<1>3. ASSUME NEW h \in Hash, Read(r, h) PROVE IInv'
  <2>1. PICK pc \in {"reclaim", "replay", "retry"} :
          request' = [request EXCEPT ![r] = [Idle EXCEPT !.pc = pc, !.hash = h]]
    BY <1>3 DEF Read
  <2>2. /\ row.hash = h /\ row.status # "NONE"
        /\ UNCHANGED <<row, expired, owed, faults, handoffs>>
    BY <1>3 DEF Read
  <2>3. pc \in Pc
    BY DEF Pc
  <2> DEFINE c == [Idle EXCEPT !.pc = pc, !.hash = h]
  <2>4. c \in Call /\ c.pc = pc /\ c.hash = h
    BY <2>3, CallTypes
  <2>5. request' = [request EXCEPT ![r] = c]
    BY <2>1
  <2> HIDE DEF c
  <2> QED
    BY <1>1, <2>2, <2>4, <2>5, MovesOn
<1>4. CASE Reclaim(r)
  BY <1>2, <1>4, TakeOverKeeps DEF Reclaim, Holding
<1>5. CASE Retry(r)
  BY <1>2, <1>5, TakeOverKeeps DEF Retry, Holding
<1>6. CASE Reopen(r)
  BY <1>2, <1>6, TakeOverKeeps DEF Reopen, Holding
<1>7. CASE Replay(r)
  <2> DEFINE c == IF owed THEN [request[r] EXCEPT !.pc = "reopen"] ELSE Idle
  <2>1. /\ c \in Call /\ c.pc \in {"reopen", "idle"}
        /\ c.pc # "idle" => c.hash = request[r].hash
    BY <1>1, CallTypes DEF Call, Pc
  <2>2. request' = [request EXCEPT ![r] = c]
    BY <1>7 DEF Replay
  <2>3. /\ UNCHANGED <<row, expired, owed, faults, handoffs>>
        /\ row.status # "NONE" /\ request[r].hash = row.hash
    BY <1>7 DEF Replay, IInv, Known
  <2> HIDE DEF c
  <2> QED
    BY <1>1, <2>1, <2>2, <2>3, MovesOn
<1>8. CASE WorkFails(r)
  <2>1. PICK class \in {"RETRYABLE", "PERMANENT"} :
          request' = [request EXCEPT ![r] = [@ EXCEPT !.pc = "release",
                                                      !.error_class = class]]
    BY <1>8 DEF WorkFails
  <2> DEFINE c == [request[r] EXCEPT !.pc = "release", !.error_class = class]
  <2>2. /\ c \in Call /\ c.pc = "release" /\ c.hash = request[r].hash
        /\ c.generation = request[r].generation
    BY <1>1 DEF Call, Pc
  <2>3. request' = [request EXCEPT ![r] = c]
    BY <2>1
  <2>4. /\ UNCHANGED <<row, expired, owed, handoffs>> /\ faults' \in Nat
        /\ Holding(r) /\ row.status # "NONE" /\ request[r].hash = row.hash
    BY <1>1, <1>8 DEF WorkFails, Fault, Holding, IInv, Known
  <2> HIDE DEF c
  <2> QED
    BY <1>1, <2>2, <2>3, <2>4, MovesOn
<1>9. CASE Crash(r)
  BY <1>1, <1>9, MovesOn, CallTypes DEF Crash, Fault
<1> QED
  BY <1>3, <1>4, <1>5, <1>6, <1>7, <1>8, <1>9

LEMMA INext == IInv /\ [Next]_vars => IInv'
<1> SUFFICES ASSUME IInv, [Next]_vars PROVE IInv'
  OBVIOUS
<1>1. ASSUME NEW r \in Request, Arrive(r) \/ Proceed(r) \/ WorkFails(r) \/ Crash(r)
      PROVE  IInv'
  BY <1>1, InsertKeeps, RequestKeeps, RecordsEnd DEF Arrive, Proceed
<1>2. ASSUME LeaseRunsOut PROVE IInv'
  <2>1. UNCHANGED <<row, owed, request, handoffs>> /\ faults' \in Nat
    BY <1>2 DEF LeaseRunsOut, Fault, IInv, TypeOK
  <2>2. expired \subseteq expired' /\ expired' \subseteq Nat
    BY <1>2 DEF LeaseRunsOut, IInv, TypeOK, Row
  <2> QED
    BY <2>1, <2>2 DEF IInv, TypeOK, Known, OneHolder, NeverDoubled, OwnsClaim,
       ResultIsTheHolders, Holding
<1>3. ASSUME HandedOff \/ CardPosted \/ UNCHANGED vars PROVE IInv'
  <2>1. UNCHANGED <<row, expired, request, faults>> /\ owed' \in BOOLEAN /\ handoffs' \in Nat
    <3>1. owed' \in {TRUE, FALSE, owed} /\ handoffs' \in {handoffs, handoffs + 1}
      BY <1>3 DEF HandedOff, CardPosted, vars
    <3>2. owed \in BOOLEAN /\ handoffs \in Nat
      BY DEF IInv, TypeOK
    <3>3. owed' \in BOOLEAN
      BY <3>1, <3>2
    <3>4. UNCHANGED <<row, expired, request, faults>>
      BY <1>3 DEF HandedOff, CardPosted, vars
    <3> QED
      BY <3>1, <3>2, <3>3, <3>4
  <2> QED
    BY <2>1 DEF IInv, TypeOK, Known, OneHolder, NeverDoubled, OwnsClaim,
       ResultIsTheHolders, Holding
<1> QED
  BY <1>1, <1>2, <1>3 DEF Next

-----------------------------------------------------------------------------
(* What the registry guarantees                                             *)

\* Every value stays of its type.
THEOREM TypeCorrect == Spec => []TypeOK
<1>1. IInv => TypeOK
  BY DEF IInv
<1> QED
  BY <1>1, IInit, INext, PTL DEF Spec

\* No two requests ever hold the same claim (claim, reopen).
THEOREM ClaimedByOne == Spec => []OneHolder
<1>1. IInv => OneHolder
  BY DEF IInv
<1> QED
  BY <1>1, IInit, INext, PTL DEF Spec

\* A request still working has its claim or has outlived its lease.
THEOREM DoubledOnlyAfterLease == Spec => []NeverDoubled
<1>1. IInv => NeverDoubled
  BY DEF IInv
<1> QED
  BY <1>1, IInit, INext, PTL DEF Spec

\* The result on record is the current holder's own (complete).
THEOREM Fenced == Spec => []ResultIsTheHolders
<1>1. IInv => ResultIsTheHolders
  BY DEF IInv
<1> QED
  BY <1>1, IInit, INext, PTL DEF Spec

\* Only the request the key was claimed for executes under it (claim).
THEOREM BodyMatches == Spec => []RightBody
<1>1. IInv => RightBody
  BY DEF IInv, Known, RightBody, Holding
<1> QED
  BY <1>1, IInit, INext, PTL DEF Spec

\* A result on record is given up by a reopening and by nothing else: the claim,
\* the failure and the completion of another request leave it alone (fail).
THEOREM ResultKept == Spec => ResultStands
<1> DEFINE Withdrawn == \E r \in Request : request[r].pc = "reopen"
<1>1. ASSUME row.status = "SUCCEEDED", row' # row, Next PROVE Withdrawn
  <2>1. PICK r \in Request : Arrive(r) \/ Proceed(r) \/ WorkFails(r) \/ Crash(r)
    BY <1>1 DEF Next, LeaseRunsOut, HandedOff, CardPosted
  <2>2. ~Arrive(r) /\ ~WorkFails(r) /\ ~Crash(r)
    BY <1>1 DEF Arrive, Insert, Read, WorkFails, Crash
  <2>3. ~Complete(r) /\ ~Release(r)
    BY <1>1 DEF Complete, Release, OwnsClaim
  <2>4. ~Reclaim(r) /\ ~Retry(r) /\ ~Replay(r)
    BY <1>1 DEF Reclaim, Retry, Replay, TurnedAway
  <2> QED
    BY <2>1, <2>2, <2>3, <2>4 DEF Proceed, Reopen
<1>2. [Next]_vars => [row.status = "SUCCEEDED" /\ row' # row => Withdrawn]_vars
  BY <1>1
<1> QED
  BY <1>2, PTL DEF Spec, ResultStands

-----------------------------------------------------------------------------
(* The registry implements its promise                                      *)

\* What TheKey takes for its variables.
KeyStatus ==
  CASE row.status = "PROCESSING" -> "HELD"
    [] row.status = "SUCCEEDED" -> "DONE"
    [] OTHER -> "FREE"

Holder == {r \in Request : Holding(r) /\ OwnsClaim(r)}
Displaced == {r \in Request : Holding(r) /\ ~OwnsClaim(r)}

LEMMA StatusIs ==
  ASSUME row \in Row
  PROVE  /\ KeyStatus = "HELD" <=> row.status = "PROCESSING"
         /\ KeyStatus = "DONE" <=> row.status = "SUCCEEDED"
         /\ KeyStatus \in {"FREE", "HELD", "DONE"}
BY DEF KeyStatus

\* One request moves: what becomes of it alone decides what the key is told.
LEMMA Unnoticed ==
  ASSUME IInv, NEW r \in Request, \A s \in Request \ {r} : request'[s] = request[s],
         UNCHANGED row, Holding(r)' => Holding(r) /\ request'[r].generation = request[r].generation
  PROVE  [TheKey!Next]_(TheKey!vars)
<1>1. UNCHANGED KeyStatus
  BY DEF KeyStatus
<1>2. \A s \in Request \ {r} :
        /\ s \in Holder' <=> s \in Holder
        /\ s \in Displaced' <=> s \in Displaced
  BY DEF Holder, Displaced, Holding, OwnsClaim
<1>3. Holder \subseteq Request /\ Holder' \subseteq Request
      /\ Displaced \subseteq Request /\ Displaced' \subseteq Request
  BY DEF Holder, Displaced
<1>4. CASE Holding(r)'
  <2>1. (r \in Holder' <=> r \in Holder) /\ (r \in Displaced' <=> r \in Displaced)
    BY <1>4 DEF Holder, Displaced, OwnsClaim
  <2>2. Holder' = Holder /\ Displaced' = Displaced
    BY <1>2, <1>3, <2>1
  <2> QED
    BY <1>1, <2>2 DEF TheKey!vars, KeyStatus, Holder, Displaced
<1>5. CASE ~Holding(r)'
  <2>1. r \notin Holder' /\ r \notin Displaced'
    BY <1>5 DEF Holder, Displaced
  <2>2. Holder' = Holder \ {r} /\ Displaced' = Displaced \ {r}
    BY <1>2, <1>3, <2>1
  <2>3. CASE r \in Holder
    <3>1. r \notin Displaced
      BY <2>3 DEF Holder, Displaced
    <3>2. Holder = {r}
      BY <2>3 DEF Holder, IInv, OneHolder, OwnsClaim
    <3>3. TheKey!Vanish(r)
      BY <1>1, <2>2, <2>3, <3>1, <3>2 DEF TheKey!Vanish, KeyStatus, Holder, Displaced
    <3> QED
      BY <3>3 DEF TheKey!Next
  <2>4. CASE r \notin Holder
    <3>1. TheKey!EndUnheard(r)
      BY <1>1, <2>2, <2>4 DEF TheKey!EndUnheard, KeyStatus, Holder, Displaced
    <3> QED
      BY <3>1 DEF TheKey!Next
  <2> QED
    BY <2>3, <2>4
<1> QED
  BY <1>4, <1>5

\* A claim displaces whoever had the one before it.
LEMMA ClaimIsOne ==
  ASSUME IInv, NEW r \in Request, ~Holding(r), \A s \in Request \ {r} : request'[s] = request[s],
         row'.status = "PROCESSING", Holding(r)', OwnsClaim(r)',
         \A s \in Request : Holding(s) => request[s].generation < row'.generation
  PROVE  [TheKey!Next]_(TheKey!vars)
<1>1. KeyStatus' = "HELD"
  BY DEF KeyStatus
<1>2. Holder' = {r}
  <2>1. \A s \in Request \ {r} : Holding(s)' => ~OwnsClaim(s)'
    BY DEF Holding, OwnsClaim, IInv, TypeOK, Row, Call
  <2> QED
    BY <2>1 DEF Holder
<1>3. Displaced' = Displaced \cup Holder
  <2>1. \A s \in Request \ {r} : (Holding(s)' <=> Holding(s)) /\ (Holding(s)' => ~OwnsClaim(s)')
    BY DEF Holding, OwnsClaim, IInv, TypeOK, Row, Call
  <2> QED
    BY <2>1 DEF Displaced, Holder
<1>4. r \notin Holder \cup Displaced
  BY DEF Holder, Displaced
<1>5. TheKey!Claim(r)
  BY <1>1, <1>2, <1>3, <1>4 DEF TheKey!Claim, KeyStatus, Holder, Displaced
<1> QED
  BY <1>5 DEF TheKey!Next

\* Who records an end holds the key, or is not heard.
LEMMA EndIsOne ==
  ASSUME IInv, NEW r \in Request, Complete(r) \/ Release(r)
  PROVE  [TheKey!Next]_(TheKey!vars)
<1>1. /\ Holding(r) /\ ~Holding(r)'
      /\ \A s \in Request \ {r} : request'[s] = request[s]
  BY CallTypes DEF Complete, Release, Holding, IInv, TypeOK
<1>2. CASE ~OwnsClaim(r)
  BY <1>1, <1>2, Unnoticed DEF Complete, Release
<1>3. CASE OwnsClaim(r)
  <2>1. /\ row'.status \in {"SUCCEEDED", "FAILED"}
        /\ row \in Row
    BY <1>3 DEF Complete, Release, IInv, TypeOK, Row
  <2>2. KeyStatus' \in {"DONE", "FREE"}
    BY <2>1 DEF KeyStatus
  <2>3. Holder' = {} /\ r \in Holder
    BY <1>1, <1>3, <2>1 DEF Holder, OwnsClaim
  <2>4. Displaced' = Displaced
    <3>1. \A s \in Request \ {r} : (Holding(s)' <=> Holding(s)) /\ (Holding(s) => ~OwnsClaim(s))
      BY <1>1, <1>3 DEF Holding, OwnsClaim, IInv, OneHolder
    <3>2. \A s \in Request : ~OwnsClaim(s)'
      BY <2>1 DEF OwnsClaim
    <3> QED
      BY <1>1, <1>3, <3>1, <3>2 DEF Displaced
  <2>5. TheKey!Record(r)
    BY <2>2, <2>3, <2>4 DEF TheKey!Record, KeyStatus, Holder, Displaced
  <2> QED
    BY <2>5 DEF TheKey!Next
<1> QED
  BY <1>2, <1>3

LEMMA StepIsOne ==
  ASSUME IInv, NEW r \in Request, Arrive(r) \/ Proceed(r) \/ WorkFails(r) \/ Crash(r)
  PROVE  [TheKey!Next]_(TheKey!vars)
<1>1. request \in [Request -> Call] /\ row \in Row
  BY DEF IInv, TypeOK
<1>2. ASSUME TurnedAway(r) PROVE [TheKey!Next]_(TheKey!vars)
  BY <1>1, <1>2, CallTypes, Unnoticed DEF TurnedAway, Holding
<1>3. ASSUME TakeOver(r), ~Holding(r) PROVE [TheKey!Next]_(TheKey!vars)
  <2>1. /\ row'.status = "PROCESSING" /\ row'.generation = row.generation + 1
        /\ row.generation \in Nat
    BY <1>1, <1>3 DEF TakeOver, Row
  <2>2. /\ request'[r].pc = "work" /\ request'[r].generation = row.generation + 1
        /\ \A s \in Request \ {r} : request'[s] = request[s]
    BY <1>1, <1>3 DEF TakeOver, Call
  <2>3. Holding(r)' /\ OwnsClaim(r)'
    BY <2>1, <2>2 DEF Holding, OwnsClaim
  <2>4. \A s \in Request : Holding(s) => request[s].generation < row'.generation
    BY <1>1, <2>1 DEF IInv, Known, Call
  <2> QED
    BY <1>3, <2>1, <2>2, <2>3, <2>4, ClaimIsOne
<1>4. ASSUME NEW h \in Hash, Insert(r, h) PROVE [TheKey!Next]_(TheKey!vars)
  <2>1. /\ row'.status = "PROCESSING" /\ row'.generation = 0
        /\ \A s \in Request : ~Holding(s)
    BY <1>4 DEF Insert, NoRow, IInv, Known, Holding
  <2>2. /\ request'[r].pc = "work" /\ request'[r].generation = 0
        /\ \A s \in Request \ {r} : request'[s] = request[s]
    BY <1>1, <1>4 DEF Insert, Idle
  <2>3. Holding(r)' /\ OwnsClaim(r)'
    BY <2>1, <2>2 DEF Holding, OwnsClaim
  <2> QED
    BY <2>1, <2>2, <2>3, ClaimIsOne
<1>5. ASSUME NEW h \in Hash, Read(r, h) PROVE [TheKey!Next]_(TheKey!vars)
  <2>1. /\ UNCHANGED row /\ ~Holding(r)'
        /\ \A s \in Request \ {r} : request'[s] = request[s]
    BY <1>1, <1>5 DEF Read, Idle, Holding
  <2> QED
    BY <2>1, Unnoticed
<1>6. CASE Reclaim(r)
  BY <1>2, <1>3, <1>6 DEF Reclaim, Holding
<1>7. CASE Retry(r)
  BY <1>2, <1>3, <1>7 DEF Retry, Holding
<1>8. CASE Reopen(r)
  BY <1>2, <1>3, <1>8 DEF Reopen, Holding
<1>9. CASE Replay(r) \/ WorkFails(r) \/ Crash(r)
  <2>1. /\ UNCHANGED row /\ \A s \in Request \ {r} : request'[s] = request[s]
    BY <1>1, <1>9 DEF Replay, WorkFails, Crash
  <2>2. Holding(r)' => Holding(r) /\ request'[r].generation = request[r].generation
    <3>1. CASE Replay(r)
      BY <1>1, <3>1 DEF Replay, Holding, Idle, Call
    <3>2. CASE WorkFails(r)
      BY <1>1, <3>2 DEF WorkFails, Holding, Call
    <3>3. CASE Crash(r)
      BY <1>1, <3>3 DEF Crash, Holding, Idle
    <3> QED
      BY <1>9, <3>1, <3>2, <3>3
  <2> QED
    BY <2>1, <2>2, Unnoticed
<1> QED
  BY <1>4, <1>5, <1>6, <1>7, <1>8, <1>9, EndIsOne DEF Arrive, Proceed

\* Of every interleaving of reads and conditional UPDATEs, of crashes and of leases
\* that run out, the registry makes one holder at a time, and takes the end of the
\* key from nobody else (claim, complete, fail, reopen).
THEOREM Fencing == Spec => KeyIsFenced
<1>1. Init => TheKey!Init
  BY DEF Init, NoRow, Idle, TheKey!Init, Holding
<1>2. IInv /\ [Next]_vars => [TheKey!Next]_(TheKey!vars)
  <2> SUFFICES ASSUME IInv, [Next]_vars PROVE [TheKey!Next]_(TheKey!vars)
    OBVIOUS
  <2>1. CASE LeaseRunsOut \/ HandedOff \/ CardPosted \/ UNCHANGED vars
    <3>1. UNCHANGED <<row, request>>
      BY <2>1 DEF LeaseRunsOut, HandedOff, CardPosted, vars
    <3> QED
      BY <3>1 DEF TheKey!vars, Holding, OwnsClaim
  <2> QED
    BY <2>1, StepIsOne DEF Next
<1> QED
  BY <1>1, <1>2, IInit, INext, PTL DEF Spec, KeyIsFenced, TheKey!Spec
=============================================================================
