-------------------------- MODULE ReconcileProofs --------------------------
(***************************************************************************)
(* Proofs about the reconciliation of a bill.  About Reconcile, for any     *)
(* number of runs, requests and keys: the duplicate check holds across      *)
(* reconciliations that overlap, a run is decided once, nobody waits in a   *)
(* circle, and Decisions and Registry are implemented.  About Engine, the   *)
(* decision each of them takes, for documents of any length: what its       *)
(* silence, its team and its gate promise.                                  *)
(***************************************************************************)
EXTENDS Reconcile, Engine, FiniteSetTheorems, WellFoundedInduction, TLAPS

\* The keys a request has locked, and those it has looked up.
Locked(x) ==
  IF x.pc = "lock" THEN x.keys \ x.left
  ELSE IF x.pc \in {"look", "update", "commit"} THEN x.keys ELSE {}

LookedUp(x) ==
  IF x.pc = "look" THEN x.keys \ x.left
  ELSE IF x.pc \in {"update", "commit"} THEN x.keys ELSE {}

\* What a request has read is still so.
Sound(x) ==
  /\ x.pc # "idle" => x.run \in Run
  /\ x.pc \in {"lock", "look"} => x.left \subseteq x.keys
  /\ x.pc = "lock" => \A k \in x.keys \ x.left, left \in x.left : k < left
  /\ \A k \in x.hits : OnAnotherBill(x.run, k)
  /\ \A k \in LookedUp(x) \ x.hits : ~OnAnotherBill(x.run, k)
  /\ x.pc = "commit" => ~result[x.run].decided

LocksMatch == \A k \in Key, q \in Request : lock[k] = q <=> k \in Locked(request[q])

OneDecides ==
  \A p, q \in Request :
    request[p].pc = "commit" /\ request[q].pc = "commit" /\ request[p].run = request[q].run
      => p = q

Untouched == \A run \in Run : ~result[run].decided => result[run] = Undecided

IInv ==
  /\ TypeOK
  /\ \A q \in Request : Sound(request[q])
  /\ LocksMatch
  /\ OneDecides
  /\ Untouched
  /\ DuplicateIsFlagged
  /\ FlagIsReal

-----------------------------------------------------------------------------

LEMMA IdleIs ==
  /\ Idle \in RequestState
  /\ Idle.pc = "idle" /\ Idle.hits = {} /\ Locked(Idle) = {} /\ LookedUp(Idle) = {}
  /\ Sound(Idle)
BY DEF Idle, RequestState, Pc, Locked, LookedUp, Sound

\* A step of one request that decides nothing: it is enough that what the
\* request has read is so, and that its locks are those it says.
LEMMA Quiet ==
  ASSUME IInv, UNCHANGED result,
         NEW q \in Request, NEW x \in RequestState,
         request' = [request EXCEPT ![q] = x],
         Sound(x),
         x.pc = "commit" =>
           \A p \in Request : request[p].pc = "commit" => request[p].run # x.run,
         claim' \in [Run -> Claim], faults' \in Nat,
         lock' \in [Key -> Request \cup {Nobody}],
         \A k \in Key : lock'[k] = q <=> k \in Locked(x),
         \A k \in Key : \A p \in Request \ {q} : lock'[k] = p <=> lock[k] = p
  PROVE  IInv'
<1>1. /\ request' \in [Request -> RequestState]
      /\ request'[q] = x
      /\ \A p \in Request : p # q => request'[p] = request[p]
  BY DEF IInv, TypeOK
<1>2. TypeOK'
  BY <1>1 DEF IInv, TypeOK
<1>4. (\A p \in Request : Sound(request[p]))'
  <2>1. \A p \in Request : Sound(request'[p])
    BY <1>1 DEF IInv
  <2>2. \A p \in Request : Sound(request[p])' <=> Sound(request'[p])
    BY DEF Sound, OnAnotherBill
  <2> QED
    BY <2>1, <2>2
<1>5. LocksMatch'
  BY <1>1 DEF IInv, LocksMatch
<1>6. OneDecides'
  BY <1>1 DEF IInv, OneDecides
<1>7. Untouched' /\ DuplicateIsFlagged' /\ FlagIsReal'
  BY DEF IInv, Untouched, DuplicateIsFlagged, FlagIsReal
<1> QED
  BY <1>2, <1>4, <1>5, <1>6, <1>7 DEF IInv

\* A request's transaction ends without a decision.
LEMMA Rollback ==
  ASSUME IInv, UNCHANGED result,
         NEW q \in Request, NEW x \in RequestState,
         request' = [request EXCEPT ![q] = x],
         Sound(x), x.pc \in {"idle", "release"},
         claim' \in [Run -> Claim], faults' \in Nat,
         Unlock(q)
  PROVE  IInv'
<1>1. lock' \in [Key -> Request \cup {Nobody}]
  BY DEF IInv, TypeOK, Unlock
<1>2. Nobody # q /\ Locked(x) = {}
  BY ReconcileAssumption DEF Nobody, Locked
<1>3. /\ \A k \in Key : lock'[k] = q <=> k \in Locked(x)
      /\ \A k \in Key : \A p \in Request \ {q} : lock'[k] = p <=> lock[k] = p
  BY <1>2, ReconcileAssumption DEF Unlock, Nobody
<1> QED
  BY <1>1, <1>3, Quiet

-----------------------------------------------------------------------------
(* One lemma for each step                                                  *)

LEMMA CallKeeps ==
  ASSUME IInv, NEW q \in Request, NEW run \in Run, Call(q, run)
  PROVE  IInv'
<1> DEFINE x == [Idle EXCEPT !.pc = "fetch", !.run = run]
<1>1. x \in RequestState /\ x.pc = "fetch" /\ x.run = run /\ x.hits = {}
  BY DEF Idle, RequestState, Pc
<1>2. request' = [request EXCEPT ![q] = x] /\ UNCHANGED <<result, lock>>
  BY DEF Call
<1>3. claim' \in [Run -> Claim] /\ faults' \in Nat
  BY DEF IInv, TypeOK, Call, Claim, Fault
<1> HIDE DEF x
<1>4. Locked(x) = {} /\ Sound(x)
  BY <1>1 DEF Locked, LookedUp, Sound
<1>5. Locked(request[q]) = {}
  BY DEF Call, Locked
<1> QED
  BY <1>1, <1>2, <1>3, <1>4, <1>5, Quiet DEF IInv, TypeOK, LocksMatch

LEMMA FetchKeeps ==
  ASSUME IInv, NEW q \in Request, Fetch(q)
  PROVE  IInv'
<1>1. PICK b \in Bill :
        request' = [request EXCEPT ![q].pc = "lock", ![q].eligible = b.eligible,
                                   ![q].keys = b.keys, ![q].left = b.keys]
  BY DEF Fetch
<1>2. request[q] \in RequestState /\ b.eligible \in BOOLEAN /\ b.keys \in SUBSET Key
  BY DEF IInv, TypeOK, Bill
<1> DEFINE x == [request[q] EXCEPT !.pc = "lock", !.eligible = b.eligible,
                                   !.keys = b.keys, !.left = b.keys]
<1>3. /\ x \in RequestState /\ x.pc = "lock" /\ x.run = request[q].run
      /\ x.hits = request[q].hits /\ x.keys = b.keys /\ x.left = b.keys
  BY <1>2 DEF RequestState, Pc
<1>4. request' = [request EXCEPT ![q] = x]
  BY <1>1 DEF IInv, TypeOK
<1> HIDE DEF x
<1>5. Locked(x) = {} /\ LookedUp(x) = {} /\ x.keys \ x.left = {}
  BY <1>3 DEF Locked, LookedUp
<1>6. Sound(x)
  <2>1. Sound(request[q]) /\ request[q].pc = "fetch"
    BY DEF IInv, Fetch
  <2>2. x.run \in Run /\ \A k \in x.hits : OnAnotherBill(x.run, k)
    BY <2>1, <1>3 DEF Sound
  <2> QED
    BY <2>2, <1>3, <1>5 DEF Sound
<1>7. Locked(request[q]) = {}
  BY DEF Fetch, Locked
<1>8. UNCHANGED <<claim, result, lock, faults>>
  BY DEF Fetch
<1>9. \A k \in Key : lock'[k] = q <=> k \in Locked(x)
  BY <1>5, <1>7, <1>8 DEF IInv, LocksMatch
<1>10. /\ claim' \in [Run -> Claim] /\ faults' \in Nat
       /\ lock' \in [Key -> Request \cup {Nobody}]
  BY <1>8 DEF IInv, TypeOK
<1>11. x.pc # "commit"
  BY <1>3
<1> QED
  BY <1>3, <1>4, <1>6, <1>8, <1>9, <1>10, <1>11, Quiet

LEMMA LockKeeps ==
  ASSUME IInv, NEW q \in Request, NEW k \in Key, Lock(q, k)
  PROVE  IInv'
<1> DEFINE old == request[q]
           left == old.left \ {k}
           x == [old EXCEPT !.pc = IF left = {} THEN "look" ELSE "lock",
                            !.left = IF left = {} THEN old.keys ELSE left]
<1>1. /\ old \in RequestState /\ old.pc = "lock" /\ k \in old.left
      /\ \A other \in old.left : k <= other
      /\ Sound(old)
  BY DEF IInv, TypeOK, Lock, Wants
<1>2. /\ x \in RequestState /\ x.run = old.run /\ x.hits = old.hits /\ x.keys = old.keys
      /\ x.pc = IF left = {} THEN "look" ELSE "lock"
      /\ x.left = IF left = {} THEN old.keys ELSE left
  BY <1>1 DEF RequestState, Pc
<1>3. request' = [request EXCEPT ![q] = x]
  BY DEF IInv, TypeOK, Lock, StillToLock
<1>4. old.left \subseteq old.keys /\ old.keys \subseteq Nat
  BY <1>1, ReconcileAssumption DEF Sound, RequestState, Key
<1>5. Locked(old) = old.keys \ old.left
  BY <1>1 DEF Locked
<1> HIDE DEF x
<1>6. Locked(x) = Locked(old) \cup {k} /\ LookedUp(x) = {} /\ LookedUp(old) = {}
  BY <1>1, <1>2, <1>4, <1>5 DEF Locked, LookedUp
<1>7. Sound(x)
  <2>1. ASSUME left # {} PROVE \A h \in x.keys \ x.left, j \in x.left : h < j
    BY <2>1, <1>1, <1>2, <1>4 DEF Sound
  <2>2. x.pc \in {"lock", "look"} => x.left \subseteq x.keys
    BY <1>2, <1>4
  <2> QED
    BY <2>1, <2>2, <1>1, <1>2, <1>6 DEF Sound
<1>8. /\ lock[k] = Nobody /\ lock' = [lock EXCEPT ![k] = q]
      /\ lock \in [Key -> Request \cup {Nobody}]
      /\ UNCHANGED <<claim, result, faults>>
  BY DEF Lock, IInv, TypeOK
<1>9. /\ lock' \in [Key -> Request \cup {Nobody}]
      /\ \A j \in Key : lock'[j] = q <=> j \in Locked(x)
      /\ \A j \in Key : \A p \in Request \ {q} : lock'[j] = p <=> lock[j] = p
  BY <1>6, <1>8, ReconcileAssumption DEF IInv, LocksMatch, Nobody
<1>10. x.pc # "commit"
  BY <1>2
<1> HIDE DEF old, left
<1> QED
  BY <1>2, <1>3, <1>7, <1>8, <1>9, <1>10, Quiet DEF IInv, TypeOK

LEMMA LookUpKeeps ==
  ASSUME IInv, NEW q \in Request, NEW k \in Key, LookUp(q, k)
  PROVE  IInv'
<1> DEFINE old == request[q]
           x == [old EXCEPT
                   !.left = @ \ {k},
                   !.hits = IF OnAnotherBill(old.run, k) THEN @ \cup {k} ELSE @,
                   !.pc = IF old.left = {k} THEN "update" ELSE "look"]
<1>1. old \in RequestState /\ old.pc = "look" /\ k \in old.left /\ Sound(old)
  BY DEF IInv, TypeOK, LookUp
<1>2. /\ x \in RequestState /\ x.run = old.run /\ x.keys = old.keys
      /\ x.pc = IF old.left = {k} THEN "update" ELSE "look"
      /\ x.left = old.left \ {k}
      /\ x.hits = IF OnAnotherBill(old.run, k) THEN old.hits \cup {k} ELSE old.hits
  BY <1>1 DEF RequestState, Pc
<1>3. request' = [request EXCEPT ![q] = x]
  BY DEF IInv, TypeOK, LookUp
<1> HIDE DEF x
<1>4. Locked(x) = Locked(old) /\ x.pc # "commit" /\ x.pc # "lock" /\ x.pc # "idle"
  BY <1>1, <1>2 DEF Locked
<1>5. LookedUp(x) = LookedUp(old) \cup {k}
  BY <1>1, <1>2 DEF LookedUp, Sound
<1>6. Sound(x)
  <2>1. \A j \in x.hits : OnAnotherBill(x.run, j)
    BY <1>1, <1>2 DEF Sound
  <2>2. \A j \in LookedUp(x) \ x.hits : ~OnAnotherBill(x.run, j)
    BY <1>1, <1>2, <1>5 DEF Sound
  <2>3. x.run \in Run /\ (x.pc \in {"lock", "look"} => x.left \subseteq x.keys)
    BY <1>1, <1>2 DEF Sound
  <2> QED
    BY <2>1, <2>2, <2>3, <1>4 DEF Sound
<1>7. UNCHANGED <<claim, result, lock, faults>>
  BY DEF LookUp
<1>8. \A j \in Key : lock'[j] = q <=> j \in Locked(x)
  BY <1>4, <1>7 DEF IInv, LocksMatch
<1>9. /\ claim' \in [Run -> Claim] /\ faults' \in Nat
      /\ lock' \in [Key -> Request \cup {Nobody}]
  BY <1>7 DEF IInv, TypeOK
<1> HIDE DEF old
<1> QED
  BY <1>2, <1>3, <1>4, <1>6, <1>7, <1>8, <1>9, Quiet

LEMMA UpdateKeeps ==
  ASSUME IInv, NEW q \in Request, Update(q)
  PROVE  IInv'
<1> DEFINE old == request[q]
<1>1. /\ old \in RequestState /\ old.pc = "update" /\ Sound(old)
      /\ ~RowLocked(old.run)
      /\ UNCHANGED <<claim, result, faults>>
      /\ claim \in [Run -> Claim] /\ faults \in Nat
      /\ lock \in [Key -> Request \cup {Nobody}]
  BY DEF IInv, TypeOK, Update
<1>2. CASE result[old.run].decided
  <2> DEFINE x == [old EXCEPT !.pc = "release"]
  <2>1. /\ x \in RequestState /\ x.pc = "release" /\ x.run = old.run /\ x.hits = old.hits
    BY <1>1 DEF RequestState, Pc
  <2>2. request' = [request EXCEPT ![q] = x] /\ Unlock(q)
    BY <1>2 DEF IInv, TypeOK, Update, GoTo
  <2> HIDE DEF x
  <2>3. Sound(x)
    BY <1>1, <2>1 DEF Sound, LookedUp
  <2> QED
    BY <1>1, <2>1, <2>2, <2>3, Rollback
<1>3. CASE ~result[old.run].decided
  <2> DEFINE x == [old EXCEPT !.pc = "commit"]
  <2>1. /\ x \in RequestState /\ x.pc = "commit" /\ x.run = old.run /\ x.hits = old.hits
        /\ x.keys = old.keys
    BY <1>1 DEF RequestState, Pc
  <2>2. request' = [request EXCEPT ![q] = x] /\ UNCHANGED lock
    BY <1>3 DEF IInv, TypeOK, Update, GoTo
  <2> HIDE DEF x
  <2>3. Locked(x) = Locked(old) /\ LookedUp(x) = LookedUp(old)
    BY <1>1, <2>1 DEF Locked, LookedUp
  <2>4. Sound(x)
    BY <1>1, <1>3, <2>1, <2>3 DEF Sound
  <2>5. \A j \in Key : lock'[j] = q <=> j \in Locked(x)
    BY <2>2, <2>3 DEF IInv, LocksMatch
  <2>6. \A p \in Request : request[p].pc = "commit" => request[p].run # x.run
    BY <1>1, <2>1 DEF RowLocked
  <2> HIDE DEF old
  <2> QED
    BY <1>1, <2>1, <2>2, <2>4, <2>5, <2>6, Quiet
<1> QED
  BY <1>2, <1>3

LEMMA CommitKeeps ==
  ASSUME IInv, NEW q \in Request, Commit(q)
  PROVE  /\ IInv'
         /\ \A run \in Run : result[run].decided => result'[run] = result[run]
<1> DEFINE old == request[q]
           run == old.run
<1>1. /\ old \in RequestState /\ old.pc = "commit" /\ Sound(old)
      /\ claim \in [Run -> Claim] /\ faults \in Nat
      /\ lock \in [Key -> Request \cup {Nobody}]
      /\ result \in [Run -> Result]
      /\ request \in [Request -> RequestState]
  BY DEF IInv, TypeOK, Commit
<1>2. run \in Run /\ ~result[run].decided /\ result[run] = Undecided
  BY <1>1 DEF Sound, IInv, Untouched
<1>3. /\ result' = [result EXCEPT ![run] = Decision(q)]
      /\ request' = [request EXCEPT ![q] = Idle]
      /\ Unlock(q) /\ faults' = faults
  BY DEF Commit
<1>4. /\ Decision(q) \in Result /\ Decision(q).decided
      /\ \A k \in Decision(q).keys : k \in old.keys /\ k \in Locked(old)
      /\ \A k \in Decision(q).keys \ Decision(q).hits : ~OnAnotherBill(run, k)
      /\ \A k \in Decision(q).hits : OnAnotherBill(run, k)
  BY <1>1 DEF Decision, Result, RequestState, Locked, LookedUp, Sound
<1>5. /\ result'[run] = Decision(q)
      /\ \A other \in Run : other # run => result'[other] = result[other]
      /\ request'[q] = Idle
      /\ \A p \in Request : p # q => request'[p] = request[p]
  BY <1>1, <1>2, <1>3
<1>6. TypeOK'
  <2>1. claim' \in [Run -> Claim]
    BY <1>1 DEF Commit, Claim
  <2>2. lock' \in [Key -> Request \cup {Nobody}]
    BY <1>1, <1>3 DEF Unlock
  <2> QED
    BY <2>1, <2>2, <1>1, <1>3, <1>4, IdleIs DEF TypeOK
<1> HIDE DEF old, run
\* What others have found stays found, and what they have not found stays so,
\* for its key is locked.
<1>7. ASSUME NEW p \in Request, p # q
      PROVE  Sound(request[p])'
  <2> DEFINE x == request[p]
  <2>1. x \in RequestState /\ Sound(x) /\ x' = x
    BY <1>1, <1>5, <1>7 DEF IInv
  <2>2. \A k \in LookedUp(x) : k \in Key /\ k \notin Locked(old)
    <3>1. \A k \in LookedUp(x) : k \in Key /\ k \in Locked(x)
      BY <2>1 DEF LookedUp, Locked, RequestState
    <3> QED
      BY <3>1, <1>7 DEF IInv, LocksMatch, old
  <2>3. \A k \in LookedUp(x) \ x.hits : ~OnAnotherBill(x.run, k)'
    <3> SUFFICES ASSUME NEW k \in LookedUp(x) \ x.hits, OnAnotherBill(x.run, k)'
                 PROVE  FALSE
      BY DEF OnAnotherBill
    <3>1. PICK other \in Run : InvoiceOf[other] # InvoiceOf[x.run] /\ k \in result'[other].keys
      BY <2>1 DEF OnAnotherBill
    <3>2. other # run
      BY <3>1, <2>2, <1>4, <1>5
    <3> QED
      BY <3>1, <3>2, <1>5, <2>1 DEF OnAnotherBill, Sound
  <2>4. \A k \in x.hits : OnAnotherBill(x.run, k)'
    <3>1. \A k \in x.hits : k \in Key /\ OnAnotherBill(x.run, k)
      BY <2>1 DEF RequestState, Sound
    <3> QED
      BY <3>1, <2>1, <1>2, <1>5 DEF OnAnotherBill, Undecided
  <2>5. x.pc = "commit" => ~result'[x.run].decided
    <3>1. x.pc = "commit" => x.run # run /\ x.run \in Run /\ ~result[x.run].decided
      BY <1>1, <1>7, <2>1 DEF IInv, OneDecides, Sound, run, old
    <3> QED
      BY <3>1, <1>5
  <2> QED
    BY <2>1, <2>3, <2>4, <2>5 DEF Sound, LookedUp, OnAnotherBill
<1>8. Sound(request[q])'
  <2>1. request'[q] = Idle
    BY <1>5
  <2> QED
    BY <2>1, IdleIs DEF Sound, LookedUp, OnAnotherBill, Idle
<1>9. LocksMatch'
  <2>1. Locked(request'[q]) = {}
    BY <1>5, IdleIs
  <2>2. \A k \in Key : lock'[k] # q
    BY <1>3, ReconcileAssumption DEF Unlock, Nobody
  <2>3. \A k \in Key, p \in Request : p # q => (lock'[k] = p <=> lock[k] = p)
    BY <1>3, ReconcileAssumption DEF Unlock, Nobody
  <2>4. \A k \in Key, p \in Request : lock'[k] = p <=> k \in Locked(request'[p])
    BY <2>1, <2>2, <2>3, <1>5 DEF IInv, LocksMatch
  <2> QED
    BY <2>4 DEF LocksMatch, Locked
<1>10. OneDecides'
  BY <1>5, IdleIs DEF IInv, OneDecides
<1>11. Untouched'
  BY <1>4, <1>5 DEF IInv, Untouched
<1>12. DuplicateIsFlagged'
  <2> SUFFICES ASSUME NEW r \in Run, NEW s \in Run, InvoiceOf[r] # InvoiceOf[s],
                      NEW k \in result'[r].keys, k \in result'[s].keys
               PROVE  k \in result'[r].hits \/ k \in result'[s].hits
    BY DEF DuplicateIsFlagged
  <2>1. CASE r # run /\ s # run
    BY <2>1, <1>5 DEF IInv, DuplicateIsFlagged
  <2>2. CASE r = run
    BY <2>2, <1>2, <1>4, <1>5 DEF OnAnotherBill
  <2>3. CASE s = run
    BY <2>3, <1>2, <1>4, <1>5 DEF OnAnotherBill
  <2> QED
    BY <2>1, <2>2, <2>3
<1>13. FlagIsReal'
  <2> SUFFICES ASSUME NEW r \in Run, NEW k \in result'[r].hits
               PROVE  \E s \in Run : InvoiceOf[s] # InvoiceOf[r] /\ k \in result'[s].keys
    BY DEF FlagIsReal
  <2>1. \E s \in Run : InvoiceOf[s] # InvoiceOf[r] /\ k \in result[s].keys
    BY <1>2, <1>4, <1>5 DEF IInv, FlagIsReal, OnAnotherBill
  <2> QED
    BY <2>1, <1>2, <1>5 DEF Undecided
<1>14. IInv'
  BY <1>6, <1>7, <1>8, <1>9, <1>10, <1>11, <1>12, <1>13 DEF IInv
<1> QED
  BY <1>14, <1>2, <1>5

LEMMA FailsKeeps ==
  ASSUME IInv, NEW q \in Request, Fails(q)
  PROVE  IInv'
<1> DEFINE old == request[q]
           x == [old EXCEPT !.pc = "release"]
<1>1. /\ old \in RequestState /\ old.pc # "idle" /\ Sound(old)
      /\ claim' \in [Run -> Claim] /\ faults' \in Nat
      /\ UNCHANGED result /\ Unlock(q)
  BY DEF IInv, TypeOK, Fails, Fault
<1>2. /\ x \in RequestState /\ x.pc = "release" /\ x.run = old.run /\ x.hits = old.hits
  BY <1>1 DEF RequestState, Pc
<1>3. request' = [request EXCEPT ![q] = x]
  BY DEF IInv, TypeOK, Fails, GoTo
<1> HIDE DEF x
<1>4. Sound(x)
  BY <1>1, <1>2 DEF Sound, LookedUp
<1> QED
  BY <1>1, <1>2, <1>3, <1>4, Rollback

\* A request that has ended holds no lock and has found nothing.
LEMMA IdleKeeps ==
  ASSUME IInv, NEW q \in Request, Release(q) \/ Crash(q)
  PROVE  IInv'
<1>1. /\ request' = [request EXCEPT ![q] = Idle]
      /\ UNCHANGED result
      /\ claim' \in [Run -> Claim] /\ faults' \in Nat
  BY DEF IInv, TypeOK, Release, Crash, Fault, Claim
<1>2. Unlock(q)
  <2>1. CASE Release(q)
    <3>1. \A k \in Key : lock[k] # q
      BY <2>1 DEF IInv, LocksMatch, Locked, Release
    <3> QED
      BY <2>1, <3>1 DEF Release, Unlock, IInv, TypeOK
  <2> QED
    BY <2>1 DEF Crash
<1> QED
  BY <1>1, <1>2, IdleIs, Rollback

-----------------------------------------------------------------------------

LEMMA InitKeeps == Init => IInv
<1> SUFFICES ASSUME Init PROVE IInv
  OBVIOUS
<1>1. /\ TypeOK
      /\ \A run \in Run : result[run] = Undecided
      /\ \A q \in Request : request[q] = Idle
      /\ \A k \in Key : lock[k] = Nobody
  BY IdleIs DEF Init, TypeOK, Claim, Result, Undecided
<1>2. (\A q \in Request : Sound(request[q])) /\ OneDecides
  BY <1>1, IdleIs DEF OneDecides
<1>3. LocksMatch
  BY <1>1, IdleIs, ReconcileAssumption DEF LocksMatch, Nobody
<1>4. Untouched /\ DuplicateIsFlagged /\ FlagIsReal
  BY <1>1 DEF Untouched, DuplicateIsFlagged, FlagIsReal, Undecided
<1> QED
  BY <1>1, <1>2, <1>3, <1>4 DEF IInv

LEMMA NextKeeps == IInv /\ [Next]_vars => IInv'
<1> SUFFICES ASSUME IInv, [Next]_vars PROVE IInv'
  OBVIOUS
<1>1. CASE UNCHANGED vars
  BY <1>1 DEF vars, IInv, TypeOK, Sound, OnAnotherBill, LocksMatch, Locked, LookedUp,
              OneDecides, Untouched, DuplicateIsFlagged, FlagIsReal
<1>2. CASE Next
  BY <1>2, CallKeeps, FetchKeeps, LockKeeps, LookUpKeeps, UpdateKeeps, CommitKeeps,
     FailsKeeps, IdleKeeps DEF Next, Proceed
<1> QED
  BY <1>1, <1>2

LEMMA Inductive == Spec => []IInv
BY InitKeeps, NextKeeps, PTL DEF Spec

\* Every state is typed: in particular a decision is made from keys of the bill.
THEOREM TypeCorrect == Spec => []TypeOK
BY Inductive, PTL DEF IInv

\* Of two bills decided with a common key at least one is flagged, for any
\* number of runs and requests: a key looked up and not found stays unfound
\* until its lock is released.
THEOREM Flagged == Spec => []DuplicateIsFlagged
BY Inductive, PTL DEF IInv

\* A flagged bill shares its key with another bill, whose decision stands.
THEOREM FlaggedForAReason == Spec => []FlagIsReal
BY Inductive, PTL DEF IInv

\* No step changes what a run was decided.
THEOREM DecidedForGood == Spec => DecidedOnce
<1>1. IInv /\ [Next]_vars =>
        [\A run \in Run : result[run].decided => result'[run] = result[run]]_vars
  <2> SUFFICES ASSUME IInv, Next
               PROVE  \A run \in Run : result[run].decided => result'[run] = result[run]
    OBVIOUS
  <2>1. (\E q \in Request : Commit(q)) \/ UNCHANGED result
    BY DEF Next, Proceed, Call, Fetch, Lock, LookUp, Update, Release, Fails, Crash
  <2> QED
    BY <2>1, CommitKeeps
<1> QED
  BY <1>1, Inductive, PTL DEF Spec, DecidedOnce

-----------------------------------------------------------------------------
(* One bill after another                                                   *)

\* A request has found only keys of its bill, and an eligible bill has one of
\* each kind.
OfItsBill(x) ==
  /\ x.eligible => x.keys \in OneByOne!DuplicateKeys
  /\ x.hits \subseteq x.keys
  /\ x.pc = "fetch" => x.hits = {}

SerialInv == IInv /\ \A q \in Request : OfItsBill(request[q])

LEMMA SerialInit == Init => (\A q \in Request : OfItsBill(request[q])) /\ OneByOne!Init
BY DEF Init, OfItsBill, Idle, Undecided, OneByOne!Init, OneByOne!Undecided

LEMMA KeysOfABill == \A b \in Bill : b.eligible => b.keys \in OneByOne!DuplicateKeys
<1> SUFFICES ASSUME NEW b \in Bill, b.eligible PROVE b.keys \in OneByOne!DuplicateKeys
  OBVIOUS
<1>1. /\ b.keys \subseteq InvoiceKey \cup BusinessKey
      /\ Cardinality(b.keys \cap InvoiceKey) = 1
      /\ Cardinality(b.keys \cap BusinessKey) = 1
  BY DEF Bill, Key
<1>2. IsFiniteSet(b.keys \cap InvoiceKey) /\ IsFiniteSet(b.keys \cap BusinessKey)
  <2>1. /\ b.keys \cap InvoiceKey \in SUBSET (InvoiceKey \cup BusinessKey)
        /\ b.keys \cap BusinessKey \in SUBSET (InvoiceKey \cup BusinessKey)
    OBVIOUS
  <2> QED
    BY <2>1, ReconcileAssumption, FS_Subset
<1>3. PICK i : b.keys \cap InvoiceKey = {i}
  BY <1>1, <1>2, FS_Singleton, Zenon
<1>4. PICK k : b.keys \cap BusinessKey = {k}
  BY <1>1, <1>2, FS_Singleton, Zenon
<1>5. b.keys = {i, k} /\ i \in InvoiceKey /\ k \in BusinessKey
  BY <1>1, <1>3, <1>4
<1> QED
  BY <1>5 DEF OneByOne!DuplicateKeys

LEMMA BillKept ==
  ASSUME SerialInv, NEW q \in Request,
         (\E run \in Run : Call(q, run)) \/ Proceed(q) \/ Fails(q) \/ Crash(q)
  PROVE  \E x : request' = [request EXCEPT ![q] = x] /\ OfItsBill(x)
<1> DEFINE old == request[q]
<1>1. old \in RequestState /\ Sound(old) /\ OfItsBill(old)
  BY DEF SerialInv, IInv, TypeOK
<1>2. OfItsBill(Idle)
  BY DEF OfItsBill, Idle
<1>3. ASSUME NEW run \in Run, Call(q, run)
      PROVE  OfItsBill([Idle EXCEPT !.pc = "fetch", !.run = run])
  BY DEF OfItsBill, Idle
<1>4. CASE Fetch(q)
  <2>1. PICK b \in Bill :
          request' = [request EXCEPT ![q] = [old EXCEPT
            !.pc = "lock", !.eligible = b.eligible, !.keys = b.keys, !.left = b.keys]]
    BY <1>4 DEF Fetch, SerialInv, IInv, TypeOK
  <2>2. b.eligible => b.keys \in OneByOne!DuplicateKeys
    BY KeysOfABill
  <2>3. old.hits = {}
    BY <1>1, <1>4 DEF Fetch, OfItsBill
  <2>4. OfItsBill([old EXCEPT !.pc = "lock", !.eligible = b.eligible,
                              !.keys = b.keys, !.left = b.keys])
    BY <1>1, <2>2, <2>3 DEF OfItsBill, RequestState
  <2> QED
    BY <2>1, <2>4
<1>5. ASSUME NEW k \in Key, LookUp(q, k)
      PROVE  \E x : request' = [request EXCEPT ![q] = x] /\ OfItsBill(x)
  <2> DEFINE x == [old EXCEPT !.left = old.left \ {k},
                              !.hits = IF OnAnotherBill(old.run, k)
                                       THEN old.hits \cup {k} ELSE old.hits,
                              !.pc = IF old.left = {k} THEN "update" ELSE "look"]
  <2>1. request' = [request EXCEPT ![q] = x]
    BY <1>1, <1>5 DEF LookUp, RequestState
  <2>2. k \in old.keys
    BY <1>1, <1>5 DEF LookUp, Sound
  <2>3. /\ x.eligible = old.eligible /\ x.keys = old.keys /\ x.pc # "fetch"
        /\ x.hits \subseteq old.hits \cup {k}
    BY <1>1 DEF RequestState
  <2>4. OfItsBill(x)
    BY <1>1, <2>2, <2>3 DEF OfItsBill
  <2> QED
    BY <2>1, <2>4
<1>6. ASSUME NEW k \in Key, Lock(q, k)
      PROVE  \E x : request' = [request EXCEPT ![q] = x] /\ OfItsBill(x)
  <2> DEFINE left == StillToLock(q, k)
             x == [old EXCEPT !.pc = IF left = {} THEN "look" ELSE "lock",
                              !.left = IF left = {} THEN old.keys ELSE left]
  <2>1. request' = [request EXCEPT ![q] = x]
    BY <1>1, <1>6 DEF Lock, RequestState
  <2>2. /\ x.eligible = old.eligible /\ x.keys = old.keys /\ x.hits = old.hits
        /\ x.pc # "fetch"
    BY <1>1 DEF RequestState
  <2>3. OfItsBill(x)
    BY <1>1, <2>2 DEF OfItsBill
  <2> QED
    BY <2>1, <2>3
<1>7. CASE Update(q) \/ Fails(q)
  <2>1. PICK pc \in {"release", "commit"} : GoTo(q, pc)
    BY <1>7 DEF Update, Fails
  <2>2. request' = [request EXCEPT ![q] = [old EXCEPT !.pc = pc]]
    BY <2>1 DEF GoTo
  <2>3. OfItsBill([old EXCEPT !.pc = pc])
    BY <1>1 DEF OfItsBill, RequestState
  <2> QED
    BY <2>2, <2>3
<1>8. CASE Commit(q) \/ Release(q) \/ Crash(q)
  BY <1>8, <1>2 DEF Commit, Release, Crash
<1> QED
  BY <1>3, <1>4, <1>5, <1>6, <1>7, <1>8 DEF Call, Proceed

\* A commit is a decision made at once: what its lookups found, one key after
\* another, is what they would find now.
LEMMA CommitIsADecision ==
  ASSUME SerialInv, NEW q \in Request, Commit(q)
  PROVE  OneByOne!Decide(request[q].run)
<1> DEFINE x == request[q]
           keys == IF x.eligible THEN x.keys ELSE {}
<1>1. /\ x \in RequestState /\ x.pc = "commit" /\ Sound(x)
      /\ result' = [result EXCEPT ![x.run] = Decision(q)]
  BY DEF SerialInv, IInv, TypeOK, Commit
<1>2. x.run \in Run /\ ~result[x.run].decided
  BY <1>1 DEF Sound
<1>3. OfItsBill(x) /\ keys \in OneByOne!DuplicateKeys \cup {{}}
  BY DEF SerialInv, OfItsBill
<1>4. \A k \in x.keys : k \in x.hits <=> OneByOne!OnAnotherBill(x.run, k)
  BY <1>1 DEF Sound, LookedUp, OnAnotherBill, OneByOne!OnAnotherBill
<1>5. x.hits \subseteq x.keys
  BY <1>3 DEF OfItsBill
<1>6. Decision(q) = [decided |-> TRUE, keys |-> keys,
                     hits |-> {k \in keys : OneByOne!OnAnotherBill(x.run, k)}]
  BY <1>4, <1>5 DEF Decision
<1> QED
  BY <1>1, <1>2, <1>3, <1>6 DEF OneByOne!Decide

LEMMA SerialNext == SerialInv /\ [Next]_vars => SerialInv' /\ [OneByOne!Next]_result
<1> SUFFICES ASSUME SerialInv, [Next]_vars PROVE SerialInv' /\ [OneByOne!Next]_result
  OBVIOUS
<1>1. IInv'
  BY NextKeeps DEF SerialInv
<1>2. CASE UNCHANGED vars
  BY <1>1, <1>2 DEF vars, SerialInv, OfItsBill
<1>3. ASSUME NEW q \in Request,
             (\E run \in Run : Call(q, run)) \/ Proceed(q) \/ Fails(q) \/ Crash(q)
      PROVE  SerialInv' /\ [OneByOne!Next]_result
  <2>1. PICK x : request' = [request EXCEPT ![q] = x] /\ OfItsBill(x)
    BY <1>3, BillKept
  <2>2. \A p \in Request : request'[p] \in {x, request[p]}
    BY <2>1 DEF SerialInv, IInv, TypeOK
  <2>3. \A p \in Request : OfItsBill(request'[p])
    BY <2>1, <2>2 DEF SerialInv
  <2>4. CASE Commit(q)
    <3>1. request[q].run \in Run
      BY <2>4 DEF Commit, SerialInv, IInv, Sound
    <3> QED
      BY <1>1, <2>3, <2>4, <3>1, CommitIsADecision DEF SerialInv, OneByOne!Next, OfItsBill
  <2>5. CASE UNCHANGED result
    BY <1>1, <2>3, <2>5 DEF SerialInv, OfItsBill
  <2>6. Commit(q) \/ UNCHANGED result
    BY <1>3 DEF Proceed, Call, Fetch, Lock, LookUp, Update, Release, Fails, Crash
  <2> QED
    BY <2>4, <2>5, <2>6
<1> QED
  BY <1>2, <1>3 DEF Next

\* Bills reconciled at once are decided as if one after another, for any number
\* of runs, requests, keys and faults: the locks of both keys from before the
\* first lookup to the commit make the check and the decision one step.
THEOREM Serialised == Spec => DecidesOneByOne
<1>1. Init => SerialInv /\ OneByOne!Init
  BY SerialInit, InitKeeps DEF SerialInv
<1> QED
  BY <1>1, SerialNext, PTL DEF Spec, DecidesOneByOne, OneByOne!Spec

-----------------------------------------------------------------------------
(* Each run's key does what the registry promises                           *)

KeysInv ==
  /\ IInv
  /\ \A q \in Request : request[q].pc = "idle" => request[q].run = Nobody

\* What TheKey takes for its variables.
Holder(run) == {q \in Request : Executing(q, run) /\ Holds(q, run)}
Displaced(run) == {q \in Request : Executing(q, run) /\ ~Holds(q, run)}

FencedStep(run) == [TheKey(run)!Next]_(TheKey(run)!vars)

\* A request moves without the run's key being told: at most it goes away.
LEMMA Unnoticed ==
  ASSUME NEW run \in Run, NEW q \in Request,
         \A p \in Request \ {q} : request'[p] = request[p],
         claim'[run] = claim[run], Executing(q, run)' => Executing(q, run)
  PROVE  FencedStep(run)
<1>1. \A p \in Request \ {q} :
        /\ p \in Holder(run)' <=> p \in Holder(run)
        /\ p \in Displaced(run)' <=> p \in Displaced(run)
  BY DEF Holder, Displaced, Executing, Holds
<1>2. /\ Holder(run) \subseteq Request /\ Holder(run)' \subseteq Request
      /\ Displaced(run) \subseteq Request /\ Displaced(run)' \subseteq Request
  BY DEF Holder, Displaced
<1>3. CASE Executing(q, run)' <=> Executing(q, run)
  <2>1. /\ q \in Holder(run)' <=> q \in Holder(run)
        /\ q \in Displaced(run)' <=> q \in Displaced(run)
    BY <1>3 DEF Holder, Displaced, Holds
  <2>2. Holder(run)' = Holder(run) /\ Displaced(run)' = Displaced(run)
    BY <1>1, <1>2, <2>1
  <2> QED
    BY <2>2 DEF FencedStep, TheKey!vars, Holder, Displaced
<1>4. CASE Executing(q, run) /\ ~Executing(q, run)'
  <2>1. /\ Holder(run)' = Holder(run) \ {q}
        /\ Displaced(run)' = Displaced(run) \ {q}
    BY <1>1, <1>2, <1>4 DEF Holder, Displaced
  <2>2. CASE Holds(q, run)
    <3>1. Holder(run) = {q} /\ q \notin Displaced(run)
      BY <1>4, <2>2 DEF Holder, Displaced, Holds
    <3>2. TheKey(run)!Vanish(q)
      BY <2>1, <3>1 DEF TheKey!Vanish, Holder, Displaced
    <3> QED
      BY <3>2 DEF FencedStep, TheKey!Next
  <2>3. CASE ~Holds(q, run)
    <3>1. q \notin Holder(run)
      BY <2>3 DEF Holder
    <3>2. TheKey(run)!EndUnheard(q)
      BY <2>1, <3>1 DEF TheKey!EndUnheard, Holder, Displaced
    <3> QED
      BY <3>2 DEF FencedStep, TheKey!Next
  <2> QED
    BY <2>2, <2>3
<1> QED
  BY <1>3, <1>4

LEMMA CallClaims ==
  ASSUME KeysInv, NEW q \in Request, NEW called \in Run, Call(q, called), NEW run \in Run
  PROVE  FencedStep(run)
<1>1. /\ claim' = [claim EXCEPT ![called] = [status |-> "HELD", holder |-> q]]
      /\ claim[called].status \in {"FREE", "HELD"}
      /\ request'[q].run = called /\ request[q].run = Nobody
      /\ \A p \in Request \ {q} : request'[p] = request[p]
  BY DEF Call, Abandoned, Idle, KeysInv, IInv, TypeOK
<1>2. Nobody \notin Run /\ claim \in [Run -> Claim]
  BY ReconcileAssumption DEF Nobody, KeysInv, IInv, TypeOK
<1>3. CASE run # called
  BY <1>1, <1>2, <1>3, Unnoticed DEF Executing
<1>4. CASE run = called
  <2>1. claim'[run] = [status |-> "HELD", holder |-> q]
    BY <1>1, <1>2, <1>4
  <2>2. /\ Holder(run)' = {q} /\ q \notin Holder(run) \cup Displaced(run)
        /\ Displaced(run)' = Displaced(run) \cup Holder(run)
    BY <1>1, <1>2, <1>4, <2>1 DEF Holder, Displaced, Executing, Holds
  <2>3. TheKey(run)!Claim(q)
    BY <1>1, <1>4, <2>1, <2>2 DEF TheKey!Claim, Holder, Displaced
  <2> QED
    BY <2>3 DEF FencedStep, TheKey!Next
<1> QED
  BY <1>3, <1>4

LEMMA EndRecords ==
  ASSUME KeysInv, NEW q \in Request, Commit(q) \/ Release(q), NEW run \in Run
  PROVE  FencedStep(run)
<1> DEFINE mine == request[q].run
<1>1. /\ mine \in Run
      /\ request'[q] = Idle
      /\ \A p \in Request \ {q} : request'[p] = request[p]
  BY DEF Commit, Release, KeysInv, IInv, Sound, TypeOK
<1>2. ~Executing(q, run)'
  BY <1>1, ReconcileAssumption DEF Executing, Idle, Nobody
<1>3. claim \in [Run -> Claim]
  BY DEF KeysInv, IInv, TypeOK
<1>4. CASE run # mine \/ ~Holds(q, mine)
  <2>1. claim'[run] = claim[run]
    BY <1>1, <1>3, <1>4 DEF Commit, Release, Holds
  <2> QED
    BY <1>1, <1>2, <2>1, Unnoticed
<1>5. CASE run = mine /\ Holds(q, mine)
  <2>1. claim'[run].status \in {"DONE", "FREE"}
    BY <1>1, <1>3, <1>5 DEF Commit, Release, Holds, Claim
  <2>2. Holder(run) = {q} /\ Holder(run)' = {}
    BY <1>5, <2>1 DEF Holder, Executing, Holds
  <2>3. Displaced(run)' = Displaced(run)
    BY <1>1, <1>2, <1>5, <2>1 DEF Displaced, Executing, Holds
  <2>4. TheKey(run)!Record(q)
    BY <2>1, <2>2, <2>3 DEF TheKey!Record, Holder, Displaced
  <2> QED
    BY <2>4 DEF FencedStep, TheKey!Next
<1> QED
  BY <1>4, <1>5

\* A request that goes on stays with its run.
LEMMA RunKept ==
  ASSUME IInv, NEW q \in Request,
         \/ Fetch(q) \/ Update(q) \/ Fails(q)
         \/ \E k \in Key : Lock(q, k) \/ LookUp(q, k)
  PROVE  \E x : /\ request' = [request EXCEPT ![q] = x]
                /\ x.run = request[q].run /\ x.pc # "idle"
<1> DEFINE old == request[q]
<1>1. old \in RequestState
  BY DEF IInv, TypeOK
<1>2. CASE Fetch(q)
  <2>1. PICK b \in Bill :
          request' = [request EXCEPT ![q] = [old EXCEPT
            !.pc = "lock", !.eligible = b.eligible, !.keys = b.keys, !.left = b.keys]]
    BY <1>2 DEF Fetch, IInv, TypeOK
  <2> DEFINE x == [old EXCEPT !.pc = "lock", !.eligible = b.eligible,
                              !.keys = b.keys, !.left = b.keys]
  <2>2. x.run = old.run /\ x.pc # "idle"
    BY <1>1 DEF RequestState
  <2> QED
    BY <2>1, <2>2
<1>3. ASSUME NEW k \in Key, LookUp(q, k)
      PROVE  \E x : /\ request' = [request EXCEPT ![q] = x]
                    /\ x.run = request[q].run /\ x.pc # "idle"
  <2> DEFINE x == [old EXCEPT !.left = old.left \ {k},
                              !.hits = IF OnAnotherBill(old.run, k)
                                       THEN old.hits \cup {k} ELSE old.hits,
                              !.pc = IF old.left = {k} THEN "update" ELSE "look"]
  <2>1. request' = [request EXCEPT ![q] = x]
    BY <1>1, <1>3 DEF LookUp, RequestState
  <2>2. x.run = old.run /\ x.pc # "idle"
    BY <1>1 DEF RequestState
  <2> QED
    BY <2>1, <2>2
<1>4. ASSUME NEW k \in Key, Lock(q, k)
      PROVE  \E x : /\ request' = [request EXCEPT ![q] = x]
                    /\ x.run = request[q].run /\ x.pc # "idle"
  <2> DEFINE left == StillToLock(q, k)
             x == [old EXCEPT !.pc = IF left = {} THEN "look" ELSE "lock",
                              !.left = IF left = {} THEN old.keys ELSE left]
  <2>1. request' = [request EXCEPT ![q] = x]
    BY <1>1, <1>4 DEF Lock, RequestState
  <2>2. x.run = old.run /\ x.pc # "idle"
    BY <1>1 DEF RequestState
  <2> QED
    BY <2>1, <2>2
<1>5. CASE Update(q) \/ Fails(q)
  <2>1. PICK pc \in {"release", "commit"} : GoTo(q, pc)
    BY <1>5 DEF Update, Fails
  <2>2. request' = [request EXCEPT ![q] = [old EXCEPT !.pc = pc]]
    BY <2>1 DEF GoTo
  <2>3. [old EXCEPT !.pc = pc].run = old.run /\ [old EXCEPT !.pc = pc].pc # "idle"
    BY <1>1 DEF RequestState
  <2> QED
    BY <2>2, <2>3
<1> QED
  BY <1>2, <1>3, <1>4, <1>5

LEMMA KeysNext ==
  ASSUME KeysInv, [Next]_vars
  PROVE  KeysInv' /\ \A run \in Run : FencedStep(run)
<1>1. IInv'
  BY NextKeeps DEF KeysInv
<1>2. CASE UNCHANGED vars
  <2>1. UNCHANGED <<claim, request>>
    BY <1>2 DEF vars
  <2>2. \A run \in Run : FencedStep(run)
    BY <2>1 DEF FencedStep, TheKey!vars, Executing, Holds
  <2> QED
    BY <1>1, <2>1, <2>2 DEF KeysInv
<1>3. ASSUME NEW q \in Request, NEW run \in Run, Call(q, run)
      PROVE  KeysInv' /\ \A any \in Run : FencedStep(any)
  <2>1. request'[q].pc # "idle" /\ \A p \in Request \ {q} : request'[p] = request[p]
    BY <1>3 DEF Call, Idle, KeysInv, IInv, TypeOK
  <2> QED
    BY <1>1, <1>3, <2>1, CallClaims DEF KeysInv
<1>4. ASSUME NEW q \in Request, Commit(q) \/ Release(q)
      PROVE  KeysInv' /\ \A run \in Run : FencedStep(run)
  <2>1. request'[q] = Idle /\ \A p \in Request \ {q} : request'[p] = request[p]
    BY <1>4 DEF Commit, Release, KeysInv, IInv, TypeOK
  <2> QED
    BY <1>1, <1>4, <2>1, EndRecords DEF KeysInv, Idle
<1>5. ASSUME NEW q \in Request, Crash(q)
      PROVE  KeysInv' /\ \A run \in Run : FencedStep(run)
  <2>1. /\ request'[q] = Idle /\ UNCHANGED claim
        /\ \A p \in Request \ {q} : request'[p] = request[p]
    BY <1>5 DEF Crash, KeysInv, IInv, TypeOK
  <2>2. \A run \in Run : ~Executing(q, run)'
    BY <2>1, ReconcileAssumption DEF Executing, Idle, Nobody
  <2> QED
    BY <1>1, <2>1, <2>2, Unnoticed DEF KeysInv, Idle
<1>6. ASSUME NEW q \in Request,
             \/ Fetch(q) \/ Update(q) \/ Fails(q)
             \/ \E k \in Key : Lock(q, k) \/ LookUp(q, k)
      PROVE  KeysInv' /\ \A run \in Run : FencedStep(run)
  <2>1. PICK x : /\ request' = [request EXCEPT ![q] = x]
                 /\ x.run = request[q].run /\ x.pc # "idle"
    BY <1>6, RunKept DEF KeysInv
  <2>2. request'[q] = x /\ \A p \in Request \ {q} : request'[p] = request[p]
    BY <2>1 DEF KeysInv, IInv, TypeOK
  <2>3. UNCHANGED claim
    BY <1>6 DEF Fetch, Lock, LookUp, Update, Fails
  <2>4. \A run \in Run : FencedStep(run)
    BY <2>1, <2>2, <2>3, Unnoticed DEF Executing
  <2> QED
    BY <1>1, <2>1, <2>2, <2>4 DEF KeysInv
<1> QED
  BY <1>2, <1>3, <1>4, <1>5, <1>6 DEF Next, Proceed

\* Of requests that reconcile one run, whatever leases run out, one at a time
\* executes its key, and only that one ends it (claim, complete, _release_claim).
THEOREM Fencing == Spec => KeysAreFenced
<1>1. Init => KeysInv /\ \A run \in Run : TheKey(run)!Init
  <2>1. Init => IInv
    BY InitKeeps
  <2>2. Init => \A q \in Request : request[q].run = Nobody
    BY DEF Init, Idle
  <2>3. ASSUME Init, NEW run \in Run PROVE TheKey(run)!Init
    <3>1. \A q \in Request : ~Executing(q, run)
      BY <2>2, <2>3, ReconcileAssumption DEF Executing, Nobody
    <3> QED
      BY <2>3, <3>1 DEF Init, TheKey!Init
  <2> QED
    BY <2>1, <2>2, <2>3 DEF KeysInv
<1>2. KeysInv /\ [Next]_vars =>
        KeysInv' /\ [\A run \in Run : [TheKey(run)!Next]_(TheKey(run)!vars)]_vars
  BY KeysNext DEF FencedStep
<1> QED
  BY <1>1, <1>2, PTL DEF Spec, KeysAreFenced

-----------------------------------------------------------------------------
(* Nobody waits in a circle                                                 *)

Below == {p \in Nat \X Nat : p[1] < p[2]}

LEMMA BelowWellFounded == IsWellFoundedOn(Below, Nat)
BY NatLessThanWellFounded, Zenon DEF OpToRel, Below

LEMMA SmallestOf ==
  ASSUME NEW T, T \subseteq Nat, T # {}
  PROVE  \E m \in T : \A n \in T : m <= n
<1>1. \A m, n \in Nat : m < n => <<m, n>> \in Below
  <2> SUFFICES ASSUME NEW m \in Nat, NEW n \in Nat, m < n PROVE <<m, n>> \in Below
    OBVIOUS
  <2>1. <<m, n>> \in Nat \X Nat /\ <<m, n>>[1] < <<m, n>>[2]
    OBVIOUS
  <2> QED
    BY <2>1, Zenon DEF Below
<1>2. PICK m \in T : \A n \in T : <<n, m>> \notin Below
  BY BelowWellFounded, WFMin, Zenon
<1>3. \A n \in T : ~(n < m)
  BY <1>1, <1>2
<1>4. \A n \in T : m <= n
  BY <1>3
<1> QED
  BY <1>4

\* The keys a waiting request has not got past.
Ahead(q) == {k \in Key : \E j \in Key : Wants(q, j) /\ j <= k}

LEMMA AheadFinite ==
  \A q \in Request : IsFiniteSet(Ahead(q)) /\ Cardinality(Ahead(q)) \in Nat
<1>1. IsFiniteSet(Key)
  BY ReconcileAssumption DEF Key
<1> QED
  BY <1>1, FS_Subset, FS_CardinalityType DEF Ahead

\* The holder of a key waits for a later one only.
LEMMA HolderIsFurther ==
  ASSUME IInv, NEW q \in Request, NEW other \in Request, NEW k \in Key,
         Wants(q, k), lock[k] = other, request[other].pc = "lock"
  PROVE  Cardinality(Ahead(other)) < Cardinality(Ahead(q))
<1>1. k \in Locked(request[other]) /\ Sound(request[other])
  BY DEF IInv, LocksMatch
<1>2. \A j \in request[other].left : k < j
  BY <1>1 DEF Locked, Sound
<1>3. Key \subseteq Nat
  BY ReconcileAssumption DEF Key
<1>4. \A j \in Key : Wants(other, j) => k < j
  BY <1>2 DEF Wants
<1>5. k \in Ahead(q) /\ k \notin Ahead(other)
  BY <1>3, <1>4 DEF Ahead
<1>6. Ahead(other) \subseteq Ahead(q)
  <2> SUFFICES ASSUME NEW h \in Ahead(other) PROVE h \in Ahead(q)
    OBVIOUS
  <2>1. PICK j \in Key : Wants(other, j) /\ j <= h
    BY DEF Ahead
  <2>2. h \in Key /\ k <= h
    BY <2>1, <1>3, <1>4 DEF Ahead
  <2> QED
    BY <2>2 DEF Ahead
<1>7. /\ Cardinality(Ahead(other)) <= Cardinality(Ahead(q))
      /\ Cardinality(Ahead(q)) = Cardinality(Ahead(other)) => Ahead(q) = Ahead(other)
  BY <1>6, AheadFinite, FS_Subset
<1> QED
  BY <1>5, <1>7, AheadFinite

\* No set of requests waits for its own members, for any number of them: locks
\* are taken in sorted order, and the run's row after all of them.
THEOREM NoCircle == Spec => []NoCircularWait
<1>1. IInv => NoCircularWait
  <2> SUFFICES ASSUME IInv, NEW waiting \in SUBSET Request, waiting # {},
                      \A q \in waiting : \E other \in waiting : WaitsFor(q, other)
               PROVE  FALSE
    BY DEF NoCircularWait
  <2>1. \A q \in waiting : request[q].pc \in {"lock", "update"}
    BY DEF WaitsFor
  <2>2. \A q \in waiting : \E other \in waiting :
          \E k \in Key : Wants(q, k) /\ lock[k] = other /\ request[q].pc = "lock"
    BY <2>1 DEF WaitsFor
  <2> DEFINE ranks == {Cardinality(Ahead(q)) : q \in waiting}
  <2>3. ranks \subseteq Nat /\ ranks # {}
    BY AheadFinite
  <2>4. PICK m \in ranks : \A n \in ranks : m <= n
    BY <2>3, SmallestOf
  <2>5. PICK q \in waiting : Cardinality(Ahead(q)) = m
    BY <2>4
  <2>6. PICK other \in waiting : Cardinality(Ahead(other)) < Cardinality(Ahead(q))
    BY <2>2, HolderIsFurther
  <2>7. /\ Cardinality(Ahead(other)) \in ranks
        /\ Cardinality(Ahead(other)) \in Nat /\ Cardinality(Ahead(q)) \in Nat
    BY AheadFinite
  <2> QED
    BY <2>4, <2>5, <2>6, <2>7
<1> QED
  BY <1>1, Inductive, PTL

-----------------------------------------------------------------------------
(* Pairing                                                                   *)

Document == Seq(LineItem)

LEMMA MinIs ==
  ASSUME NEW S, S \subseteq Nat, S # {}
  PROVE  Min(S) \in S /\ \A k \in S : Min(S) <= k
<1>1. \E k \in S : \A l \in S : k =< l
  BY SmallestOf
<1> QED
  BY <1>1 DEF Min

\* No line is in two pairs.
Pairing(bill, order, pairs) ==
  /\ \A p \in pairs : p = <<p[1], p[2]>> /\ p[1] \in DOMAIN bill /\ p[2] \in DOMAIN order
  /\ \A p, q \in pairs : p[1] = q[1] <=> p[2] = q[2]

\* The line of either document that is the only one with a key.
Sole(lines, from, key, k, tier) ==
  /\ k \in from
  /\ \A l \in from : KeyOf(lines[l], tier) = key <=> l = k

Tier(bill, order, pairs, tier) ==
  pairs \cup unique_match(bill, order, UnpairedBill(bill, pairs),
                          UnpairedOrder(order, pairs), tier)

ByItem(bill, order) == Tier(bill, order, {}, "item")

ByText(bill, order) == Tier(bill, order, ByItem(bill, order), "text")

LEMMA Tiers ==
  ASSUME NEW bill, NEW order
  PROVE  pair_lines(bill, order) = Tier(bill, order, ByText(bill, order), "loose")
BY DEF pair_lines, Tier, ByText, ByItem

LEMMA Lines ==
  ASSUME NEW lines \in Document
  PROVE  IsFiniteSet(DOMAIN lines) /\ (lines = <<>> <=> DOMAIN lines = {})
         /\ DOMAIN lines \subseteq Nat /\ \A i \in DOMAIN lines : lines[i] \in LineItem
<1>1. DOMAIN lines = 1 .. Len(lines) /\ Len(lines) \in Nat
  BY DEF Document
<1>2. IsFiniteSet(1 .. Len(lines))
  BY <1>1, FS_Interval
<1>3. lines = <<>> <=> DOMAIN lines = {}
  BY DEF Document
<1> QED
  BY <1>1, <1>2, <1>3 DEF Document

\* What a tier adds, without counting.
LEMMA Matched ==
  ASSUME NEW bill \in Document, NEW order \in Document,
         NEW left \in SUBSET DOMAIN bill, NEW right \in SUBSET DOMAIN order,
         NEW tier, NEW i, NEW j
  PROVE  <<i, j>> \in unique_match(bill, order, left, right, tier) <=>
           /\ KeyOf(bill[i], tier) # None
           /\ Sole(bill, left, KeyOf(bill[i], tier), i, tier)
           /\ Sole(order, right, KeyOf(bill[i], tier), j, tier)
<1> DEFINE Same(lines, from, key) == {k \in from : KeyOf(lines[k], tier) = key}
<1>1. ASSUME NEW lines \in Document, NEW from \in SUBSET DOMAIN lines, NEW key,
             NEW k \in from, KeyOf(lines[k], tier) = key
      PROVE  Cardinality(Same(lines, from, key)) = 1 <=> Sole(lines, from, key, k, tier)
  <2>1. IsFiniteSet(Same(lines, from, key))
    BY Lines, FS_Subset
  <2>2. k \in Same(lines, from, key)
    BY <1>1
  <2>3. (\E x : Same(lines, from, key) = {x}) <=> Same(lines, from, key) = {k}
    BY <2>2
  <2>4. Same(lines, from, key) = {k} <=> Sole(lines, from, key, k, tier)
    BY <1>1 DEF Sole
  <2> QED
    BY <2>1, <2>3, <2>4, FS_Singleton
<1>2. <<i, j>> \in unique_match(bill, order, left, right, tier) <=>
        /\ i \in left /\ j \in right
        /\ KeyOf(bill[i], tier) # None
        /\ KeyOf(order[j], tier) = KeyOf(bill[i], tier)
        /\ Cardinality(Same(bill, left, KeyOf(bill[i], tier))) = 1
        /\ Cardinality(Same(order, right, KeyOf(bill[i], tier))) = 1
  BY DEF unique_match
<1> HIDE DEF Same
<1> QED
  BY <1>1, <1>2 DEF Sole

LEMMA TierKeeps ==
  ASSUME NEW bill \in Document, NEW order \in Document, NEW pairs,
         Pairing(bill, order, pairs), NEW tier
  PROVE  /\ Pairing(bill, order, Tier(bill, order, pairs, tier))
         /\ \A p \in Tier(bill, order, pairs, tier) \ pairs :
              /\ p = <<p[1], p[2]>>
              /\ KeyOf(bill[p[1]], tier) # None
              /\ Sole(bill, UnpairedBill(bill, pairs), KeyOf(bill[p[1]], tier), p[1], tier)
              /\ Sole(order, UnpairedOrder(order, pairs), KeyOf(bill[p[1]], tier), p[2], tier)
<1> DEFINE left == UnpairedBill(bill, pairs)
           right == UnpairedOrder(order, pairs)
           new == unique_match(bill, order, left, right, tier)
<1>1. left \in SUBSET DOMAIN bill /\ right \in SUBSET DOMAIN order
  BY DEF UnpairedBill, UnpairedOrder
<1>2. new \subseteq left \X right
  BY DEF unique_match
<1>3. \A p \in new :
        /\ p = <<p[1], p[2]>>
        /\ KeyOf(bill[p[1]], tier) # None
        /\ Sole(bill, left, KeyOf(bill[p[1]], tier), p[1], tier)
        /\ Sole(order, right, KeyOf(bill[p[1]], tier), p[2], tier)
  <2> SUFFICES ASSUME NEW p \in new
               PROVE  /\ p = <<p[1], p[2]>>
                      /\ KeyOf(bill[p[1]], tier) # None
                      /\ Sole(bill, left, KeyOf(bill[p[1]], tier), p[1], tier)
                      /\ Sole(order, right, KeyOf(bill[p[1]], tier), p[2], tier)
    OBVIOUS
  <2>1. p = <<p[1], p[2]>>
    BY <1>2
  <2>2. <<p[1], p[2]>> \in new
    BY <2>1
  <2> QED
    BY <1>1, <2>1, <2>2, Matched
<1>4. Tier(bill, order, pairs, tier) = pairs \cup new
  BY DEF Tier
<1>5. \A p \in pairs, q \in new : p[1] # q[1] /\ p[2] # q[2]
  BY <1>2 DEF UnpairedBill, UnpairedOrder
<1>6. \A p, q \in new : p[1] = q[1] <=> p[2] = q[2]
  BY <1>3 DEF Sole
<1>7. Pairing(bill, order, pairs \cup new)
  <2> HIDE DEF new
  <2>1. \A p \in new : p = <<p[1], p[2]>> /\ p[1] \in left /\ p[2] \in right
    BY <1>2
  <2> QED
    BY <1>1, <1>5, <1>6, <2>1 DEF Pairing
<1> QED
  BY <1>3, <1>4, <1>7

\* Lines are paired one to one, and a pair names the same goods.
LEMMA PairsAre ==
  ASSUME NEW bill \in Document, NEW order \in Document
  PROVE  /\ Pairing(bill, order, ByItem(bill, order))
         /\ Pairing(bill, order, ByText(bill, order))
         /\ Pairing(bill, order, pair_lines(bill, order))
         /\ \A p \in pair_lines(bill, order) : SameGoods(bill[p[1]], order[p[2]])
<1>1. Pairing(bill, order, {})
  BY DEF Pairing
<1>2. Pairing(bill, order, ByItem(bill, order))
  BY <1>1, TierKeeps DEF ByItem
<1>3. Pairing(bill, order, ByText(bill, order))
  BY <1>2, TierKeeps DEF ByText
<1>4. Pairing(bill, order, pair_lines(bill, order))
  BY <1>3, Tiers, TierKeeps
<1>5. ASSUME NEW pairs, Pairing(bill, order, pairs), NEW tier \in {"item", "text", "loose"},
             NEW p \in Tier(bill, order, pairs, tier) \ pairs
      PROVE  SameGoods(bill[p[1]], order[p[2]])
  <2>1. /\ KeyOf(bill[p[1]], tier) # None
        /\ KeyOf(bill[p[1]], tier) = KeyOf(order[p[2]], tier)
    BY <1>5, TierKeeps DEF Sole
  <2> QED
    BY <2>1 DEF KeyOf, SameGoods
<1>6. \A p \in pair_lines(bill, order) :
        \/ p \in Tier(bill, order, {}, "item") \ {}
        \/ p \in Tier(bill, order, ByItem(bill, order), "text") \ ByItem(bill, order)
        \/ p \in Tier(bill, order, ByText(bill, order), "loose") \ ByText(bill, order)
  BY Tiers DEF ByItem, ByText
<1> QED
  BY <1>1, <1>2, <1>3, <1>4, <1>5, <1>6

-----------------------------------------------------------------------------
(* Comparison                                                                *)

LEMMA LineVariances ==
  ASSUME NEW b \in LineItem, NEW o \in LineItem
  PROVE  Variances(b, o, Tolerance, VarianceCode) =
           (IF within_tolerance(b.quantity, o.quantity, 0) THEN {} ELSE {"QUANTITY_VARIANCE"})
           \cup (IF within_tolerance(b.unit_amount, o.unit_amount, 0) THEN {}
                ELSE {"UNIT_PRICE_VARIANCE"})
           \cup (IF within_tolerance(b.line_amount, o.line_amount, 1) THEN {}
                ELSE {"LINE_AMOUNT_VARIANCE"})
           \cup (IF within_tolerance(b.tax_amount, o.tax_amount, 2) THEN {}
                ELSE {"LINE_TAX_VARIANCE"})
<1>1. DOMAIN Tolerance = {"quantity", "unit_amount", "line_amount", "tax_amount"}
  BY DEF Tolerance
<1>2. /\ Tolerance["quantity"] = 0 /\ Tolerance["unit_amount"] = 0
      /\ Tolerance["line_amount"] = 1 /\ Tolerance["tax_amount"] = 2
  BY DEF Tolerance
<1>3. /\ VarianceCode["quantity"] = "QUANTITY_VARIANCE"
      /\ VarianceCode["unit_amount"] = "UNIT_PRICE_VARIANCE"
      /\ VarianceCode["line_amount"] = "LINE_AMOUNT_VARIANCE"
      /\ VarianceCode["tax_amount"] = "LINE_TAX_VARIANCE"
  BY DEF VarianceCode
<1> QED
  BY <1>1, <1>2, <1>3 DEF Variances

LEMMA TotalVariances ==
  ASSUME NEW b, NEW o
  PROVE  Variances(b, o, TotalTolerance, TotalCode) =
           (IF within_tolerance(b.total, o.total, 5) THEN {} ELSE {"TOTAL_VARIANCE"})
           \cup (IF within_tolerance(b.total_tax, o.total_tax, 2) THEN {} ELSE {"TAX_VARIANCE"})
<1>1. DOMAIN TotalTolerance = {"total", "total_tax"}
  BY DEF TotalTolerance
<1>2. TotalTolerance["total"] = 5 /\ TotalTolerance["total_tax"] = 2
  BY DEF TotalTolerance
<1>3. TotalCode["total"] = "TOTAL_VARIANCE" /\ TotalCode["total_tax"] = "TAX_VARIANCE"
  BY DEF TotalCode
<1> QED
  BY <1>1, <1>2, <1>3 DEF Variances

\* Lines without a quantity, a price or an amount, or that differ in one.
Priced(b, o) ==
  \/ Absent \in {b.quantity, b.unit_amount, b.line_amount, o.line_amount}
  \/ b.quantity # o.quantity \/ b.unit_amount # o.unit_amount
  \/ b.line_amount - o.line_amount \notin -1 .. 1

AccountCodes ==
  {"MISSING_BILL_ACCOUNT_CODE", "INVALID_BILL_ACCOUNT_CODE", "UNKNOWN_BILL_ACCOUNT_CODE",
   "MISSING_PO_ACCOUNT_CODE", "INVALID_PO_ACCOUNT_CODE", "UNKNOWN_PO_ACCOUNT_CODE",
   "ACCOUNT_CODE_MISMATCH"}

LEMMA Accounts ==
  ASSUME NEW b, NEW o
  PROVE  /\ compare_account_codes(b, o) \subseteq AccountCodes
         /\ compare_account_codes(b, o) = {} <=>
              b \in Chart \ (Malformed \cup {None}) /\ b = o
<1> DEFINE FaultIn(account, missing, invalid, unknown) ==
             IF account = None THEN {missing}
             ELSE IF account \in Malformed THEN {invalid}
             ELSE IF account \in Chart THEN {} ELSE {unknown}
           found ==
             FaultIn(b, "MISSING_BILL_ACCOUNT_CODE", "INVALID_BILL_ACCOUNT_CODE",
                   "UNKNOWN_BILL_ACCOUNT_CODE")
             \cup
             FaultIn(o, "MISSING_PO_ACCOUNT_CODE", "INVALID_PO_ACCOUNT_CODE",
                   "UNKNOWN_PO_ACCOUNT_CODE")
<1>1. ASSUME NEW account, NEW missing, NEW invalid, NEW unknown
      PROVE  /\ FaultIn(account, missing, invalid, unknown) \subseteq {missing, invalid, unknown}
             /\ FaultIn(account, missing, invalid, unknown) = {} <=>
                  account \in Chart \ (Malformed \cup {None})
  OBVIOUS
<1>2. compare_account_codes(b, o) =
        IF found = {} /\ b # o THEN {"ACCOUNT_CODE_MISMATCH"} ELSE found
  BY DEF compare_account_codes
<1> HIDE DEF FaultIn
<1>3. found \subseteq AccountCodes
  BY <1>1 DEF AccountCodes
<1>4. found = {} <=> {b, o} \subseteq Chart \ (Malformed \cup {None})
  BY <1>1
<1> HIDE DEF found
<1> QED
  BY <1>2, <1>3, <1>4 DEF AccountCodes

\* What a pair of lines is found to differ in.
LEMMA LineCodes ==
  ASSUME NEW b \in LineItem, NEW o \in LineItem
  PROVE  /\ compare_line(b, o) \subseteq PROCUREMENT \cup FINANCE
         /\ compare_line(b, o) = {} <=> LinesAgree(b, o)
         /\ compare_line(b, o) \cap PROCUREMENT # {} <=> Priced(b, o)
<1> DEFINE q == within_tolerance(b.quantity, o.quantity, 0)
           u == within_tolerance(b.unit_amount, o.unit_amount, 0)
           l == within_tolerance(b.line_amount, o.line_amount, 1)
           t == within_tolerance(b.tax_amount, o.tax_amount, 2)
           tax == TaxTypeCodes(b.tax_type, o.tax_type)
           account == compare_account_codes(b.account, o.account)
<1>1. /\ {b.quantity, b.unit_amount, b.line_amount, b.tax_amount} \subseteq Int
      /\ {o.quantity, o.unit_amount, o.line_amount, o.tax_amount} \subseteq Int
  BY DEF LineItem
<1>2. /\ q <=> b.quantity # Absent /\ b.quantity = o.quantity
      /\ u <=> b.unit_amount # Absent /\ b.unit_amount = o.unit_amount
      /\ l <=> /\ Absent \notin {b.line_amount, o.line_amount}
              /\ o.line_amount \in b.line_amount - 1 .. b.line_amount + 1
      /\ l <=> /\ Absent \notin {b.line_amount, o.line_amount}
              /\ b.line_amount - o.line_amount \in -1 .. 1
      /\ t <=> /\ Absent \notin {b.tax_amount, o.tax_amount}
              /\ o.tax_amount \in b.tax_amount - 2 .. b.tax_amount + 2
  BY <1>1 DEF within_tolerance
<1>3. /\ tax \subseteq {"TAX_TYPE_MISMATCH", "MISSING_TAX_TYPE"}
      /\ tax = {} <=> b.tax_type # None /\ b.tax_type = o.tax_type
  BY DEF TaxTypeCodes
<1>4. /\ account \subseteq AccountCodes
      /\ account = {} <=> b.account \in Chart \ (Malformed \cup {None}) /\ b.account = o.account
  BY Accounts
<1>5. compare_line(b, o) =
        (IF q THEN {} ELSE {"QUANTITY_VARIANCE"})
        \cup (IF u THEN {} ELSE {"UNIT_PRICE_VARIANCE"})
        \cup (IF l THEN {} ELSE {"LINE_AMOUNT_VARIANCE"})
        \cup (IF t THEN {} ELSE {"LINE_TAX_VARIANCE"})
        \cup tax \cup account
  BY LineVariances DEF compare_line
<1> HIDE DEF q, u, l, t, tax, account
<1>6. compare_line(b, o) \subseteq PROCUREMENT \cup FINANCE
  BY <1>3, <1>4, <1>5 DEF PROCUREMENT, FINANCE, AccountCodes
<1>7. compare_line(b, o) = {} <=> q /\ u /\ l /\ t /\ tax = {} /\ account = {}
  BY <1>5
<1>8. compare_line(b, o) \cap PROCUREMENT # {} <=> ~(q /\ u /\ l)
  <2>1. (tax \cup account \cup {"LINE_TAX_VARIANCE"}) \cap PROCUREMENT = {}
    BY <1>3, <1>4 DEF PROCUREMENT, AccountCodes
  <2>2. {"QUANTITY_VARIANCE", "UNIT_PRICE_VARIANCE", "LINE_AMOUNT_VARIANCE"} \subseteq PROCUREMENT
    BY DEF PROCUREMENT
  <2> QED
    BY <1>5, <2>1, <2>2
<1>9. LinesAgree(b, o) <=> q /\ u /\ l /\ t /\ tax = {} /\ account = {}
  BY <1>2, <1>3, <1>4 DEF LinesAgree
<1>10. Priced(b, o) <=> ~(q /\ u /\ l)
  BY <1>2 DEF Priced
<1> QED
  BY <1>6, <1>7, <1>8, <1>9, <1>10

-----------------------------------------------------------------------------
(* The decision                                                              *)

Eligible(bill, head) ==
  /\ head.bill.failed = {} /\ bill # <<>>
  /\ FALSE \notin Range(head.lookup)
  /\ head.bill.supplier = head.order.supplier

AllPaired(bill, order) ==
  LET pairs == pair_lines(bill, order)
  IN  UnpairedBill(bill, pairs) \cup UnpairedOrder(order, pairs) = {}

PairCodes(bill, order) ==
  UNION {compare_line(bill[p[1]], order[p[2]]) : p \in pair_lines(bill, order)}

\* Every exception of two comparable documents.
Found(bill, order, head) ==
  Plain(head.duplicates)
    \cup ResidualComparison(bill, order, pair_lines(bill, order)).exceptions
    \cup UnpairedCodes(bill, order, pair_lines(bill, order))
    \cup Plain(PairCodes(bill, order))
    \cup Plain(Variances(head.bill, head.order, TotalTolerance, TotalCode))
    \cup Plain(IF head.bill.currency # head.order.currency THEN CURRENCY ELSE {})

LEMMA HeadIs ==
  ASSUME NEW head \in Heading
  PROVE  /\ head.bill.failed \subseteq Range(UnprocessableReason)
         /\ head.duplicates \subseteq DUPLICATE
         /\ {head.bill.total, head.bill.total_tax, head.order.total, head.order.total_tax}
              \subseteq Int
         /\ DOMAIN head.lookup = {"reference", "found", "listed", "eligible"}
         /\ {head.lookup.reference, head.lookup.found, head.lookup.listed, head.lookup.eligible}
              \subseteq BOOLEAN
<1>1. /\ head.bill \in [failed: SUBSET Range(UnprocessableReason), supplier: STRING,
                        currency: STRING, total: Int, total_tax: Int]
      /\ head.order \in [supplier: STRING, currency: STRING, total: Int, total_tax: Int]
      /\ head.lookup \in [reference: BOOLEAN, found: BOOLEAN, listed: BOOLEAN, eligible: BOOLEAN]
      /\ head.duplicates \in SUBSET DUPLICATE
  BY DEF Heading
<1>2. head.bill.failed \subseteq Range(UnprocessableReason)
  BY <1>1
<1>3. {head.bill.total, head.bill.total_tax, head.order.total, head.order.total_tax} \subseteq Int
  BY <1>1
<1>4. DOMAIN head.lookup = {"reference", "found", "listed", "eligible"}
  BY <1>1
<1>5. {head.lookup.reference, head.lookup.found, head.lookup.listed, head.lookup.eligible}
        \subseteq BOOLEAN
  BY <1>1
<1> QED
  BY <1>1, <1>2, <1>3, <1>4, <1>5

LEMMA Plains ==
  ASSUME NEW codes
  PROVE  /\ Plain(codes) = {} <=> codes = {}
         /\ \A e \in Plain(codes) : e.code \in codes /\ e.residual = FALSE
         /\ \A c \in codes : [code |-> c, residual |-> FALSE] \in Plain(codes)
<1>1. \A e \in Plain(codes) : \E c \in codes : e = [code |-> c, residual |-> FALSE]
  BY DEF Plain
<1>2. \A c \in codes : [code |-> c, residual |-> FALSE] \in Plain(codes)
  BY DEF Plain
<1>3. \A e \in Plain(codes) : e.code \in codes /\ e.residual = FALSE
  BY <1>1
<1>4. Plain(codes) = {} <=> codes = {}
  BY <1>1, <1>2, Zenon
<1> QED
  BY <1>2, <1>3, <1>4

LEMMA BillEligible ==
  ASSUME NEW head \in Heading, NEW bill \in Document
  PROVE  /\ check_bill_eligibility(head.bill, bill) = None <=>
              head.bill.failed = {} /\ bill # <<>>
         /\ check_bill_eligibility(head.bill, bill) \in Range(UnprocessableReason) \cup {None}
<1> DEFINE failed == head.bill.failed \cup (IF bill = <<>> THEN {"CONTRACT_INVALID"} ELSE {})
           places == {n \in DOMAIN UnprocessableReason : UnprocessableReason[n] \in failed}
<1>1. /\ DOMAIN UnprocessableReason = 1 .. 4
      /\ UnprocessableReason[1] = "NOT_A_SUPPLIER_BILL"
      /\ UnprocessableReason[2] = "BILL_STATUS_NOT_ELIGIBLE"
      /\ UnprocessableReason[3] = "CONTRACT_INVALID"
      /\ UnprocessableReason[4] = "MISSING_INVOICE_NUMBER"
  BY DEF UnprocessableReason
<1>2. /\ Range(UnprocessableReason) = {UnprocessableReason[n] : n \in 1 .. 4}
      /\ None \notin Range(UnprocessableReason)
  <2>1. Range(UnprocessableReason) = {UnprocessableReason[n] : n \in 1 .. 4}
    BY <1>1, Zenon DEF Range
  <2>2. \A n \in 1 .. 4 : UnprocessableReason[n] # None
    <3>1. \A n \in 1 .. 4 : n = 1 \/ n = 2 \/ n = 3 \/ n = 4
      OBVIOUS
    <3> QED
      BY <1>1, <3>1 DEF None
  <2> QED
    BY <2>1, <2>2
<1>3. failed \subseteq Range(UnprocessableReason)
  BY <1>1, <1>2, HeadIs
<1>4. check_bill_eligibility(head.bill, bill) =
        IF failed = {} THEN None ELSE UnprocessableReason[Min(places)]
  BY DEF check_bill_eligibility
<1>5. failed = {} <=> head.bill.failed = {} /\ bill # <<>>
  OBVIOUS
<1> HIDE DEF failed
<1>6. ASSUME failed # {} PROVE Min(places) \in 1 .. 4
  <2>1. \E n \in 1 .. 4 : n \in places
    BY <1>1, <1>2, <1>3, <1>6
  <2>2. \A n \in places : n \in 1 .. 4
    BY <1>1
  <2> HIDE DEF places
  <2>3. places \subseteq Nat /\ places # {}
    BY <2>1, <2>2
  <2>4. Min(places) \in places
    BY <2>3, MinIs
  <2> QED
    BY <2>2, <2>4, Zenon
<1> HIDE DEF places
<1> QED
  BY <1>2, <1>4, <1>5, <1>6

LEMMA OrderEligible ==
  ASSUME NEW head \in Heading
  PROVE  /\ check_po_eligibility(head.lookup) = {} <=> FALSE \notin Range(head.lookup)
         /\ check_po_eligibility(head.lookup) \subseteq PROCUREMENT
<1>1. Range(head.lookup) = {head.lookup.reference, head.lookup.found, head.lookup.listed,
                            head.lookup.eligible}
  BY HeadIs DEF Range
<1> QED
  BY <1>1, HeadIs DEF check_po_eligibility, PROCUREMENT

LEMMA Finalised ==
  ASSUME NEW exceptions, NEW enabled, NEW gate
  PROVE  LET answer == finalise(exceptions, enabled, gate)
             blocked == exceptions \cap SEMANTIC_BLOCKING_CODES # {}
         IN  /\ exceptions = {} => answer = Silent("MATCHED", None)
             /\ exceptions # {} =>
                  /\ answer.outcome = "REVIEW_REQUIRED"
                  /\ answer.destination = route(exceptions)
                  /\ answer.permitted <=> ~blocked /\ gate = "RESIDUAL_PAIR_TEXT_ONLY"
BY DEF finalise

LEMMA SilentIs ==
  ASSUME NEW outcome, NEW reason
  PROVE  /\ Silent(outcome, reason).outcome = outcome
         /\ Silent(outcome, reason).permitted = FALSE
BY DEF Silent

\* What the call comes to.
LEMMA Reconciled ==
  ASSUME NEW bill \in Document, NEW order \in Document, NEW head \in Heading
  PROVE  LET answer == reconcile(bill, order, head)
         IN  /\ Eligible(bill, head) =>
                  answer = finalise(Found(bill, order, head), head.enabled,
                             ResidualComparison(bill, order, pair_lines(bill, order)).gate)
             /\ ~Eligible(bill, head) =>
                  \/ answer = Silent("UNPROCESSABLE", check_bill_eligibility(head.bill, bill))
                  \/ \E codes \in (SUBSET PROCUREMENT) \ {{}} :
                       answer = finalise(Plain(head.duplicates) \cup Plain(codes), head.enabled,
                                         "NO_RESIDUAL_PAIR")
<1> DEFINE reason == check_bill_eligibility(head.bill, bill)
           problem == check_po_eligibility(head.lookup)
<1>1. reconcile(bill, order, head) =
        IF reason # None THEN Silent("UNPROCESSABLE", reason)
        ELSE IF problem # {}
        THEN finalise(Plain(head.duplicates) \cup Plain(problem), head.enabled, "NO_RESIDUAL_PAIR")
        ELSE IF head.bill.supplier # head.order.supplier
        THEN finalise(Plain(head.duplicates) \cup Plain({"SUPPLIER_MISMATCH"}), head.enabled,
                      "NO_RESIDUAL_PAIR")
        ELSE CompareDocuments(bill, order, head, Plain(head.duplicates))
  BY DEF reconcile
<1>2. CompareDocuments(bill, order, head, Plain(head.duplicates)) =
        finalise(Found(bill, order, head), head.enabled,
                 ResidualComparison(bill, order, pair_lines(bill, order)).gate)
  BY DEF CompareDocuments, Found, PairCodes
<1>3. problem \in SUBSET PROCUREMENT /\ {"SUPPLIER_MISMATCH"} \in (SUBSET PROCUREMENT) \ {{}}
  BY OrderEligible DEF PROCUREMENT
<1>4. Eligible(bill, head) <=>
        /\ reason = None /\ problem = {} /\ head.bill.supplier = head.order.supplier
  BY BillEligible, OrderEligible DEF Eligible
<1> HIDE DEF reason, problem
<1>5. CASE Eligible(bill, head)
  BY <1>1, <1>2, <1>4, <1>5 DEF reason, problem
<1>6. CASE ~Eligible(bill, head)
  <2>1. CASE reason # None
    BY <1>1, <1>6, <2>1 DEF reason
  <2>2. CASE reason = None /\ problem # {}
    BY <1>1, <1>3, <1>6, <2>2 DEF reason
  <2>3. CASE reason = None /\ problem = {}
    BY <1>1, <1>3, <1>4, <1>6, <2>3 DEF reason
  <2> QED
    BY <2>1, <2>2, <2>3
<1> QED
  BY <1>5, <1>6

\* What it comes to where the lines are not compared.
LEMMA Stopped ==
  ASSUME NEW bill \in Document, NEW order \in Document, NEW head \in Heading,
         ~Eligible(bill, head)
  PROVE  \/ reconcile(bill, order, head) =
              Silent("UNPROCESSABLE", check_bill_eligibility(head.bill, bill))
         \/ \E codes \in (SUBSET PROCUREMENT) \ {{}} :
              reconcile(bill, order, head) =
                finalise(Plain(head.duplicates) \cup Plain(codes), head.enabled,
                         "NO_RESIDUAL_PAIR")
BY Reconciled

LEMMA Several ==
  ASSUME NEW S, IsFiniteSet(S)
  PROVE  /\ Cardinality(S) > 1 <=> \E k, l \in S : k # l
         /\ S # {} /\ ~(Cardinality(S) > 1) => \E k : S = {k}
<1>1. Cardinality(S) \in Nat
  BY FS_CardinalityType
<1>2. Cardinality(S) = 0 <=> S = {}
  BY FS_EmptySet
<1>3. Cardinality(S) = 1 <=> \E k : S = {k}
  BY FS_Singleton
<1>4. Cardinality(S) > 1 <=> S # {} /\ ~\E k : S = {k}
  BY <1>1, <1>2, <1>3
<1>5. (\E k, l \in S : k # l) <=> S # {} /\ ~\E k : S = {k}
  OBVIOUS
<1> QED
  BY <1>4, <1>5

\* What the lines without a pair say.
LEMMA ResidualIs ==
  ASSUME NEW bill \in Document, NEW order \in Document
  PROVE  LET pairs == pair_lines(bill, order)
             left == UnpairedBill(bill, pairs)
             right == UnpairedOrder(order, pairs)
             residual == ResidualComparison(bill, order, pairs)
         IN  \/ /\ (\E k, l \in left : k # l) \/ (\E k, l \in right : k # l)
                /\ residual.exceptions = Plain({"AMBIGUOUS_MULTIPLE_CANDIDATES"})
                /\ residual.gate = "MULTIPLE_RESIDUAL_CANDIDATES"
             \/ /\ left = {} \/ right = {}
                /\ ~(\E k, l \in left : k # l) /\ ~(\E k, l \in right : k # l)
                /\ residual.exceptions = {}
                /\ residual.gate = "NO_RESIDUAL_PAIR"
             \/ \E i \in DOMAIN bill, j \in DOMAIN order :
                  /\ left = {i} /\ right = {j}
                  /\ residual.exceptions =
                       {[code |-> c, residual |-> TRUE] : c \in compare_line(bill[i], order[j])}
                  /\ residual.gate =
                       IF compare_line(bill[i], order[j]) # {}
                       THEN "RESIDUAL_PAIR_DETERMINISTIC_MISMATCH"
                       ELSE IF DescriptionsInBounds(bill[i], order[j])
                            THEN "RESIDUAL_PAIR_TEXT_ONLY"
                            ELSE "RESIDUAL_DESCRIPTION_OUT_OF_BOUNDS"
<1> DEFINE pairs == pair_lines(bill, order)
           left == UnpairedBill(bill, pairs)
           right == UnpairedOrder(order, pairs)
           residual == ResidualComparison(bill, order, pairs)
<1>1. left \in SUBSET DOMAIN bill /\ right \in SUBSET DOMAIN order
  BY DEF UnpairedBill, UnpairedOrder
<1>2. IsFiniteSet(left) /\ IsFiniteSet(right)
  BY <1>1, Lines, FS_Subset
<1>3. CASE Cardinality(left) > 1 \/ Cardinality(right) > 1
  <2>1. residual = [gate |-> "MULTIPLE_RESIDUAL_CANDIDATES",
                    exceptions |-> Plain({"AMBIGUOUS_MULTIPLE_CANDIDATES"})]
    BY <1>3 DEF ResidualComparison
  <2>2. (\E k, l \in left : k # l) \/ (\E k, l \in right : k # l)
    BY <1>2, <1>3, Several
  <2> QED
    BY <2>1, <2>2
<1>4. CASE ~(Cardinality(left) > 1 \/ Cardinality(right) > 1) /\ (left = {} \/ right = {})
  <2>1. residual = [gate |-> "NO_RESIDUAL_PAIR", exceptions |-> {}]
    BY <1>4 DEF ResidualComparison
  <2>2. ~(\E k, l \in left : k # l) /\ ~(\E k, l \in right : k # l)
    BY <1>2, <1>4, Several
  <2> QED
    BY <1>4, <2>1, <2>2
<1>5. CASE ~(Cardinality(left) > 1 \/ Cardinality(right) > 1) /\ left # {} /\ right # {}
  <2>1. PICK i, j : left = {i} /\ right = {j}
    BY <1>2, <1>5, Several
  <2>2. i \in DOMAIN bill /\ j \in DOMAIN order /\ i \in Nat /\ j \in Nat
    BY <1>1, <2>1, Lines
  <2>3. Min(left) = i /\ Min(right) = j
    <3>1. Min({i}) \in {i} /\ Min({j}) \in {j}
      BY <2>2, MinIs
    <3> QED
      BY <2>1, <3>1
  <2>4. residual =
          [exceptions |-> {[code |-> c, residual |-> TRUE] : c \in compare_line(bill[i], order[j])},
           gate |-> IF compare_line(bill[i], order[j]) # {}
                    THEN "RESIDUAL_PAIR_DETERMINISTIC_MISMATCH"
                    ELSE IF DescriptionsInBounds(bill[i], order[j]) THEN "RESIDUAL_PAIR_TEXT_ONLY"
                    ELSE "RESIDUAL_DESCRIPTION_OUT_OF_BOUNDS"]
    BY <1>5, <2>3 DEF ResidualComparison
  <2> QED
    BY <2>1, <2>2, <2>4
<1> QED
  BY <1>3, <1>4, <1>5

LEMMA PairTypes ==
  ASSUME NEW bill \in Document, NEW order \in Document, NEW p \in pair_lines(bill, order)
  PROVE  /\ p = <<p[1], p[2]>> /\ p[1] \in DOMAIN bill /\ p[2] \in DOMAIN order
         /\ bill[p[1]] \in LineItem /\ order[p[2]] \in LineItem
BY PairsAre, Lines DEF Pairing

LEMMA TotalsAgree ==
  ASSUME NEW head \in Heading
  PROVE  Variances(head.bill, head.order, TotalTolerance, TotalCode) = {} <=>
           /\ Absent \notin {head.bill.total, head.bill.total_tax}
           /\ Absent \notin {head.order.total, head.order.total_tax}
           /\ head.order.total \in head.bill.total - 5 .. head.bill.total + 5
           /\ head.order.total_tax \in head.bill.total_tax - 2 .. head.bill.total_tax + 2
<1>1. {head.bill.total, head.bill.total_tax, head.order.total, head.order.total_tax} \subseteq Int
  BY HeadIs
<1>2. within_tolerance(head.bill.total, head.order.total, 5) <=>
        /\ Absent \notin {head.bill.total, head.order.total}
        /\ head.order.total \in head.bill.total - 5 .. head.bill.total + 5
  BY <1>1 DEF within_tolerance
<1>3. within_tolerance(head.bill.total_tax, head.order.total_tax, 2) <=>
        /\ Absent \notin {head.bill.total_tax, head.order.total_tax}
        /\ head.order.total_tax \in head.bill.total_tax - 2 .. head.bill.total_tax + 2
  BY <1>1 DEF within_tolerance
<1>4. Variances(head.bill, head.order, TotalTolerance, TotalCode) = {} <=>
        /\ within_tolerance(head.bill.total, head.order.total, 5)
        /\ within_tolerance(head.bill.total_tax, head.order.total_tax, 2)
  BY TotalVariances
<1> QED
  BY <1>2, <1>3, <1>4

\* Nothing is found exactly where the documents agree.
LEMMA FoundNothing ==
  ASSUME NEW bill \in Document, NEW order \in Document, NEW head \in Heading
  PROVE  Found(bill, order, head) = {} <=>
           /\ head.duplicates = {}
           /\ head.bill.currency = head.order.currency
           /\ Variances(head.bill, head.order, TotalTolerance, TotalCode) = {}
           /\ AllPaired(bill, order)
           /\ \A p \in pair_lines(bill, order) : LinesAgree(bill[p[1]], order[p[2]])
<1> DEFINE pairs == pair_lines(bill, order)
<1>1. Plain(head.duplicates) = {} <=> head.duplicates = {}
  BY Plains
<1>2. Plain(PairCodes(bill, order)) = {} <=>
        \A p \in pairs : LinesAgree(bill[p[1]], order[p[2]])
  <2>1. Plain(PairCodes(bill, order)) = {} <=> PairCodes(bill, order) = {}
    BY Plains
  <2>2. PairCodes(bill, order) = {} <=>
          \A p \in pairs : compare_line(bill[p[1]], order[p[2]]) = {}
    BY DEF PairCodes
  <2>3. \A p \in pairs : compare_line(bill[p[1]], order[p[2]]) = {} <=>
          LinesAgree(bill[p[1]], order[p[2]])
    BY PairTypes, LineCodes
  <2> QED
    BY <2>1, <2>2, <2>3
<1>3. Plain(Variances(head.bill, head.order, TotalTolerance, TotalCode)) = {} <=>
        Variances(head.bill, head.order, TotalTolerance, TotalCode) = {}
  BY Plains
<1>4. Plain(IF head.bill.currency # head.order.currency THEN CURRENCY ELSE {}) = {} <=>
        head.bill.currency = head.order.currency
  BY Plains DEF CURRENCY
<1>5. UnpairedCodes(bill, order, pairs) = {} <=> AllPaired(bill, order)
  <2> DEFINE codes == {"UNPAIRED_LINE"}
               \cup IF Len(bill) # Len(order) THEN {"LINE_COUNT_MISMATCH"} ELSE {}
  <2>1. UnpairedCodes(bill, order, pairs) = IF AllPaired(bill, order) THEN {} ELSE Plain(codes)
    BY DEF UnpairedCodes, AllPaired
  <2>2. codes # {}
    OBVIOUS
  <2> HIDE DEF codes
  <2> QED
    BY <2>1, <2>2, Plains
<1>6. AllPaired(bill, order) => ResidualComparison(bill, order, pairs).exceptions = {}
  BY ResidualIs DEF AllPaired
<1> HIDE DEF pairs
<1> QED
  BY <1>1, <1>2, <1>3, <1>4, <1>5, <1>6 DEF Found, pairs

-----------------------------------------------------------------------------
(* What the engine guarantees                                                *)

\* The call has not been made, or has been answered.
EngineInv ==
  /\ input \in Input
  /\ decision \in {NotCalled, reconcile(input.bill, input.order, input.head)}

LEMMA Answered == EngineSpec => []EngineInv
<1>1. Called => EngineInv
  BY DEF Called, EngineInv
<1>2. EngineInv /\ [Decide]_call => EngineInv'
  BY DEF EngineInv, Decide, call
<1> QED
  BY <1>1, <1>2, PTL DEF EngineSpec

LEMMA InputIs ==
  ASSUME EngineInv
  PROVE  input.bill \in Document /\ input.order \in Document /\ input.head \in Heading
BY EngineAssumption DEF EngineInv, Document

LEMMA NotCalledIs == NotCalled.outcome = "NOT_CALLED" /\ NotCalled.permitted = FALSE
BY SilentIs DEF NotCalled

LEMMA MatchedIs ==
  ASSUME NEW bill \in Document, NEW order \in Document, NEW head \in Heading
  PROVE  reconcile(bill, order, head).outcome = "MATCHED" <=>
           Eligible(bill, head) /\ Found(bill, order, head) = {}
<1>1. ASSUME NEW exceptions, NEW enabled, NEW gate
      PROVE  finalise(exceptions, enabled, gate).outcome = "MATCHED" <=> exceptions = {}
  <2>1. CASE exceptions = {}
    <3>1. finalise(exceptions, enabled, gate) = Silent("MATCHED", None)
      BY <2>1, Finalised
    <3> QED
      BY <2>1, <3>1, SilentIs
  <2>2. CASE exceptions # {}
    BY <2>2, Finalised
  <2> QED
    BY <2>1, <2>2
<1>2. CASE Eligible(bill, head)
  BY <1>1, <1>2, Reconciled
<1>3. CASE ~Eligible(bill, head)
  <2>1. ASSUME NEW codes, codes # {} PROVE Plain(head.duplicates) \cup Plain(codes) # {}
    <3>1. Plain(codes) # {}
      BY <2>1, Plains
    <3> QED
      BY <3>1
  <2>2. Silent("UNPROCESSABLE", check_bill_eligibility(head.bill, bill)).outcome # "MATCHED"
    BY DEF Silent
  <2>3. \A codes \in (SUBSET PROCUREMENT) \ {{}} :
          finalise(Plain(head.duplicates) \cup Plain(codes), head.enabled,
                   "NO_RESIDUAL_PAIR").outcome # "MATCHED"
    <3> SUFFICES ASSUME NEW codes \in (SUBSET PROCUREMENT) \ {{}}
                 PROVE  finalise(Plain(head.duplicates) \cup Plain(codes), head.enabled,
                                 "NO_RESIDUAL_PAIR").outcome # "MATCHED"
      OBVIOUS
    <3>1. Plain(head.duplicates) \cup Plain(codes) # {}
      BY <2>1
    <3> QED
      BY <1>1, <3>1
  <2>4. \/ reconcile(bill, order, head) =
             Silent("UNPROCESSABLE", check_bill_eligibility(head.bill, bill))
        \/ \E codes \in (SUBSET PROCUREMENT) \ {{}} :
             reconcile(bill, order, head) =
               finalise(Plain(head.duplicates) \cup Plain(codes), head.enabled, "NO_RESIDUAL_PAIR")
    BY <1>3, Stopped, Zenon
  <2>5. reconcile(bill, order, head).outcome # "MATCHED"
    BY <2>2, <2>3, <2>4
  <2> QED
    BY <1>3, <2>5
<1> QED
  BY <1>2, <1>3

LEMMA PairsMap ==
  ASSUME NEW bill \in Document, NEW order \in Document, AllPaired(bill, order)
  PROVE  \E f \in Bijection(DOMAIN bill, DOMAIN order) :
           \A i \in DOMAIN bill : <<i, f[i]>> \in pair_lines(bill, order)
<1> DEFINE pairs == pair_lines(bill, order)
           f == [i \in DOMAIN bill |-> CHOOSE j \in DOMAIN order : <<i, j>> \in pairs]
<1>1. /\ \A p \in pairs : p = <<p[1], p[2]>> /\ p[1] \in DOMAIN bill /\ p[2] \in DOMAIN order
      /\ \A p, q \in pairs : p[1] = q[1] <=> p[2] = q[2]
  BY PairsAre DEF Pairing
<1>2. /\ \A i \in DOMAIN bill : \E p \in pairs : p[1] = i
      /\ \A j \in DOMAIN order : \E p \in pairs : p[2] = j
  BY DEF AllPaired, UnpairedBill, UnpairedOrder
<1> HIDE DEF pairs
<1>3. ASSUME NEW i \in DOMAIN bill PROVE f[i] \in DOMAIN order /\ <<i, f[i]>> \in pairs
  <2>1. \E j \in DOMAIN order : <<i, j>> \in pairs
    BY <1>1, <1>2
  <2> QED
    BY <2>1
<1>4. f \in [DOMAIN bill -> DOMAIN order]
  BY <1>3
<1> HIDE DEF f
<1>5. \A i, k \in DOMAIN bill : f[i] = f[k] => i = k
  <2> SUFFICES ASSUME NEW i \in DOMAIN bill, NEW k \in DOMAIN bill, f[i] = f[k] PROVE i = k
    OBVIOUS
  <2> DEFINE p == <<i, f[i]>>
             q == <<k, f[k]>>
  <2>1. p \in pairs /\ q \in pairs /\ p[2] = q[2] /\ p[1] = i /\ q[1] = k
    BY <1>3
  <2> QED
    BY <1>1, <2>1
<1>6. \A j \in DOMAIN order : \E i \in DOMAIN bill : f[i] = j
  <2> SUFFICES ASSUME NEW j \in DOMAIN order PROVE \E i \in DOMAIN bill : f[i] = j
    OBVIOUS
  <2>1. PICK p \in pairs : p[2] = j
    BY <1>2
  <2> DEFINE q == <<p[1], f[p[1]]>>
  <2>2. p[1] \in DOMAIN bill /\ q \in pairs /\ q[1] = p[1] /\ q[2] = f[p[1]]
    BY <1>1, <1>3
  <2> HIDE DEF q
  <2> QED
    BY <1>1, <2>1, <2>2
<1>7. f \in Bijection(DOMAIN bill, DOMAIN order)
  BY <1>4, <1>5, <1>6 DEF Bijection, Injection, Surjection, IsInjective
<1> QED
  BY <1>3, <1>7 DEF pairs

\* A bill is matched in silence only where its lines and the order's agree one
\* to one, under headings that agree (pair_lines, compare_line, _finalise).
THEOREM SilenceMeansAgreement == EngineSpec => []MatchedMeansAgreement
<1>1. ASSUME EngineInv PROVE MatchedMeansAgreement
  <2> DEFINE bill == input.bill
             order == input.order
             head == input.head
  <2> SUFFICES ASSUME decision.outcome = "MATCHED"
               PROVE  /\ HeadsAgree(head)
                      /\ \E f \in Bijection(DOMAIN bill, DOMAIN order) :
                           \A i \in DOMAIN f :
                             SameGoods(bill[i], order[f[i]]) /\ LinesAgree(bill[i], order[f[i]])
    BY DEF MatchedMeansAgreement
  <2>1. bill \in Document /\ order \in Document /\ head \in Heading
    BY <1>1, InputIs
  <2>2. reconcile(bill, order, head).outcome = "MATCHED"
    BY <1>1, NotCalledIs DEF EngineInv
  <2>3. Eligible(bill, head) /\ Found(bill, order, head) = {}
    BY <2>1, <2>2, MatchedIs
  <2>4. HeadsAgree(head)
    BY <2>1, <2>3, FoundNothing, TotalsAgree DEF HeadsAgree, Comparable, Eligible
  <2>5. PICK f \in Bijection(DOMAIN bill, DOMAIN order) :
          \A i \in DOMAIN bill : <<i, f[i]>> \in pair_lines(bill, order)
    BY <2>1, <2>3, FoundNothing, PairsMap
  <2>6. DOMAIN f = DOMAIN bill
    BY DEF Bijection, Injection
  <2>7. ASSUME NEW i \in DOMAIN f
        PROVE  SameGoods(bill[i], order[f[i]]) /\ LinesAgree(bill[i], order[f[i]])
    <3> DEFINE p == <<i, f[i]>>
    <3>1. p \in pair_lines(bill, order) /\ p[1] = i /\ p[2] = f[i]
      BY <2>5, <2>6
    <3>2. SameGoods(bill[p[1]], order[p[2]])
      BY <2>1, <3>1, PairsAre
    <3>3. LinesAgree(bill[p[1]], order[p[2]])
      BY <2>1, <2>3, <3>1, FoundNothing
    <3> QED
      BY <3>1, <3>2, <3>3
  <2> QED
    BY <2>4, <2>7
<1> QED
  BY <1>1, Answered, PTL

-----------------------------------------------------------------------------
(* Routing                                                                   *)

CodesOf(exceptions) == {e.code : e \in exceptions}

LEMMA PlainCodes ==
  ASSUME NEW codes
  PROVE  CodesOf(Plain(codes)) = codes
<1>1. \A c \in CodesOf(Plain(codes)) : \E e \in Plain(codes) : c = e.code
  BY DEF CodesOf
<1>2. \A e \in Plain(codes) : e.code \in CodesOf(Plain(codes))
  BY DEF CodesOf
<1>3. \A c \in codes : c \in CodesOf(Plain(codes))
  <2> SUFFICES ASSUME NEW c \in codes PROVE c \in CodesOf(Plain(codes))
    OBVIOUS
  <2> DEFINE e == [code |-> c, residual |-> FALSE]
  <2>1. e \in Plain(codes) /\ e.code = c
    BY Plains
  <2> QED
    BY <1>2, <2>1
<1>4. \A c \in CodesOf(Plain(codes)) : c \in codes
  <2>1. \A e \in Plain(codes) : e.code \in codes
    BY Plains
  <2> QED
    BY <1>1, <2>1, Zenon
<1> QED
  BY <1>3, <1>4

LEMMA RouteIs ==
  ASSUME NEW exceptions
  PROVE  LET codes == CodesOf(exceptions)
         IN  /\ codes \cap DUPLICATE # {} => route(exceptions) = "DUPLICATE_REVIEW"
             /\ codes \cap DUPLICATE = {} =>
                  /\ codes \cap CURRENCY # {} => route(exceptions) = "FINANCE"
                  /\ codes \cap CURRENCY = {} /\ codes \cap PROCUREMENT # {} =>
                       route(exceptions) = "PROCUREMENT"
                  /\ codes \cap (CURRENCY \cup PROCUREMENT) = {} /\ codes \cap FINANCE # {} =>
                       route(exceptions) = "FINANCE"
<1> DEFINE codes == CodesOf(exceptions)
<1>1. route(exceptions) =
        IF codes \cap DUPLICATE # {} THEN "DUPLICATE_REVIEW"
        ELSE IF codes \cap CURRENCY # {} THEN "FINANCE"
        ELSE IF codes \cap PROCUREMENT # {} THEN "PROCUREMENT"
        ELSE IF codes \cap FINANCE # {} THEN "FINANCE"
        ELSE IF codes \cap AP_REVIEW # {} THEN "AP_REVIEW"
        ELSE IF "TOTAL_VARIANCE" \in codes THEN "PROCUREMENT" ELSE "FINANCE"
  BY DEF route, CodesOf
<1> HIDE DEF codes
<1> QED
  BY <1>1 DEF codes

\* Where each code found comes from.
LEMMA FoundCodes ==
  ASSUME NEW bill \in Document, NEW order \in Document, NEW head \in Heading
  PROVE  \E lines, totals :
           /\ CodesOf(Found(bill, order, head)) =
                head.duplicates \cup lines \cup PairCodes(bill, order) \cup totals
                  \cup (IF head.bill.currency # head.order.currency THEN CURRENCY ELSE {})
           /\ totals \subseteq AGGREGATE
           /\ lines \subseteq AP_REVIEW \cup PROCUREMENT \cup FINANCE
           /\ AllPaired(bill, order) => lines = {}
<1> DEFINE pairs == pair_lines(bill, order)
           residual == ResidualComparison(bill, order, pairs).exceptions
           unpaired == UnpairedCodes(bill, order, pairs)
           totals == Variances(head.bill, head.order, TotalTolerance, TotalCode)
           currency == IF head.bill.currency # head.order.currency THEN CURRENCY ELSE {}
           lines == CodesOf(residual) \cup CodesOf(unpaired)
<1>1. totals \subseteq AGGREGATE
  BY TotalVariances DEF AGGREGATE
<1>2. CodesOf(unpaired) \subseteq AP_REVIEW
  <2>1. unpaired = {} \/ \E codes \in SUBSET AP_REVIEW : unpaired = Plain(codes)
    BY DEF UnpairedCodes, AP_REVIEW
  <2>2. CodesOf({}) \subseteq AP_REVIEW
    BY DEF CodesOf
  <2> QED
    BY <2>1, <2>2, PlainCodes
<1>3. CodesOf(residual) \subseteq AP_REVIEW \cup PROCUREMENT \cup FINANCE
  <2>1. CASE residual = Plain({"AMBIGUOUS_MULTIPLE_CANDIDATES"})
    <3>1. CodesOf(residual) = {"AMBIGUOUS_MULTIPLE_CANDIDATES"}
      BY <2>1, PlainCodes
    <3> QED
      BY <3>1 DEF AP_REVIEW
  <2>2. CASE residual = {}
    BY <2>2 DEF CodesOf
  <2>3. ASSUME NEW i \in DOMAIN bill, NEW j \in DOMAIN order,
               residual = {[code |-> c, residual |-> TRUE] : c \in compare_line(bill[i], order[j])}
        PROVE  CodesOf(residual) \subseteq PROCUREMENT \cup FINANCE
    <3>1. compare_line(bill[i], order[j]) \subseteq PROCUREMENT \cup FINANCE
      BY Lines, LineCodes
    <3>2. \A e \in residual : e.code \in compare_line(bill[i], order[j])
      BY <2>3
    <3> HIDE DEF residual
    <3> QED
      BY <3>1, <3>2 DEF CodesOf
  <2> QED
    BY <2>1, <2>2, <2>3, ResidualIs
<1>4. AllPaired(bill, order) => lines = {}
  <2>1. AllPaired(bill, order) => unpaired = {} /\ residual = {}
    BY ResidualIs DEF AllPaired, UnpairedCodes
  <2>2. CodesOf({}) = {}
    BY DEF CodesOf
  <2> QED
    BY <2>1, <2>2
<1>5. CodesOf(Found(bill, order, head)) =
        head.duplicates \cup lines \cup PairCodes(bill, order) \cup totals \cup currency
  <2>1. /\ CodesOf(Plain(head.duplicates)) = head.duplicates
        /\ CodesOf(Plain(PairCodes(bill, order))) = PairCodes(bill, order)
        /\ CodesOf(Plain(totals)) = totals /\ CodesOf(Plain(currency)) = currency
    BY PlainCodes
  <2>2. Found(bill, order, head) =
          Plain(head.duplicates) \cup residual \cup unpaired \cup Plain(PairCodes(bill, order))
            \cup Plain(totals) \cup Plain(currency)
    BY DEF Found
  <2> HIDE DEF residual, unpaired, totals, currency
  <2>3. CodesOf(Plain(head.duplicates) \cup residual \cup unpaired
                  \cup Plain(PairCodes(bill, order)) \cup Plain(totals) \cup Plain(currency)) =
          CodesOf(Plain(head.duplicates)) \cup (CodesOf(residual) \cup CodesOf(unpaired))
            \cup CodesOf(Plain(PairCodes(bill, order))) \cup CodesOf(Plain(totals))
            \cup CodesOf(Plain(currency))
    BY DEF CodesOf
  <2>4. CodesOf(Found(bill, order, head)) =
          CodesOf(Plain(head.duplicates)) \cup (CodesOf(residual) \cup CodesOf(unpaired))
            \cup CodesOf(Plain(PairCodes(bill, order))) \cup CodesOf(Plain(totals))
            \cup CodesOf(Plain(currency))
    BY <2>2, <2>3, Zenon
  <2> QED
    BY <2>1, <2>4
<1> HIDE DEF lines, totals, currency
<1>6. lines \subseteq AP_REVIEW \cup PROCUREMENT \cup FINANCE
  BY <1>2, <1>3 DEF lines
<1> QED
  BY <1>1, <1>4, <1>5, <1>6 DEF currency

LEMMA OwnersAreApart ==
  /\ DUPLICATE \cap (CURRENCY \cup PROCUREMENT \cup FINANCE \cup AP_REVIEW \cup AGGREGATE) = {}
  /\ CURRENCY \cap (PROCUREMENT \cup FINANCE \cup AP_REVIEW \cup AGGREGATE) = {}
  /\ PROCUREMENT \cap (FINANCE \cup AP_REVIEW \cup AGGREGATE) = {}
  /\ CURRENCY # {}
BY DEF DUPLICATE, CURRENCY, PROCUREMENT, FINANCE, AP_REVIEW, AGGREGATE

LEMMA PairCodesAre ==
  ASSUME NEW bill \in Document, NEW order \in Document
  PROVE  LET pairs == pair_lines(bill, order)
         IN  /\ PairCodes(bill, order) \subseteq PROCUREMENT \cup FINANCE
             /\ PairCodes(bill, order) \cap PROCUREMENT # {} <=>
                  \E p \in pairs : Priced(bill[p[1]], order[p[2]])
             /\ PairCodes(bill, order) # {} <=>
                  \E p \in pairs : ~LinesAgree(bill[p[1]], order[p[2]])
<1> DEFINE pairs == pair_lines(bill, order)
           Codes(p) == compare_line(bill[p[1]], order[p[2]])
<1>1. \A p \in pairs :
        /\ Codes(p) \subseteq PROCUREMENT \cup FINANCE
        /\ Codes(p) = {} <=> LinesAgree(bill[p[1]], order[p[2]])
        /\ Codes(p) \cap PROCUREMENT # {} <=> Priced(bill[p[1]], order[p[2]])
  BY PairTypes, LineCodes
<1>2. \A c : c \in PairCodes(bill, order) <=> \E p \in pairs : c \in Codes(p)
  BY DEF PairCodes
<1> HIDE DEF pairs, Codes
<1> QED
  BY <1>1, <1>2 DEF pairs

\* A case goes to the team that owns its cause, whatever else is found and
\* whatever the totals say (route, compare_line, reconcile).
THEOREM CauseOwnsTheCase == EngineSpec => []RoutedByCause
<1>1. ASSUME EngineInv PROVE RoutedByCause
  <2> DEFINE bill == input.bill
             order == input.order
             head == input.head
             pairs == pair_lines(bill, order)
             team == decision.destination
             codes == CodesOf(Found(bill, order, head))
  <2>0. /\ bill \in Document /\ order \in Document /\ head \in Heading
    BY <1>1, InputIs
  <2> SUFFICES ASSUME decision.outcome = "REVIEW_REQUIRED"
               PROVE  /\ head.duplicates # {} => team = "DUPLICATE_REVIEW"
                      /\ head.duplicates = {} /\ Eligible(bill, head) =>
                           IF head.bill.currency # head.order.currency THEN team = "FINANCE"
                           ELSE IF \E p \in pairs : Priced(bill[p[1]], order[p[2]])
                           THEN team = "PROCUREMENT"
                           ELSE AllPaired(bill, order)
                                /\ (\E p \in pairs : ~LinesAgree(bill[p[1]], order[p[2]]))
                                  => team = "FINANCE"
    BY DEF RoutedByCause, Comparable, Eligible, AllPaired, Priced
  <2>1. decision = reconcile(bill, order, head)
    BY <1>1, NotCalledIs DEF EngineInv
  <2>2. CASE ~Eligible(bill, head)
    <3>1. PICK other \in SUBSET PROCUREMENT :
            decision = finalise(Plain(head.duplicates) \cup Plain(other), head.enabled,
                                "NO_RESIDUAL_PAIR")
      <4>1. Silent("UNPROCESSABLE", check_bill_eligibility(head.bill, bill)).outcome
              = "UNPROCESSABLE"
        BY DEF Silent
      <4>2. \/ reconcile(bill, order, head) =
                 Silent("UNPROCESSABLE", check_bill_eligibility(head.bill, bill))
            \/ \E other \in SUBSET PROCUREMENT :
                 reconcile(bill, order, head) =
                   finalise(Plain(head.duplicates) \cup Plain(other), head.enabled,
                            "NO_RESIDUAL_PAIR")
        <5>1. \/ reconcile(bill, order, head) =
                   Silent("UNPROCESSABLE", check_bill_eligibility(head.bill, bill))
              \/ \E other \in (SUBSET PROCUREMENT) \ {{}} :
                   reconcile(bill, order, head) =
                     finalise(Plain(head.duplicates) \cup Plain(other), head.enabled,
                              "NO_RESIDUAL_PAIR")
          BY <2>0, <2>2, Stopped, Zenon
        <5> QED
          BY <5>1
      <4> QED
        BY <2>1, <4>1, <4>2
    <3> DEFINE exceptions == Plain(head.duplicates) \cup Plain(other)
    <3>2. CASE head.duplicates # {}
      <4>1. PICK c \in head.duplicates : TRUE
        BY <3>2
      <4>2. c \in DUPLICATE /\ c \in CodesOf(Plain(head.duplicates))
        BY <2>0, <4>1, HeadIs, PlainCodes
      <4>3. CodesOf(exceptions) \cap DUPLICATE # {} /\ exceptions # {}
        BY <4>2 DEF CodesOf
      <4> HIDE DEF exceptions
      <4>4. finalise(exceptions, head.enabled, "NO_RESIDUAL_PAIR").destination = "DUPLICATE_REVIEW"
        BY <4>3, Finalised, RouteIs
      <4> QED
        BY <2>2, <3>1, <3>2, <4>4 DEF exceptions
    <3> QED
      BY <2>2, <3>2
  <2>3. CASE Eligible(bill, head)
    <3>1. team = route(Found(bill, order, head))
      <4> DEFINE gate == ResidualComparison(bill, order, pairs).gate
      <4>1. decision = finalise(Found(bill, order, head), head.enabled, gate)
        BY <2>0, <2>1, <2>3, Reconciled
      <4>2. Silent("MATCHED", None).outcome = "MATCHED"
        BY DEF Silent
      <4> HIDE DEF gate
      <4> QED
        BY <4>1, <4>2, Finalised
    <3>2. PICK lines, totals :
           /\ codes = head.duplicates \cup lines \cup PairCodes(bill, order) \cup totals
                 \cup (IF head.bill.currency # head.order.currency THEN CURRENCY ELSE {})
           /\ totals \subseteq AGGREGATE
           /\ lines \subseteq AP_REVIEW \cup PROCUREMENT \cup FINANCE
           /\ AllPaired(bill, order) => lines = {}
      BY <2>0, FoundCodes
    <3>3. /\ codes \cap DUPLICATE # {} => team = "DUPLICATE_REVIEW"
          /\ codes \cap DUPLICATE = {} =>
               /\ codes \cap CURRENCY # {} => team = "FINANCE"
               /\ codes \cap CURRENCY = {} /\ codes \cap PROCUREMENT # {} => team = "PROCUREMENT"
               /\ codes \cap (CURRENCY \cup PROCUREMENT) = {} /\ codes \cap FINANCE # {} =>
                    team = "FINANCE"
      BY <3>1, RouteIs
    <3>4. head.duplicates \subseteq DUPLICATE
      BY <2>0, HeadIs
    <3>5. /\ PairCodes(bill, order) \subseteq PROCUREMENT \cup FINANCE
          /\ PairCodes(bill, order) \cap PROCUREMENT # {} <=>
               \E p \in pairs : Priced(bill[p[1]], order[p[2]])
          /\ PairCodes(bill, order) # {} <=>
               \E p \in pairs : ~LinesAgree(bill[p[1]], order[p[2]])
      BY <2>0, PairCodesAre
    <3> HIDE DEF codes, team, pairs
    <3>6. head.duplicates # {} => team = "DUPLICATE_REVIEW"
      BY <3>2, <3>3, <3>4
    <3>7. ASSUME head.duplicates = {}, head.bill.currency # head.order.currency
          PROVE  team = "FINANCE"
      BY <3>2, <3>3, <3>5, <3>7, OwnersAreApart
    <3>8. ASSUME head.duplicates = {}, head.bill.currency = head.order.currency,
                 \E p \in pairs : Priced(bill[p[1]], order[p[2]])
          PROVE  team = "PROCUREMENT"
      BY <3>2, <3>3, <3>5, <3>8, OwnersAreApart
    <3>9. ASSUME head.duplicates = {}, head.bill.currency = head.order.currency,
                 ~(\E p \in pairs : Priced(bill[p[1]], order[p[2]])),
                 AllPaired(bill, order),
                 \E p \in pairs : ~LinesAgree(bill[p[1]], order[p[2]])
          PROVE  team = "FINANCE"
      <4>1. /\ PairCodes(bill, order) \cap PROCUREMENT = {} /\ PairCodes(bill, order) # {}
            /\ codes = PairCodes(bill, order) \cup totals
        BY <3>2, <3>5, <3>9
      <4> QED
        BY <3>2, <3>3, <3>5, <4>1, OwnersAreApart
    <3> QED
      BY <3>6, <3>7, <3>8, <3>9
  <2> QED
    BY <2>2, <2>3
<1> QED
  BY <1>1, Answered, PTL

-----------------------------------------------------------------------------
(* A copy is matched                                                         *)

LEMMA CopyPairs ==
  ASSUME NEW bill \in Document, NEW order \in Document,
         NEW f \in Bijection(DOMAIN bill, DOMAIN order),
         \A i \in DOMAIN bill : bill[i] = order[f[i]],
         \A j \in DOMAIN order : order[j].text # None,
         \A j, k \in DOMAIN order : order[j].text = order[k].text => j = k
  PROVE  /\ AllPaired(bill, order)
         /\ \A p \in pair_lines(bill, order) : p[2] = f[p[1]]
<1> DEFINE item == ByItem(bill, order)
           text == ByText(bill, order)
           left == UnpairedBill(bill, item)
           right == UnpairedOrder(order, item)
<1>1. /\ \A i \in DOMAIN bill : f[i] \in DOMAIN order
      /\ \A i, k \in DOMAIN bill : f[i] = f[k] => i = k
      /\ \A j \in DOMAIN order : \E i \in DOMAIN bill : f[i] = j
  BY DEF Bijection, Injection, Surjection, IsInjective
<1>2. \A i \in DOMAIN bill : \A tier : KeyOf(bill[i], tier) = KeyOf(order[f[i]], tier)
  OBVIOUS
<1>3. \A k : KeyOf(bill[k], "text") = bill[k].text /\ KeyOf(order[k], "text") = order[k].text
  BY DEF KeyOf
<1>4. \A p \in item : p[1] \in DOMAIN bill /\ p[2] \in DOMAIN order /\ p[2] = f[p[1]]
  <2> SUFFICES ASSUME NEW p \in item
               PROVE  p[1] \in DOMAIN bill /\ p[2] \in DOMAIN order /\ p[2] = f[p[1]]
    OBVIOUS
  <2>1. Pairing(bill, order, {})
    BY DEF Pairing
  <2>2. p \in Tier(bill, order, {}, "item") \ {}
    BY DEF ByItem
  <2>3. Sole(order, UnpairedOrder(order, {}), KeyOf(bill[p[1]], "item"), p[2], "item")
    BY <2>1, <2>2, TierKeeps
  <2>4. p[1] \in DOMAIN bill /\ p[2] \in DOMAIN order
    BY PairsAre DEF Pairing
  <2>5. UnpairedOrder(order, {}) = DOMAIN order
    BY DEF UnpairedOrder
  <2> QED
    BY <1>1, <1>2, <2>3, <2>4, <2>5 DEF Sole
<1>5. \A i \in left : f[i] \in right
  BY <1>1, <1>4 DEF UnpairedBill, UnpairedOrder
<1>6. left \in SUBSET DOMAIN bill /\ right \in SUBSET DOMAIN order
  BY DEF UnpairedBill, UnpairedOrder
<1>7. text = item \cup unique_match(bill, order, left, right, "text")
  BY DEF ByText, Tier
<1>8. \A i \in left : <<i, f[i]>> \in text
  <2> SUFFICES ASSUME NEW i \in left PROVE <<i, f[i]>> \in text
    OBVIOUS
  <2> HIDE DEF left, right, text, item
  <2>1. i \in DOMAIN bill /\ KeyOf(bill[i], "text") # None
    BY <1>1, <1>2, <1>3, <1>6
  <2>2. Sole(bill, left, KeyOf(bill[i], "text"), i, "text")
    BY <1>1, <1>2, <1>3, <1>6 DEF Sole
  <2>3. Sole(order, right, KeyOf(bill[i], "text"), f[i], "text")
    BY <1>1, <1>2, <1>3, <1>5, <1>6, <2>1 DEF Sole
  <2>4. <<i, f[i]>> \in unique_match(bill, order, left, right, "text")
    BY <1>6, <2>1, <2>2, <2>3, Matched
  <2> QED
    BY <1>7, <2>4
<1>9. \A i \in DOMAIN bill : \E p \in text : p[1] = i
  <2> SUFFICES ASSUME NEW i \in DOMAIN bill PROVE \E p \in text : p[1] = i
    OBVIOUS
  <2>1. CASE i \in left
    <3>1. <<i, f[i]>> \in text /\ <<i, f[i]>>[1] = i
      BY <1>8, <2>1
    <3> QED
      BY <3>1
  <2>2. CASE i \notin left
    BY <1>7, <2>2 DEF UnpairedBill
  <2> QED
    BY <2>1, <2>2
<1>10. \A p \in text : p[1] \in DOMAIN bill /\ p[2] = f[p[1]]
  <2> SUFFICES ASSUME NEW p \in text PROVE p[1] \in DOMAIN bill /\ p[2] = f[p[1]]
    OBVIOUS
  <2>1. p[1] \in DOMAIN bill /\ p[2] \in DOMAIN order
    BY PairsAre DEF Pairing
  <2>2. CASE p \in item
    BY <1>4, <2>2
  <2>3. CASE p \notin item
    <3>1. Sole(order, right, KeyOf(bill[p[1]], "text"), p[2], "text")
      BY <2>3, PairsAre, TierKeeps DEF ByText
    <3> HIDE DEF left, right, text, item
    <3>2. KeyOf(order[p[2]], "text") = KeyOf(bill[p[1]], "text")
      BY <3>1 DEF Sole
    <3> QED
      BY <1>1, <1>2, <1>3, <2>1, <3>2
  <2> QED
    BY <2>2, <2>3
<1>11. pair_lines(bill, order) = text
  <2>1. UnpairedBill(bill, text) = {}
    BY <1>9 DEF UnpairedBill
  <2>2. unique_match(bill, order, {}, UnpairedOrder(order, text), "loose") = {}
    BY DEF unique_match
  <2> QED
    BY <2>1, <2>2, Tiers DEF Tier
<1>12. UnpairedBill(bill, text) = {} /\ UnpairedOrder(order, text) = {}
  <2> HIDE DEF text
  <2> QED
    BY <1>1, <1>9, <1>10 DEF UnpairedBill, UnpairedOrder
<1> QED
  BY <1>10, <1>11, <1>12 DEF AllPaired

\* A bill that copies its order line for line, in whatever order, is matched
\* without a word wherever the headings agree and the order is sound and words
\* no two lines alike (pair_lines, reconcile).
THEOREM ACopyIsMatched == EngineSpec => []CopyIsMatched
<1>1. ASSUME EngineInv PROVE CopyIsMatched
  <2> DEFINE bill == input.bill
             order == input.order
             head == input.head
  <2>0. bill \in Document /\ order \in Document /\ head \in Heading
    BY <1>1, InputIs
  <2> SUFFICES ASSUME decision # NotCalled, HeadsAgree(head),
                      \A j, k \in DOMAIN order : order[j].text = order[k].text => j = k,
                      NEW f \in Bijection(DOMAIN bill, DOMAIN order),
                      \A i \in DOMAIN f : bill[i] = order[f[i]],
                      \A j \in DOMAIN order :
                        order[j].text # None /\ LinesAgree(order[j], order[j])
               PROVE  decision.outcome = "MATCHED"
    BY DEF CopyIsMatched
  <2>1. decision = reconcile(bill, order, head)
    BY <1>1 DEF EngineInv
  <2>2. DOMAIN f = DOMAIN bill
    BY DEF Bijection, Injection
  <2>3. AllPaired(bill, order) /\ \A p \in pair_lines(bill, order) : p[2] = f[p[1]]
    BY <2>0, <2>2, CopyPairs
  <2>4. \A p \in pair_lines(bill, order) : LinesAgree(bill[p[1]], order[p[2]])
    <3>1. \A p \in pair_lines(bill, order) : p[1] \in DOMAIN bill /\ p[2] \in DOMAIN order
      BY <2>0, PairTypes
    <3> QED
      BY <2>2, <2>3, <3>1
  <2>5. Eligible(bill, head) /\ Found(bill, order, head) = {}
    BY <2>0, <2>3, <2>4, FoundNothing, TotalsAgree DEF HeadsAgree, Comparable, Eligible
  <2> QED
    BY <2>0, <2>1, <2>5, MatchedIs
<1> QED
  BY <1>1, Answered, PTL

-----------------------------------------------------------------------------
(* The order of the lines                                                    *)

\* other lists the lines in another order: its line k is the line f[k].
Permutes(f, lines, other) ==
  /\ f \in Bijection(DOMAIN lines, DOMAIN lines)
  /\ other \in Document /\ DOMAIN other = DOMAIN lines
  /\ \A k \in DOMAIN lines : other[k] = lines[f[k]]

LEMMA PermutesIs ==
  ASSUME NEW f, NEW lines, NEW other, Permutes(f, lines, other)
  PROVE  /\ \A k \in DOMAIN lines : f[k] \in DOMAIN lines
         /\ \A k, l \in DOMAIN lines : f[k] = f[l] => k = l
         /\ \A l \in DOMAIN lines : \E k \in DOMAIN lines : f[k] = l
         /\ \A k \in DOMAIN lines : \A tier : KeyOf(other[k], tier) = KeyOf(lines[f[k]], tier)
BY DEF Permutes, Bijection, Injection, Surjection, IsInjective

\* The same pairs, of the lines in their other order.
SamePairs(bill, order, f, g, pairs, others) ==
  \A i \in DOMAIN bill, j \in DOMAIN order : <<i, j>> \in others <=> <<f[i], g[j]>> \in pairs

LEMMA WithoutAPair ==
  ASSUME NEW bill, NEW order, NEW pairs, Pairing(bill, order, pairs)
  PROVE  /\ \A i \in DOMAIN bill :
              i \in UnpairedBill(bill, pairs) <=> ~\E j \in DOMAIN order : <<i, j>> \in pairs
         /\ \A j \in DOMAIN order :
              j \in UnpairedOrder(order, pairs) <=> ~\E i \in DOMAIN bill : <<i, j>> \in pairs
<1>1. \A p \in pairs : <<p[1], p[2]>> \in pairs /\ p[1] \in DOMAIN bill /\ p[2] \in DOMAIN order
  BY DEF Pairing
<1>2. \A i, j : <<i, j>>[1] = i /\ <<i, j>>[2] = j
  OBVIOUS
<1>3. \A i \in DOMAIN bill :
        i \in UnpairedBill(bill, pairs) <=> ~\E j \in DOMAIN order : <<i, j>> \in pairs
  BY <1>1, <1>2 DEF UnpairedBill
<1>4. \A j \in DOMAIN order :
        j \in UnpairedOrder(order, pairs) <=> ~\E i \in DOMAIN bill : <<i, j>> \in pairs
  BY <1>1, <1>2 DEF UnpairedOrder
<1> QED
  BY <1>3, <1>4

LEMMA SameUnpaired ==
  ASSUME NEW bill \in Document, NEW order \in Document, NEW f, NEW g, NEW bill2, NEW order2,
         Permutes(f, bill, bill2), Permutes(g, order, order2),
         NEW pairs, Pairing(bill, order, pairs),
         NEW others, Pairing(bill2, order2, others),
         SamePairs(bill, order, f, g, pairs, others)
  PROVE  /\ \A i \in DOMAIN bill :
              i \in UnpairedBill(bill2, others) <=> f[i] \in UnpairedBill(bill, pairs)
         /\ \A j \in DOMAIN order :
              j \in UnpairedOrder(order2, others) <=> g[j] \in UnpairedOrder(order, pairs)
<1>1. DOMAIN bill2 = DOMAIN bill /\ DOMAIN order2 = DOMAIN order
  BY DEF Permutes
<1>2. /\ \A k \in DOMAIN bill : f[k] \in DOMAIN bill
      /\ \A l \in DOMAIN bill : \E k \in DOMAIN bill : f[k] = l
      /\ \A k \in DOMAIN order : g[k] \in DOMAIN order
      /\ \A l \in DOMAIN order : \E k \in DOMAIN order : g[k] = l
  BY PermutesIs
<1>3. \A i \in DOMAIN bill :
        (\E j \in DOMAIN order : <<i, j>> \in others) <=>
          \E j \in DOMAIN order : <<f[i], j>> \in pairs
  BY <1>2 DEF SamePairs
<1>4. \A j \in DOMAIN order :
        (\E i \in DOMAIN bill : <<i, j>> \in others) <=>
          \E i \in DOMAIN bill : <<i, g[j]>> \in pairs
  BY <1>2 DEF SamePairs
<1>5. /\ \A i \in DOMAIN bill :
           i \in UnpairedBill(bill2, others) <=> ~\E j \in DOMAIN order : <<i, j>> \in others
      /\ \A j \in DOMAIN order :
           j \in UnpairedOrder(order2, others) <=> ~\E i \in DOMAIN bill : <<i, j>> \in others
  BY <1>1, WithoutAPair
<1>6. /\ \A i \in DOMAIN bill :
           i \in UnpairedBill(bill, pairs) <=> ~\E j \in DOMAIN order : <<i, j>> \in pairs
      /\ \A j \in DOMAIN order :
           j \in UnpairedOrder(order, pairs) <=> ~\E i \in DOMAIN bill : <<i, j>> \in pairs
  BY WithoutAPair
<1>7. ASSUME NEW i \in DOMAIN bill
      PROVE  i \in UnpairedBill(bill2, others) <=> f[i] \in UnpairedBill(bill, pairs)
  <2>1. f[i] \in DOMAIN bill
    BY <1>2
  <2> QED
    BY <1>3, <1>5, <1>6, <2>1
<1>8. ASSUME NEW j \in DOMAIN order
      PROVE  j \in UnpairedOrder(order2, others) <=> g[j] \in UnpairedOrder(order, pairs)
  <2>1. g[j] \in DOMAIN order
    BY <1>2
  <2> QED
    BY <1>4, <1>5, <1>6, <2>1
<1> QED
  BY <1>7, <1>8

\* A key is as unique on a rearranged document.
LEMMA SameSole ==
  ASSUME NEW f, NEW lines, NEW other, Permutes(f, lines, other),
         NEW from \in SUBSET DOMAIN lines, NEW among \in SUBSET DOMAIN lines,
         \A k \in DOMAIN lines : k \in among <=> f[k] \in from,
         NEW key, NEW tier, NEW k \in DOMAIN lines
  PROVE  Sole(other, among, key, k, tier) <=> Sole(lines, from, key, f[k], tier)
<1>1. /\ \A l \in DOMAIN lines : f[l] \in DOMAIN lines
      /\ \A l, m \in DOMAIN lines : f[l] = f[m] => l = m
      /\ \A m \in DOMAIN lines : \E l \in DOMAIN lines : f[l] = m
  BY PermutesIs
<1>2. \A l \in DOMAIN lines : KeyOf(other[l], tier) = KeyOf(lines[f[l]], tier)
  BY DEF Permutes
<1>3. ASSUME Sole(other, among, key, k, tier) PROVE Sole(lines, from, key, f[k], tier)
  <2>1. ASSUME NEW m \in from PROVE KeyOf(lines[m], tier) = key <=> m = f[k]
    <3>1. PICK l \in DOMAIN lines : f[l] = m
      BY <1>1
    <3> QED
      BY <1>1, <1>2, <1>3, <3>1 DEF Sole
  <2> QED
    BY <1>3, <2>1 DEF Sole
<1>4. ASSUME Sole(lines, from, key, f[k], tier) PROVE Sole(other, among, key, k, tier)
  <2>1. ASSUME NEW l \in among PROVE KeyOf(other[l], tier) = key <=> l = k
    <3>1. l \in DOMAIN lines /\ f[l] \in from
      OBVIOUS
    <3>2. KeyOf(lines[f[l]], tier) = key <=> f[l] = f[k]
      BY <1>4, <3>1 DEF Sole
    <3> QED
      BY <1>1, <1>2, <3>1, <3>2
  <2> QED
    BY <1>4, <2>1 DEF Sole
<1> QED
  BY <1>3, <1>4

LEMMA SameTier ==
  ASSUME NEW bill \in Document, NEW order \in Document, NEW f, NEW g, NEW bill2, NEW order2,
         Permutes(f, bill, bill2), Permutes(g, order, order2),
         NEW pairs, Pairing(bill, order, pairs),
         NEW others, Pairing(bill2, order2, others),
         SamePairs(bill, order, f, g, pairs, others), NEW tier
  PROVE  SamePairs(bill, order, f, g, Tier(bill, order, pairs, tier),
                   Tier(bill2, order2, others, tier))
<1> DEFINE left == UnpairedBill(bill, pairs)
           right == UnpairedOrder(order, pairs)
           left2 == UnpairedBill(bill2, others)
           right2 == UnpairedOrder(order2, others)
<1>1. /\ bill2 \in Document /\ order2 \in Document
      /\ DOMAIN bill2 = DOMAIN bill /\ DOMAIN order2 = DOMAIN order
  BY DEF Permutes
<1>2. /\ left \in SUBSET DOMAIN bill /\ right \in SUBSET DOMAIN order
      /\ left2 \in SUBSET DOMAIN bill /\ right2 \in SUBSET DOMAIN order
  BY <1>1 DEF UnpairedBill, UnpairedOrder
<1>3. /\ \A i \in DOMAIN bill : i \in left2 <=> f[i] \in left
      /\ \A j \in DOMAIN order : j \in right2 <=> g[j] \in right
  BY SameUnpaired
<1>4. ASSUME NEW i \in DOMAIN bill, NEW j \in DOMAIN order
      PROVE  <<i, j>> \in Tier(bill2, order2, others, tier) <=>
               <<f[i], g[j]>> \in Tier(bill, order, pairs, tier)
  <2> DEFINE key == KeyOf(bill[f[i]], tier)
  <2>1. KeyOf(bill2[i], tier) = key
    BY DEF Permutes
  <2> HIDE DEF left, right, left2, right2, key
  <2>2. /\ Sole(bill2, left2, key, i, tier) <=> Sole(bill, left, key, f[i], tier)
        /\ Sole(order2, right2, key, j, tier) <=> Sole(order, right, key, g[j], tier)
    BY <1>2, <1>3, SameSole
  <2>3. <<i, j>> \in unique_match(bill2, order2, left2, right2, tier) <=>
          /\ key # None
          /\ Sole(bill2, left2, key, i, tier) /\ Sole(order2, right2, key, j, tier)
    BY <1>1, <1>2, <2>1, Matched
  <2>4. <<f[i], g[j]>> \in unique_match(bill, order, left, right, tier) <=>
          /\ key # None
          /\ Sole(bill, left, key, f[i], tier) /\ Sole(order, right, key, g[j], tier)
    BY <1>2, Matched DEF key
  <2>5. <<i, j>> \in others <=> <<f[i], g[j]>> \in pairs
    BY DEF SamePairs
  <2> QED
    BY <2>2, <2>3, <2>4, <2>5 DEF Tier, left, right, left2, right2
<1> QED
  BY <1>4 DEF SamePairs

LEMMA SamePairing ==
  ASSUME NEW bill \in Document, NEW order \in Document, NEW f, NEW g, NEW bill2, NEW order2,
         Permutes(f, bill, bill2), Permutes(g, order, order2)
  PROVE  SamePairs(bill, order, f, g, pair_lines(bill, order), pair_lines(bill2, order2))
<1>1. bill2 \in Document /\ order2 \in Document
  BY DEF Permutes
<1>2. Pairing(bill, order, {}) /\ Pairing(bill2, order2, {})
  BY DEF Pairing
<1>3. SamePairs(bill, order, f, g, {}, {})
  BY DEF SamePairs
<1>4. SamePairs(bill, order, f, g, ByItem(bill, order), ByItem(bill2, order2))
  BY <1>2, <1>3, SameTier DEF ByItem
<1>5. SamePairs(bill, order, f, g, ByText(bill, order), ByText(bill2, order2))
  <2>1. Pairing(bill, order, ByItem(bill, order)) /\ Pairing(bill2, order2, ByItem(bill2, order2))
    BY <1>1, PairsAre
  <2> QED
    BY <1>4, <2>1, SameTier DEF ByText
<1>6. Pairing(bill, order, ByText(bill, order)) /\ Pairing(bill2, order2, ByText(bill2, order2))
  BY <1>1, PairsAre
<1> QED
  BY <1>1, <1>5, <1>6, SameTier, Tiers

LEMMA SameCodes ==
  ASSUME NEW bill \in Document, NEW order \in Document, NEW f, NEW g, NEW bill2, NEW order2,
         Permutes(f, bill, bill2), Permutes(g, order, order2)
  PROVE  PairCodes(bill2, order2) = PairCodes(bill, order)
<1> DEFINE pairs == pair_lines(bill, order)
           others == pair_lines(bill2, order2)
           Codes(i, j) == compare_line(bill[i], order[j])
           Codes2(i, j) == compare_line(bill2[i], order2[j])
<1>1. /\ bill2 \in Document /\ order2 \in Document
      /\ DOMAIN bill2 = DOMAIN bill /\ DOMAIN order2 = DOMAIN order
  BY DEF Permutes
<1>2. /\ \A p \in pairs : p = <<p[1], p[2]>> /\ p[1] \in DOMAIN bill /\ p[2] \in DOMAIN order
      /\ \A p \in others : p = <<p[1], p[2]>> /\ p[1] \in DOMAIN bill /\ p[2] \in DOMAIN order
  BY <1>1, PairTypes
<1>3. /\ \A c : c \in PairCodes(bill, order) <=> \E p \in pairs : c \in Codes(p[1], p[2])
      /\ \A c : c \in PairCodes(bill2, order2) <=> \E p \in others : c \in Codes2(p[1], p[2])
  BY DEF PairCodes
<1>4. \A i \in DOMAIN bill, j \in DOMAIN order : Codes2(i, j) = Codes(f[i], g[j])
  BY DEF Permutes
<1>5. \A i \in DOMAIN bill, j \in DOMAIN order : <<i, j>> \in others <=> <<f[i], g[j]>> \in pairs
  BY SamePairing DEF SamePairs
<1>6. /\ \A k \in DOMAIN bill : f[k] \in DOMAIN bill
      /\ \A l \in DOMAIN bill : \E k \in DOMAIN bill : f[k] = l
      /\ \A k \in DOMAIN order : g[k] \in DOMAIN order
      /\ \A l \in DOMAIN order : \E k \in DOMAIN order : g[k] = l
  BY PermutesIs
<1>7. \A i, j : <<i, j>>[1] = i /\ <<i, j>>[2] = j
  OBVIOUS
<1> HIDE DEF pairs, others, Codes, Codes2
<1>8. ASSUME NEW c \in PairCodes(bill2, order2) PROVE c \in PairCodes(bill, order)
  <2>1. PICK p \in others : c \in Codes2(p[1], p[2])
    BY <1>3
  <2> DEFINE q == <<f[p[1]], g[p[2]]>>
  <2>2. q \in pairs /\ q[1] = f[p[1]] /\ q[2] = g[p[2]]
    BY <1>2, <1>5
  <2>3. c \in Codes(q[1], q[2])
    BY <1>2, <1>4, <2>1, <2>2
  <2> QED
    BY <1>3, <2>2, <2>3
<1>9. ASSUME NEW c \in PairCodes(bill, order) PROVE c \in PairCodes(bill2, order2)
  <2>1. PICK q \in pairs : c \in Codes(q[1], q[2])
    BY <1>3
  <2>2. PICK i \in DOMAIN bill, j \in DOMAIN order : f[i] = q[1] /\ g[j] = q[2]
    BY <1>2, <1>6
  <2> DEFINE p == <<i, j>>
  <2>3. p \in others /\ p[1] = i /\ p[2] = j
    BY <1>2, <1>5, <2>2
  <2>4. c \in Codes2(p[1], p[2])
    BY <1>4, <2>1, <2>2, <2>3
  <2> QED
    BY <1>3, <2>3, <2>4
<1> QED
  BY <1>8, <1>9

Many(S) == \E k, l \in S : k # l

\* The same lines, under their other numbers.
SameLines(f, lines, from, among) ==
  /\ from \subseteq DOMAIN lines /\ among \subseteq DOMAIN lines
  /\ \A k \in DOMAIN lines : k \in among <=> f[k] \in from

LEMMA SameSize ==
  ASSUME NEW f, NEW lines, NEW other, Permutes(f, lines, other),
         NEW from, NEW among, SameLines(f, lines, from, among)
  PROVE  /\ Many(among) <=> Many(from)
         /\ among = {} <=> from = {}
         /\ \A k \in DOMAIN lines : among = {k} => from = {f[k]}
<1>1. /\ \A l \in DOMAIN lines : f[l] \in DOMAIN lines
      /\ \A l, m \in DOMAIN lines : f[l] = f[m] => l = m
      /\ \A m \in DOMAIN lines : \E l \in DOMAIN lines : f[l] = m
  BY PermutesIs
<1>2. \A m \in from : m \in DOMAIN lines /\ \E l \in among : f[l] = m
  BY <1>1 DEF SameLines
<1>3. \A l \in among : l \in DOMAIN lines /\ f[l] \in from
  BY DEF SameLines
<1>4. ASSUME NEW k \in among, NEW l \in among, k # l PROVE Many(from)
  <2>1. f[k] \in from /\ f[l] \in from /\ f[k] # f[l]
    BY <1>1, <1>3, <1>4
  <2> QED
    BY <2>1, Zenon DEF Many
<1>5. ASSUME NEW m \in from, NEW n \in from, m # n PROVE Many(among)
  <2>1. PICK k \in among, l \in among : f[k] = m /\ f[l] = n
    BY <1>2
  <2>2. k # l
    BY <1>5, <2>1
  <2> QED
    BY <2>2, Zenon DEF Many
<1>6. ASSUME NEW k \in DOMAIN lines, among = {k} PROVE from = {f[k]}
  BY <1>2, <1>3, <1>6
<1>7. among = {} <=> from = {}
  BY <1>2, <1>3
<1>8. Many(among) <=> Many(from)
  BY <1>4, <1>5 DEF Many
<1> QED
  BY <1>6, <1>7, <1>8

LEMMA SameResidual ==
  ASSUME NEW bill \in Document, NEW order \in Document, NEW f, NEW g, NEW bill2, NEW order2,
         Permutes(f, bill, bill2), Permutes(g, order, order2)
  PROVE  LET residual == ResidualComparison(bill, order, pair_lines(bill, order))
             residual2 == ResidualComparison(bill2, order2, pair_lines(bill2, order2))
         IN  residual2.exceptions = residual.exceptions /\ residual2.gate = residual.gate
<1> DEFINE pairs == pair_lines(bill, order)
           others == pair_lines(bill2, order2)
           left == UnpairedBill(bill, pairs)
           right == UnpairedOrder(order, pairs)
           left2 == UnpairedBill(bill2, others)
           right2 == UnpairedOrder(order2, others)
           residual == ResidualComparison(bill, order, pairs)
           residual2 == ResidualComparison(bill2, order2, others)
           Gate(b, o) ==
             IF compare_line(b, o) # {} THEN "RESIDUAL_PAIR_DETERMINISTIC_MISMATCH"
             ELSE IF DescriptionsInBounds(b, o) THEN "RESIDUAL_PAIR_TEXT_ONLY"
             ELSE "RESIDUAL_DESCRIPTION_OUT_OF_BOUNDS"
           Codes(b, o) == {[code |-> c, residual |-> TRUE] : c \in compare_line(b, o)}
           Shape(b, o, l, r, res) ==
             \/ /\ Many(l) \/ Many(r)
                /\ res.exceptions = Plain({"AMBIGUOUS_MULTIPLE_CANDIDATES"})
                /\ res.gate = "MULTIPLE_RESIDUAL_CANDIDATES"
             \/ /\ l = {} \/ r = {}
                /\ ~Many(l) /\ ~Many(r)
                /\ res.exceptions = {}
                /\ res.gate = "NO_RESIDUAL_PAIR"
             \/ \E i \in DOMAIN b, j \in DOMAIN o :
                  /\ l = {i} /\ r = {j}
                  /\ res.exceptions = Codes(b[i], o[j])
                  /\ res.gate = Gate(b[i], o[j])
<1>1. /\ bill2 \in Document /\ order2 \in Document
      /\ DOMAIN bill2 = DOMAIN bill /\ DOMAIN order2 = DOMAIN order
  BY DEF Permutes
<1>2. /\ left \in SUBSET DOMAIN bill /\ right \in SUBSET DOMAIN order
      /\ left2 \in SUBSET DOMAIN bill /\ right2 \in SUBSET DOMAIN order
  BY <1>1 DEF UnpairedBill, UnpairedOrder
<1>3. /\ \A i \in DOMAIN bill : i \in left2 <=> f[i] \in left
      /\ \A j \in DOMAIN order : j \in right2 <=> g[j] \in right
  <2>1. Pairing(bill, order, pairs) /\ Pairing(bill2, order2, others)
    BY <1>1, PairsAre
  <2> QED
    BY <2>1, SamePairing, SameUnpaired
<1>4. /\ Many(left2) <=> Many(left)
      /\ left2 = {} <=> left = {}
      /\ \A i \in DOMAIN bill : left2 = {i} => left = {f[i]}
      /\ Many(right2) <=> Many(right)
      /\ right2 = {} <=> right = {}
      /\ \A j \in DOMAIN order : right2 = {j} => right = {g[j]}
  <2>1. SameLines(f, bill, left, left2) /\ SameLines(g, order, right, right2)
    BY <1>2, <1>3 DEF SameLines
  <2> HIDE DEF left, right, left2, right2
  <2> QED
    BY <2>1, SameSize
<1>5. Shape(bill, order, left, right, residual)
  BY ResidualIs DEF Many
<1>6. Shape(bill2, order2, left2, right2, residual2)
  BY <1>1, ResidualIs DEF Many
<1>7. /\ \A i \in DOMAIN bill : bill2[i] = bill[f[i]]
      /\ \A j \in DOMAIN order : order2[j] = order[g[j]]
  BY DEF Permutes
<1> HIDE DEF pairs, others, left, right, left2, right2, residual, residual2, Gate, Codes
<1>8. residual2.exceptions = residual.exceptions /\ residual2.gate = residual.gate
  <2>0. \A k : ~Many({k})
    BY DEF Many
  <2>1. CASE Many(left2) \/ Many(right2)
    <3> DEFINE several == Plain({"AMBIGUOUS_MULTIPLE_CANDIDATES"})
    <3>1. residual.exceptions = several /\ residual.gate = "MULTIPLE_RESIDUAL_CANDIDATES"
      <4>1. Many(left) \/ Many(right)
        BY <1>4, <2>1
      <4> QED
        BY <1>5, <2>0, <4>1
    <3>2. residual2.exceptions = several /\ residual2.gate = "MULTIPLE_RESIDUAL_CANDIDATES"
      BY <1>6, <2>0, <2>1
    <3> HIDE DEF several
    <3> QED
      BY <3>1, <3>2
  <2>2. CASE (left2 = {} \/ right2 = {}) /\ ~Many(left2) /\ ~Many(right2)
    BY <1>4, <1>5, <1>6, <2>2
  <2>3. CASE left2 # {} /\ right2 # {} /\ ~Many(left2) /\ ~Many(right2)
    <3>1. PICK i \in DOMAIN bill, j \in DOMAIN order :
            /\ left2 = {i} /\ right2 = {j}
            /\ residual2.exceptions = Codes(bill2[i], order2[j])
            /\ residual2.gate = Gate(bill2[i], order2[j])
      BY <1>1, <1>6, <2>3
    <3>2. left = {f[i]} /\ right = {g[j]}
      BY <1>4, <3>1
    <3>3. /\ residual.exceptions = Codes(bill[f[i]], order[g[j]])
          /\ residual.gate = Gate(bill[f[i]], order[g[j]])
      BY <1>4, <1>5, <2>3, <3>2
    <3> QED
      BY <1>7, <3>1, <3>3
  <2> QED
    BY <2>1, <2>2, <2>3
<1> QED
  BY <1>8 DEF pairs, others, residual, residual2

\* The order in which either document lists its lines decides nothing.
LEMMA SameDecision ==
  ASSUME NEW bill \in Document, NEW order \in Document, NEW f, NEW g, NEW bill2, NEW order2,
         Permutes(f, bill, bill2), Permutes(g, order, order2), NEW head
  PROVE  reconcile(bill2, order2, head) = reconcile(bill, order, head)
<1> DEFINE pairs == pair_lines(bill, order)
           others == pair_lines(bill2, order2)
           residual == ResidualComparison(bill, order, pairs)
           residual2 == ResidualComparison(bill2, order2, others)
<1>1. /\ bill2 \in Document /\ order2 \in Document
      /\ DOMAIN bill2 = DOMAIN bill /\ DOMAIN order2 = DOMAIN order
  BY DEF Permutes
<1>2. Len(bill2) = Len(bill) /\ Len(order2) = Len(order)
  BY <1>1 DEF Document
<1>3. bill2 = <<>> <=> bill = <<>>
  BY <1>1, Lines
<1>4. check_bill_eligibility(head.bill, bill2) = check_bill_eligibility(head.bill, bill)
  BY <1>3 DEF check_bill_eligibility
<1>5. residual2.exceptions = residual.exceptions /\ residual2.gate = residual.gate
  BY SameResidual
<1>6. UnpairedCodes(bill2, order2, others) = UnpairedCodes(bill, order, pairs)
  <2> DEFINE none == UnpairedBill(bill, pairs) \cup UnpairedOrder(order, pairs) = {}
             none2 == UnpairedBill(bill2, others) \cup UnpairedOrder(order2, others) = {}
  <2>1. none2 <=> none
    <3>1. Pairing(bill, order, pairs) /\ Pairing(bill2, order2, others)
      BY <1>1, PairsAre
    <3>2. /\ \A i \in DOMAIN bill :
               i \in UnpairedBill(bill2, others) <=> f[i] \in UnpairedBill(bill, pairs)
          /\ \A j \in DOMAIN order :
               j \in UnpairedOrder(order2, others) <=> g[j] \in UnpairedOrder(order, pairs)
      BY <3>1, SamePairing, SameUnpaired
    <3>3. /\ UnpairedBill(bill, pairs) \subseteq DOMAIN bill
          /\ UnpairedBill(bill2, others) \subseteq DOMAIN bill
          /\ UnpairedOrder(order, pairs) \subseteq DOMAIN order
          /\ UnpairedOrder(order2, others) \subseteq DOMAIN order
      BY <1>1 DEF UnpairedBill, UnpairedOrder
    <3>4. /\ SameLines(f, bill, UnpairedBill(bill, pairs), UnpairedBill(bill2, others))
          /\ SameLines(g, order, UnpairedOrder(order, pairs), UnpairedOrder(order2, others))
      BY <3>2, <3>3 DEF SameLines
    <3> HIDE DEF pairs, others
    <3>5. /\ UnpairedBill(bill, pairs) = {} <=> UnpairedBill(bill2, others) = {}
          /\ UnpairedOrder(order, pairs) = {} <=> UnpairedOrder(order2, others) = {}
      BY <3>4, SameSize
    <3> QED
      BY <3>5
  <2> QED
    BY <1>2, <2>1 DEF UnpairedCodes
<1>7. PairCodes(bill2, order2) = PairCodes(bill, order)
  BY SameCodes
<1>8. \A exceptions :
        CompareDocuments(bill2, order2, head, exceptions) =
          CompareDocuments(bill, order, head, exceptions)
  <2> SUFFICES ASSUME NEW exceptions
               PROVE  CompareDocuments(bill2, order2, head, exceptions) =
                        CompareDocuments(bill, order, head, exceptions)
    OBVIOUS
  <2>1. CompareDocuments(bill, order, head, exceptions) =
          finalise(exceptions \cup residual.exceptions \cup UnpairedCodes(bill, order, pairs)
                     \cup Plain(PairCodes(bill, order))
                     \cup Plain(Variances(head.bill, head.order, TotalTolerance, TotalCode))
                     \cup Plain(IF head.bill.currency # head.order.currency THEN CURRENCY ELSE {}),
                   head.enabled, residual.gate)
    BY DEF CompareDocuments, PairCodes
  <2>2. CompareDocuments(bill2, order2, head, exceptions) =
          finalise(exceptions \cup residual2.exceptions \cup UnpairedCodes(bill2, order2, others)
                     \cup Plain(PairCodes(bill2, order2))
                     \cup Plain(Variances(head.bill, head.order, TotalTolerance, TotalCode))
                     \cup Plain(IF head.bill.currency # head.order.currency THEN CURRENCY ELSE {}),
                   head.enabled, residual2.gate)
    BY DEF CompareDocuments, PairCodes
  <2> HIDE DEF residual, residual2, pairs, others
  <2> QED
    BY <1>5, <1>6, <1>7, <2>1, <2>2
<1> QED
  BY <1>4, <1>8 DEF reconcile

LEMMA Rearrangement ==
  ASSUME NEW lines \in Document
  PROVE  /\ \A other \in Rearranged(lines) : \E f : Permutes(f, lines, other)
         /\ \E f : Permutes(f, lines, lines)
<1>1. ASSUME NEW f \in Bijection(DOMAIN lines, DOMAIN lines)
      PROVE  Permutes(f, lines, [k \in DOMAIN lines |-> lines[f[k]]])
  <2> DEFINE other == [k \in DOMAIN lines |-> lines[f[k]]]
  <2>1. \A k \in DOMAIN lines : f[k] \in DOMAIN lines
    BY DEF Bijection, Injection
  <2>2. DOMAIN lines = 1 .. Len(lines) /\ Len(lines) \in Nat
        /\ \A k \in DOMAIN lines : lines[k] \in LineItem
    BY DEF Document
  <2>3. other \in [1 .. Len(lines) -> LineItem]
    BY <2>1, <2>2
  <2>4. other \in Document
    BY <2>2, <2>3 DEF Document
  <2> QED
    BY <2>4 DEF Permutes
<1>2. \A other \in Rearranged(lines) : \E f : Permutes(f, lines, other)
  BY <1>1 DEF Rearranged
<1>3. Permutes([k \in DOMAIN lines |-> k], lines, lines)
  BY DEF Permutes, Bijection, Injection, Surjection, IsInjective
<1> QED
  BY <1>2, <1>3

\* The order in which Xero lists the lines of either document decides nothing:
\* the same decision, its exceptions and its team (pair_lines, reconcile).
THEOREM OrderIsNothing == EngineSpec => []OrderDoesNotMatter
<1>1. ASSUME EngineInv PROVE OrderDoesNotMatter
  <2>0. input.bill \in Document /\ input.order \in Document
    BY <1>1, InputIs
  <2> SUFFICES ASSUME decision # NotCalled PROVE OrderDoesNotMatter
    BY DEF OrderDoesNotMatter
  <2>1. decision = reconcile(input.bill, input.order, input.head)
    BY <1>1 DEF EngineInv
  <2>2. PICK f, g : Permutes(f, input.bill, input.bill) /\ Permutes(g, input.order, input.order)
    BY <2>0, Rearrangement
  <2>3. ASSUME NEW bill \in Rearranged(input.bill)
        PROVE  reconcile(bill, input.order, input.head) = decision
    <3>1. PICK h : Permutes(h, input.bill, bill)
      BY <2>0, Rearrangement
    <3> QED
      BY <2>0, <2>1, <2>2, <3>1, SameDecision
  <2>4. ASSUME NEW order \in Rearranged(input.order)
        PROVE  reconcile(input.bill, order, input.head) = decision
    <3>1. PICK h : Permutes(h, input.order, order)
      BY <2>0, Rearrangement
    <3> QED
      BY <2>0, <2>1, <2>2, <3>1, SameDecision
  <2> QED
    BY <2>3, <2>4 DEF OrderDoesNotMatter
<1> QED
  BY <1>1, Answered, PTL

-----------------------------------------------------------------------------
(* What the model is asked                                                   *)

LEMMA TiersGrow ==
  ASSUME NEW bill, NEW order
  PROVE  /\ ByItem(bill, order) \subseteq ByText(bill, order)
         /\ ByText(bill, order) \subseteq pair_lines(bill, order)
BY Tiers DEF ByText, Tier

\* Lines without a pair at the end were there for every tier, so that no line
\* paired after the first is worded as one of them.
LEMMA Bystanders ==
  ASSUME NEW bill \in Document, NEW order \in Document,
         NEW i \in UnpairedBill(bill, pair_lines(bill, order)),
         NEW j \in UnpairedOrder(order, pair_lines(bill, order)),
         NEW p \in pair_lines(bill, order), p \notin ByItem(bill, order)
  PROVE  /\ bill[p[1]].text # bill[i].text
         /\ bill[p[1]].text # order[j].text
         /\ order[p[2]].text # order[j].text
<1>1. i \in DOMAIN bill /\ j \in DOMAIN order /\ p[1] # i /\ p[2] # j
  BY DEF UnpairedBill, UnpairedOrder
<1>2. ASSUME NEW pairs, pairs \subseteq pair_lines(bill, order), Pairing(bill, order, pairs),
             NEW tier \in {"text", "loose"}, p \in Tier(bill, order, pairs, tier) \ pairs
      PROVE  /\ KeyOf(bill[p[1]], tier) # KeyOf(bill[i], tier)
             /\ KeyOf(bill[p[1]], tier) # KeyOf(order[j], tier)
             /\ KeyOf(order[p[2]], tier) # KeyOf(order[j], tier)
  <2>1. i \in UnpairedBill(bill, pairs) /\ j \in UnpairedOrder(order, pairs)
    BY <1>2 DEF UnpairedBill, UnpairedOrder
  <2>2. /\ Sole(bill, UnpairedBill(bill, pairs), KeyOf(bill[p[1]], tier), p[1], tier)
        /\ Sole(order, UnpairedOrder(order, pairs), KeyOf(bill[p[1]], tier), p[2], tier)
    BY <1>2, TierKeeps
  <2> QED
    BY <1>1, <2>1, <2>2 DEF Sole
<1>3. \/ p \in Tier(bill, order, ByItem(bill, order), "text") \ ByItem(bill, order)
      \/ p \in Tier(bill, order, ByText(bill, order), "loose") \ ByText(bill, order)
  BY Tiers DEF ByText
<1>4. /\ Pairing(bill, order, ByItem(bill, order)) /\ Pairing(bill, order, ByText(bill, order))
      /\ ByItem(bill, order) \subseteq pair_lines(bill, order)
      /\ ByText(bill, order) \subseteq pair_lines(bill, order)
  BY PairsAre, TiersGrow
<1>5. \E tier \in {"text", "loose"} :
        /\ KeyOf(bill[p[1]], tier) # KeyOf(bill[i], tier)
        /\ KeyOf(bill[p[1]], tier) # KeyOf(order[j], tier)
        /\ KeyOf(order[p[2]], tier) # KeyOf(order[j], tier)
  BY <1>2, <1>3, <1>4
<1>6. \A b, o : b.text = o.text => KeyOf(b, "text") = KeyOf(o, "text")
                                  /\ KeyOf(b, "loose") = KeyOf(o, "loose")
  BY DEF KeyOf
<1> QED
  BY <1>5, <1>6

\* other is the document lines, but for the wording of its line i.
Rewords(lines, other, i, text) ==
  /\ other \in Document /\ DOMAIN other = DOMAIN lines
  /\ \A k \in DOMAIN lines \ {i} : other[k] = lines[k]
  /\ other[i].item = lines[i].item /\ other[i].text = text

\* The one line of the bill left over, worded as the one line of the order left
\* over, pairs with it, and nothing else changes.
LEMMA Reworded ==
  ASSUME NEW bill \in Document, NEW order \in Document,
         NEW i, UnpairedBill(bill, pair_lines(bill, order)) = {i},
         NEW j, UnpairedOrder(order, pair_lines(bill, order)) = {j},
         order[j].text # None,
         NEW bill2, Rewords(bill, bill2, i, order[j].text)
  PROVE  pair_lines(bill2, order) = pair_lines(bill, order) \cup {<<i, j>>}
<1> USE DEF Rewords
<1> DEFINE pairs == pair_lines(bill, order)
           item == ByItem(bill, order)
           text == ByText(bill, order)
           left == UnpairedBill(bill, item)
           right == UnpairedOrder(order, item)
<1>1. i \in DOMAIN bill /\ j \in DOMAIN order
  BY DEF UnpairedBill, UnpairedOrder
<1>2. item \subseteq text /\ text \subseteq pairs
  BY TiersGrow
<1>3. /\ left \in SUBSET DOMAIN bill /\ right \in SUBSET DOMAIN order
      /\ i \in left /\ j \in right
  BY <1>2 DEF UnpairedBill, UnpairedOrder
<1>4. /\ Pairing(bill, order, item) /\ Pairing(bill, order, text) /\ Pairing(bill, order, pairs)
      /\ Pairing(bill2, order, pair_lines(bill2, order))
  BY PairsAre
<1>5. \A k \in DOMAIN bill : KeyOf(bill2[k], "item") = KeyOf(bill[k], "item")
  BY DEF KeyOf
<1>6. /\ \A k : KeyOf(bill[k], "text") = bill[k].text /\ KeyOf(bill2[k], "text") = bill2[k].text
      /\ \A k : KeyOf(order[k], "text") = order[k].text
  BY DEF KeyOf
<1>7. ByItem(bill2, order) = item
  <2>1. UnpairedBill(bill, {}) = DOMAIN bill /\ UnpairedBill(bill2, {}) = DOMAIN bill
    BY DEF UnpairedBill
  <2>2. UnpairedOrder(order, {}) = DOMAIN order
    BY DEF UnpairedOrder
  <2>3. \A k \in DOMAIN bill, l \in DOMAIN order :
          <<k, l>> \in unique_match(bill2, order, DOMAIN bill, DOMAIN order, "item") <=>
            <<k, l>> \in unique_match(bill, order, DOMAIN bill, DOMAIN order, "item")
    <3> SUFFICES ASSUME NEW k \in DOMAIN bill, NEW l \in DOMAIN order
                 PROVE  <<k, l>> \in unique_match(bill2, order, DOMAIN bill, DOMAIN order, "item")
                          <=> <<k, l>> \in unique_match(bill, order, DOMAIN bill, DOMAIN order,
                                                        "item")
      OBVIOUS
    <3>1. KeyOf(bill2[k], "item") = KeyOf(bill[k], "item")
      BY <1>5
    <3>2. Sole(bill2, DOMAIN bill, KeyOf(bill[k], "item"), k, "item") <=>
            Sole(bill, DOMAIN bill, KeyOf(bill[k], "item"), k, "item")
      BY <1>5 DEF Sole
    <3> QED
      BY <3>1, <3>2, Matched
  <2>4. /\ unique_match(bill2, order, DOMAIN bill, DOMAIN order, "item")
             \subseteq (DOMAIN bill) \X (DOMAIN order)
        /\ unique_match(bill, order, DOMAIN bill, DOMAIN order, "item")
             \subseteq (DOMAIN bill) \X (DOMAIN order)
    BY DEF unique_match
  <2>5. unique_match(bill2, order, DOMAIN bill, DOMAIN order, "item") =
          unique_match(bill, order, DOMAIN bill, DOMAIN order, "item")
    BY <2>3, <2>4
  <2> QED
    BY <2>1, <2>2, <2>5 DEF ByItem, Tier
<1>8. UnpairedBill(bill2, item) = left
  BY DEF UnpairedBill
<1>9. \A k \in left \ {i} :
        bill2[k] = bill[k] /\ bill[k].text # bill[i].text /\ bill[k].text # order[j].text
  <2> SUFFICES ASSUME NEW k \in left \ {i}
               PROVE  bill[k].text # bill[i].text /\ bill[k].text # order[j].text
    BY <1>3
  <2>1. PICK p \in pairs : p[1] = k
    BY <1>3 DEF UnpairedBill
  <2>2. p \notin item
    BY <2>1 DEF UnpairedBill
  <2> QED
    BY <2>1, <2>2, Bystanders
<1>10. \A l \in right \ {j} : order[l].text # order[j].text
  <2> SUFFICES ASSUME NEW l \in right \ {j} PROVE order[l].text # order[j].text
    OBVIOUS
  <2>1. PICK p \in pairs : p[2] = l
    BY <1>3 DEF UnpairedOrder
  <2>2. p \notin item
    BY <2>1 DEF UnpairedOrder
  <2> QED
    BY <2>1, <2>2, Bystanders
<1>11. ByText(bill2, order) = text \cup {<<i, j>>}
  <2> DEFINE new == unique_match(bill, order, left, right, "text")
             new2 == unique_match(bill2, order, left, right, "text")
  <2>1. text = item \cup new /\ ByText(bill2, order) = item \cup new2
    BY <1>7, <1>8 DEF ByText, Tier
  <2>2. new \subseteq left \X right /\ new2 \subseteq left \X right
    BY DEF unique_match
  <2>3. \A k \in left, l \in right :
          /\ <<k, l>> \in new <=> /\ bill[k].text # None
                                  /\ Sole(bill, left, bill[k].text, k, "text")
                                  /\ Sole(order, right, bill[k].text, l, "text")
          /\ <<k, l>> \in new2 <=> /\ bill2[k].text # None
                                   /\ Sole(bill2, left, bill2[k].text, k, "text")
                                   /\ Sole(order, right, bill2[k].text, l, "text")
    <3> HIDE DEF left, right
    <3>1. ASSUME NEW lines \in Document, left \in SUBSET DOMAIN lines, NEW tier
          PROVE  \A k, l :
                   <<k, l>> \in unique_match(lines, order, left, right, tier) <=>
                     /\ KeyOf(lines[k], tier) # None
                     /\ Sole(lines, left, KeyOf(lines[k], tier), k, tier)
                     /\ Sole(order, right, KeyOf(lines[k], tier), l, tier)
      BY <1>3, <3>1, Matched
    <3>2. \A k, l : /\ <<k, l>> \in new <=>
                         /\ KeyOf(bill[k], "text") # None
                         /\ Sole(bill, left, KeyOf(bill[k], "text"), k, "text")
                         /\ Sole(order, right, KeyOf(bill[k], "text"), l, "text")
                    /\ <<k, l>> \in new2 <=>
                         /\ KeyOf(bill2[k], "text") # None
                         /\ Sole(bill2, left, KeyOf(bill2[k], "text"), k, "text")
                         /\ Sole(order, right, KeyOf(bill2[k], "text"), l, "text")
      BY <1>3, <3>1
    <3> HIDE DEF new, new2
    <3>3. ASSUME NEW k \in left, NEW l \in right
          PROVE  /\ <<k, l>> \in new <=> /\ bill[k].text # None
                                         /\ Sole(bill, left, bill[k].text, k, "text")
                                         /\ Sole(order, right, bill[k].text, l, "text")
                 /\ <<k, l>> \in new2 <=> /\ bill2[k].text # None
                                          /\ Sole(bill2, left, bill2[k].text, k, "text")
                                          /\ Sole(order, right, bill2[k].text, l, "text")
      <4>1. KeyOf(bill[k], "text") = bill[k].text /\ KeyOf(bill2[k], "text") = bill2[k].text
        BY <1>6
      <4> QED
        BY <3>2, <4>1
    <3> QED
      BY <3>3
  <2>4. \A k \in left \ {i}, l \in right : <<k, l>> \in new2 <=> <<k, l>> \in new
    <3> SUFFICES ASSUME NEW k \in left \ {i}, NEW l \in right
                 PROVE  <<k, l>> \in new2 <=> <<k, l>> \in new
      OBVIOUS
    <3>1. bill2[k].text = bill[k].text
      BY <1>9
    <3>2. Sole(bill2, left, bill[k].text, k, "text") <=> Sole(bill, left, bill[k].text, k, "text")
      <4> HIDE DEF left
      <4> QED
        BY <1>6, <1>9 DEF Sole
    <3> QED
      BY <2>3, <3>1, <3>2
  <2>5. <<i, j>> \in new2
    <3> HIDE DEF left, right
    <3>1. Sole(bill2, left, order[j].text, i, "text")
      BY <1>3, <1>6, <1>9 DEF Sole
    <3>2. Sole(order, right, order[j].text, j, "text")
      BY <1>3, <1>6, <1>10 DEF Sole
    <3> QED
      BY <1>3, <2>3, <3>1, <3>2
  <2>6. \A l \in right : <<i, l>> \in new2 => l = j
    <3> HIDE DEF left, right
    <3> QED
      BY <1>3, <1>6, <2>3 DEF Sole
  <2>7. \A l : <<i, l>> \notin new
    <3>1. \A l : <<i, l>> \in new => <<i, l>> \in pairs /\ <<i, l>>[1] = i
      BY <1>2, <2>1
    <3> QED
      BY <3>1 DEF UnpairedBill
  <2>8. new2 = new \cup {<<i, j>>}
    <3> HIDE DEF new, new2, left, right
    <3> QED
      BY <1>3, <2>2, <2>4, <2>5, <2>6, <2>7
  <2> QED
    BY <2>1, <2>8
<1>12. pairs \cup {<<i, j>>} \subseteq pair_lines(bill2, order)
  <2> DEFINE rest == UnpairedBill(bill, text)
             others == UnpairedOrder(order, text)
             rest2 == UnpairedBill(bill2, text \cup {<<i, j>>})
             others2 == UnpairedOrder(order, text \cup {<<i, j>>})
  <2>1. rest2 = rest \ {i} /\ others2 = others \ {j}
    <3> DEFINE p == <<i, j>>
    <3>1. p[1] = i /\ p[2] = j
      OBVIOUS
    <3> HIDE DEF text, p
    <3>2. /\ UnpairedBill(bill2, text \cup {p}) = UnpairedBill(bill, text) \ {i}
          /\ UnpairedOrder(order, text \cup {p}) = UnpairedOrder(order, text) \ {j}
      BY <3>1 DEF UnpairedBill, UnpairedOrder
    <3> QED
      BY <3>2 DEF p
  <2>2. rest \in SUBSET DOMAIN bill /\ others \in SUBSET DOMAIN order
    BY DEF UnpairedBill, UnpairedOrder
  <2>3. pair_lines(bill2, order) =
          text \cup {<<i, j>>} \cup unique_match(bill2, order, rest2, others2, "loose")
    BY <1>11, Tiers DEF Tier
  <2>4. ASSUME NEW p \in pairs \ text
        PROVE  p \in unique_match(bill2, order, rest2, others2, "loose")
    <3> DEFINE key == KeyOf(bill[p[1]], "loose")
    <3>1. /\ p = <<p[1], p[2]>> /\ key # None
          /\ Sole(bill, rest, key, p[1], "loose") /\ Sole(order, others, key, p[2], "loose")
      BY <1>4, TierKeeps, Tiers
    <3>2. p[1] # i /\ p[2] # j
      BY DEF UnpairedBill, UnpairedOrder
    <3> HIDE DEF rest, others, rest2, others2, key
    <3>3. \A k \in rest2 : bill2[k] = bill[k]
      BY <2>1, <2>2
    <3>4. /\ p[1] \in rest2 /\ p[2] \in others2
          /\ Sole(bill2, rest2, key, p[1], "loose") /\ Sole(order, others2, key, p[2], "loose")
      BY <2>1, <3>1, <3>2, <3>3 DEF Sole
    <3>5. KeyOf(bill2[p[1]], "loose") = key
      BY <3>3, <3>4 DEF key
    <3>6. <<p[1], p[2]>> \in unique_match(bill2, order, rest2, others2, "loose")
      BY <2>1, <2>2, <3>1, <3>4, <3>5, Matched
    <3> QED
      BY <3>1, <3>6
  <2> QED
    BY <2>3, <2>4
<1>13. \A p \in pair_lines(bill2, order) : p \in pairs \cup {<<i, j>>}
  <2> SUFFICES ASSUME NEW p \in pair_lines(bill2, order) PROVE p \in pairs \cup {<<i, j>>}
    OBVIOUS
  <2>1. p = <<p[1], p[2]>> /\ p[1] \in DOMAIN bill
    BY <1>4 DEF Pairing
  <2>2. PICK q \in pairs \cup {<<i, j>>} : q[1] = p[1]
    <3>1. CASE p[1] = i
      <4>1. <<i, j>>[1] = p[1]
        BY <3>1
      <4> QED
        BY <4>1
    <3>2. CASE p[1] # i
      BY <2>1, <3>2 DEF UnpairedBill
    <3> QED
      BY <3>1, <3>2
  <2>3. q \in pair_lines(bill2, order)
    BY <1>12
  <2>4. q = <<q[1], q[2]>> /\ q[2] = p[2]
    BY <1>4, <2>2, <2>3 DEF Pairing
  <2> QED
    BY <2>1, <2>2, <2>4
<1> QED
  BY <1>12, <1>13

\* What the gate says where the model may be asked.
LEMMA PermittedIs ==
  ASSUME NEW bill \in Document, NEW order \in Document, NEW head \in Heading,
         reconcile(bill, order, head).permitted
  PROVE  /\ Eligible(bill, head)
         /\ Found(bill, order, head) \cap SEMANTIC_BLOCKING_CODES = {}
         /\ \E i \in DOMAIN bill, j \in DOMAIN order :
              /\ UnpairedBill(bill, pair_lines(bill, order)) = {i}
              /\ UnpairedOrder(order, pair_lines(bill, order)) = {j}
              /\ LinesAgree(bill[i], order[j])
              /\ order[j].text # None
<1> DEFINE residual == ResidualComparison(bill, order, pair_lines(bill, order))
<1>1. ASSUME NEW exceptions, NEW enabled, NEW gate, finalise(exceptions, enabled, gate).permitted
      PROVE  exceptions \cap SEMANTIC_BLOCKING_CODES = {} /\ gate = "RESIDUAL_PAIR_TEXT_ONLY"
  <2>1. exceptions # {}
    <3>1. Silent("MATCHED", None).permitted = FALSE
      BY DEF Silent
    <3> QED
      BY <1>1, <3>1, Finalised
  <2> QED
    BY <1>1, <2>1, Finalised
<1>2. Eligible(bill, head)
  <2> SUFFICES ASSUME ~Eligible(bill, head) PROVE FALSE
    OBVIOUS
  <2>1. \/ reconcile(bill, order, head) =
             Silent("UNPROCESSABLE", check_bill_eligibility(head.bill, bill))
        \/ \E codes \in (SUBSET PROCUREMENT) \ {{}} :
             reconcile(bill, order, head) =
               finalise(Plain(head.duplicates) \cup Plain(codes), head.enabled,
                        "NO_RESIDUAL_PAIR")
    BY Stopped, Zenon
  <2>2. Silent("UNPROCESSABLE", check_bill_eligibility(head.bill, bill)).permitted = FALSE
    BY DEF Silent
  <2>3. PICK codes : reconcile(bill, order, head) =
               finalise(Plain(head.duplicates) \cup Plain(codes), head.enabled,
                        "NO_RESIDUAL_PAIR")
    BY <2>1, <2>2
  <2> DEFINE exceptions == Plain(head.duplicates) \cup Plain(codes)
  <2> HIDE DEF exceptions
  <2>4. finalise(exceptions, head.enabled, "NO_RESIDUAL_PAIR").permitted
    BY <2>3 DEF exceptions
  <2> QED
    BY <1>1, <2>4
<1>3. finalise(Found(bill, order, head), head.enabled, residual.gate).permitted
  BY <1>2, Reconciled
<1>4. /\ Found(bill, order, head) \cap SEMANTIC_BLOCKING_CODES = {}
      /\ residual.gate = "RESIDUAL_PAIR_TEXT_ONLY"
  <2> HIDE DEF residual
  <2> QED
    BY <1>1, <1>3
<1>5. PICK i \in DOMAIN bill, j \in DOMAIN order :
        /\ UnpairedBill(bill, pair_lines(bill, order)) = {i}
        /\ UnpairedOrder(order, pair_lines(bill, order)) = {j}
        /\ residual.gate =
             IF compare_line(bill[i], order[j]) # {}
             THEN "RESIDUAL_PAIR_DETERMINISTIC_MISMATCH"
             ELSE IF DescriptionsInBounds(bill[i], order[j])
                  THEN "RESIDUAL_PAIR_TEXT_ONLY"
                  ELSE "RESIDUAL_DESCRIPTION_OUT_OF_BOUNDS"
  BY <1>4, ResidualIs
<1>6. compare_line(bill[i], order[j]) = {} /\ DescriptionsInBounds(bill[i], order[j])
  BY <1>4, <1>5
<1>7. LinesAgree(bill[i], order[j]) /\ order[j].text # None
  BY <1>6, Lines, LineCodes DEF DescriptionsInBounds
<1> QED
  BY <1>2, <1>4, <1>5, <1>7

\* Where nothing found blocks the model, a line without a pair is all there is.
LEMMA NothingBlocks ==
  ASSUME NEW bill \in Document, NEW order \in Document, NEW head \in Heading,
         Found(bill, order, head) \cap SEMANTIC_BLOCKING_CODES = {}
  PROVE  /\ head.duplicates = {} /\ head.bill.currency = head.order.currency
         /\ PairCodes(bill, order) = {}
         /\ Variances(head.bill, head.order, TotalTolerance, TotalCode) = {}
<1>1. ASSUME NEW codes \in SUBSET (DUPLICATE \cup CURRENCY \cup PROCUREMENT \cup FINANCE
                                    \cup AGGREGATE),
             Plain(codes) \subseteq Found(bill, order, head)
      PROVE  codes = {}
  <2>1. codes \subseteq ExceptionCode \ {"UNPAIRED_LINE"}
    BY DEF ExceptionCode, DUPLICATE, CURRENCY, PROCUREMENT, FINANCE, AGGREGATE
  <2>2. Plain(codes) \subseteq SEMANTIC_BLOCKING_CODES
    BY <2>1 DEF SEMANTIC_BLOCKING_CODES, Plain
  <2>3. Plain(codes) = {}
    BY <1>1, <2>2
  <2> QED
    BY <2>3, Plains
<1>2. /\ Plain(head.duplicates) \subseteq Found(bill, order, head)
      /\ Plain(PairCodes(bill, order)) \subseteq Found(bill, order, head)
      /\ Plain(Variances(head.bill, head.order, TotalTolerance, TotalCode))
           \subseteq Found(bill, order, head)
      /\ Plain(IF head.bill.currency # head.order.currency THEN CURRENCY ELSE {})
           \subseteq Found(bill, order, head)
  BY DEF Found
<1>3. head.duplicates = {}
  BY <1>1, <1>2, HeadIs
<1>4. PairCodes(bill, order) = {}
  BY <1>1, <1>2, PairCodesAre
<1>5. Variances(head.bill, head.order, TotalTolerance, TotalCode) = {}
  <2>1. Variances(head.bill, head.order, TotalTolerance, TotalCode) \subseteq AGGREGATE
    BY TotalVariances DEF AGGREGATE
  <2> QED
    BY <1>1, <1>2, <2>1
<1>6. head.bill.currency = head.order.currency
  BY <1>1, <1>2 DEF CURRENCY
<1> QED
  BY <1>3, <1>4, <1>5, <1>6

\* The model may be asked only where wording is all that is open: had the bill
\* worded the one line left over as the order does, it would be matched
\* (ResidualComparison, the gate in _finalise).
THEOREM WordingIsAllThatIsAsked == EngineSpec => []OnlyWordingIsAsked
<1>1. ASSUME EngineInv PROVE OnlyWordingIsAsked
  <2> DEFINE bill == input.bill
             order == input.order
             head == input.head
             pairs == pair_lines(bill, order)
  <2>0. bill \in Document /\ order \in Document /\ head \in Heading
    BY <1>1, InputIs
  <2> SUFFICES ASSUME decision.permitted
               PROVE  \E i \in DOMAIN bill, j \in DOMAIN order :
                        reconcile([bill EXCEPT ![i].text = order[j].text], order,
                                  head).outcome = "MATCHED"
    BY DEF OnlyWordingIsAsked
  <2>1. reconcile(bill, order, head).permitted
    BY <1>1, NotCalledIs DEF EngineInv
  <2>2. /\ Eligible(bill, head)
        /\ Found(bill, order, head) \cap SEMANTIC_BLOCKING_CODES = {}
    BY <2>0, <2>1, PermittedIs
  <2>3. PICK i \in DOMAIN bill, j \in DOMAIN order :
          /\ UnpairedBill(bill, pairs) = {i} /\ UnpairedOrder(order, pairs) = {j}
          /\ LinesAgree(bill[i], order[j]) /\ order[j].text # None
    BY <2>0, <2>1, PermittedIs
  <2> DEFINE bill2 == [bill EXCEPT ![i].text = order[j].text]
  <2>4. /\ bill2 \in Document /\ DOMAIN bill2 = DOMAIN bill
        /\ \A k \in DOMAIN bill \ {i} : bill2[k] = bill[k]
        /\ bill2[i] = [bill[i] EXCEPT !.text = order[j].text]
    <3>1. /\ DOMAIN bill = 1 .. Len(bill) /\ Len(bill) \in Nat
          /\ \A k \in DOMAIN bill : bill[k] \in LineItem
          /\ \A k \in DOMAIN order : order[k] \in LineItem
      BY <2>0 DEF Document
    <3>2. [bill[i] EXCEPT !.text = order[j].text] \in LineItem
      BY <3>1 DEF LineItem
    <3>3. bill2 \in [1 .. Len(bill) -> LineItem]
      BY <3>1, <3>2
    <3> QED
      BY <2>0, <3>1, <3>3 DEF Document
  <2> HIDE DEF bill2
  <2>5. /\ bill2[i].item = bill[i].item /\ bill2[i].text = order[j].text
        /\ LinesAgree(bill2[i], order[j])
    <3>1. bill[i] \in LineItem
      BY <2>0, Lines
    <3>2. /\ bill2[i].item = bill[i].item /\ bill2[i].text = order[j].text
          /\ bill2[i].quantity = bill[i].quantity /\ bill2[i].unit_amount = bill[i].unit_amount
          /\ bill2[i].line_amount = bill[i].line_amount
          /\ bill2[i].tax_amount = bill[i].tax_amount
          /\ bill2[i].tax_type = bill[i].tax_type /\ bill2[i].account = bill[i].account
      BY <2>4, <3>1 DEF LineItem
    <3> QED
      BY <2>3, <3>2 DEF LinesAgree
  <2>6. pair_lines(bill2, order) = pairs \cup {<<i, j>>}
    <3>1. Rewords(bill, bill2, i, order[j].text)
      BY <2>4, <2>5 DEF Rewords
    <3> QED
      BY <2>0, <2>3, <3>1, Reworded
  <2>7. /\ head.duplicates = {} /\ head.bill.currency = head.order.currency
        /\ PairCodes(bill, order) = {}
        /\ Variances(head.bill, head.order, TotalTolerance, TotalCode) = {}
    BY <2>0, <2>2, NothingBlocks
  <2>8. AllPaired(bill2, order)
    <3> DEFINE p == <<i, j>>
    <3>1. p[1] = i /\ p[2] = j
      OBVIOUS
    <3> HIDE DEF p, pairs
    <3>2. UnpairedBill(bill2, pairs \cup {p}) = {} /\ UnpairedOrder(order, pairs \cup {p}) = {}
      BY <2>3, <2>4, <3>1 DEF UnpairedBill, UnpairedOrder
    <3> QED
      BY <2>6, <3>2 DEF AllPaired, p
  <2>9. \A p \in pair_lines(bill2, order) : LinesAgree(bill2[p[1]], order[p[2]])
    <3> SUFFICES ASSUME NEW p \in pair_lines(bill2, order)
                 PROVE  LinesAgree(bill2[p[1]], order[p[2]])
      OBVIOUS
    <3>1. CASE p = <<i, j>>
      BY <2>5, <3>1
    <3>2. CASE p \in pairs
      <4>1. LinesAgree(bill[p[1]], order[p[2]])
        BY <2>0, <2>7, <3>2, PairCodesAre
      <4>2. p[1] \in DOMAIN bill \ {i}
        BY <2>0, <2>3, <3>2, PairTypes DEF UnpairedBill
      <4> QED
        BY <2>4, <4>1, <4>2
    <3> QED
      BY <2>6, <3>1, <3>2
  <2>10. Eligible(bill2, head)
    BY <2>0, <2>2, <2>4, Lines DEF Eligible
  <2>11. Found(bill2, order, head) = {}
    BY <2>0, <2>4, <2>7, <2>8, <2>9, FoundNothing
  <2>12. reconcile(bill2, order, head).outcome = "MATCHED"
    BY <2>0, <2>4, <2>10, <2>11, MatchedIs
  <2> QED
    BY <2>12 DEF bill2
<1> QED
  BY <1>1, Answered, PTL

-----------------------------------------------------------------------------
(* The shape of a decision                                                   *)

\* Documents of one length leave no line of one without one of the other.
LEMMA Counted ==
  ASSUME NEW bill \in Document, NEW order \in Document, Len(bill) = Len(order)
  PROVE  LET pairs == pair_lines(bill, order)
         IN  UnpairedBill(bill, pairs) = {} <=> UnpairedOrder(order, pairs) = {}
<1> DEFINE pairs == pair_lines(bill, order)
           D == DOMAIN bill
<1>1. DOMAIN order = D
  BY DEF Document
<1>2. ASSUME NEW k \in D, NEW f \in [D -> D \ {k}] PROVE \E x, y \in D : x # y /\ f[x] = f[y]
  <2>1. IsFiniteSet(D)
    BY Lines
  <2>2. IsFiniteSet(D \ {k}) /\ Cardinality(D \ {k}) = Cardinality(D) - 1
        /\ Cardinality(D) \in Nat
    BY <2>1, FS_RemoveElement, FS_CardinalityType
  <2> HIDE DEF D
  <2> QED
    BY <1>2, <2>1, <2>2, FS_PigeonHole
<1>3. \A p \in pairs : p[1] \in D /\ p[2] \in D
  BY <1>1, PairTypes
<1>4. \A p, q \in pairs : p[1] = q[1] <=> p[2] = q[2]
  BY PairsAre DEF Pairing
<1> HIDE DEF pairs, D
<1>5. ASSUME NEW k \in UnpairedBill(bill, pairs), UnpairedOrder(order, pairs) = {} PROVE FALSE
  <2> DEFINE Of(j) == CHOOSE p \in pairs : p[2] = j
             f == [j \in D |-> Of(j)[1]]
  <2>1. ASSUME NEW j \in D PROVE Of(j) \in pairs /\ Of(j)[2] = j
    <3>1. \E p \in pairs : p[2] = j
      BY <1>1, <1>5, <2>1 DEF UnpairedOrder
    <3> QED
      BY <3>1
  <2>2. k \in D /\ \A p \in pairs : p[1] # k
    BY <1>5 DEF UnpairedBill, D
  <2> HIDE DEF Of
  <2>3. f \in [D -> D \ {k}]
    BY <1>3, <2>1, <2>2
  <2>4. PICK x, y \in D : x # y /\ f[x] = f[y]
    BY <1>2, <2>2, <2>3
  <2>5. Of(x)[1] = Of(y)[1]
    BY <2>4
  <2> QED
    BY <1>4, <2>1, <2>4, <2>5
<1>6. ASSUME NEW k \in UnpairedOrder(order, pairs), UnpairedBill(bill, pairs) = {} PROVE FALSE
  <2> DEFINE Of(i) == CHOOSE p \in pairs : p[1] = i
             f == [i \in D |-> Of(i)[2]]
  <2>1. ASSUME NEW i \in D PROVE Of(i) \in pairs /\ Of(i)[1] = i
    <3>1. \E p \in pairs : p[1] = i
      BY <1>6, <2>1 DEF UnpairedBill, D
    <3> QED
      BY <3>1
  <2>2. k \in D /\ \A p \in pairs : p[2] # k
    BY <1>1, <1>6 DEF UnpairedOrder
  <2> HIDE DEF Of
  <2>3. f \in [D -> D \ {k}]
    BY <1>3, <2>1, <2>2
  <2>4. PICK x, y \in D : x # y /\ f[x] = f[y]
    BY <1>2, <2>2, <2>3
  <2>5. Of(x)[2] = Of(y)[2]
    BY <2>4
  <2> QED
    BY <1>4, <2>1, <2>4, <2>5
<1> QED
  BY <1>5, <1>6 DEF pairs

\* Every gate but the one for no pair of lines left over.
Gate ==
  {"RESIDUAL_PAIR_TEXT_ONLY", "RESIDUAL_PAIR_DETERMINISTIC_MISMATCH",
   "RESIDUAL_DESCRIPTION_OUT_OF_BOUNDS", "MULTIPLE_RESIDUAL_CANDIDATES"}

\* That one is never recorded, where it always comes with a code that blocks.
LEMMA FinalisedIsTyped ==
  ASSUME NEW exceptions \in SUBSET Exception, NEW enabled \in BOOLEAN, NEW gate,
         gate \in Gate \/ exceptions \cap SEMANTIC_BLOCKING_CODES # {} \/ exceptions = {}
  PROVE  finalise(exceptions, enabled, gate) \in ReconciliationResult
<1> DEFINE blocked == exceptions \cap SEMANTIC_BLOCKING_CODES # {}
           permitted == ~blocked /\ gate = "RESIDUAL_PAIR_TEXT_ONLY"
           stage == IF ~permitted THEN "NOT_REQUIRED" ELSE IF enabled THEN "PENDING" ELSE "DISABLED"
           recorded == IF blocked THEN BlockedReason(gate) ELSE gate
           reasons == {"DETERMINISTIC_EXCEPTION"}
             \cup ({"AMBIGUOUS_MULTIPLE_CANDIDATES"} \cap {e.code : e \in exceptions})
             \cup (IF stage = "DISABLED" THEN {"SEMANTIC_REVIEW_DISABLED"} ELSE {})
<1>1. CASE exceptions = {}
  <2>1. finalise(exceptions, enabled, gate) = Silent("MATCHED", None)
    BY <1>1, Finalised
  <2> QED
    BY <2>1 DEF Silent, ReconciliationResult
<1>2. CASE exceptions # {}
  <2>1. finalise(exceptions, enabled, gate) =
          [outcome |-> "REVIEW_REQUIRED", unprocessable |-> None, exceptions |-> exceptions,
           permitted |-> permitted, gate |-> recorded, stage |-> stage,
           destination |-> route(exceptions), reasons |-> reasons]
    BY <1>2 DEF finalise
  <2>2. permitted \in BOOLEAN
    OBVIOUS
  <2>3. recorded \in Gate \cup {"HEADER_OR_PAIRED_LINE_EXCEPTION"}
    BY <1>2 DEF BlockedReason, Gate
  <2>4. stage \in {"NOT_REQUIRED", "PENDING", "DISABLED"}
    OBVIOUS
  <2>5. route(exceptions) \in {"FINANCE", "PROCUREMENT", "AP_REVIEW", "DUPLICATE_REVIEW"}
    BY DEF route
  <2>6. reasons \in SUBSET {"DETERMINISTIC_EXCEPTION", "AMBIGUOUS_MULTIPLE_CANDIDATES",
                            "SEMANTIC_REVIEW_DISABLED"}
    OBVIOUS
  <2> HIDE DEF permitted, stage, recorded, reasons
  <2> QED
    BY <2>1, <2>2, <2>3, <2>4, <2>5, <2>6 DEF ReconciliationResult, Gate
<1> QED
  BY <1>1, <1>2

LEMMA ExceptionsTyped ==
  ASSUME NEW codes \in SUBSET ExceptionCode, NEW residual \in BOOLEAN
  PROVE  {[code |-> c, residual |-> residual] : c \in codes} \in SUBSET Exception
<1> DEFINE Raised(c) == [code |-> c, residual |-> residual]
<1>1. \A c \in codes : Raised(c) \in Exception
  BY DEF Exception
<1> HIDE DEF Raised
<1>2. {Raised(c) : c \in codes} \in SUBSET Exception
  BY <1>1
<1> QED
  BY <1>2 DEF Raised

LEMMA PlainTyped ==
  ASSUME NEW codes \in SUBSET ExceptionCode
  PROVE  Plain(codes) \in SUBSET Exception
BY ExceptionsTyped DEF Plain

LEMMA FoundIsTyped ==
  ASSUME NEW bill \in Document, NEW order \in Document, NEW head \in Heading
  PROVE  LET found == Found(bill, order, head)
             gate == ResidualComparison(bill, order, pair_lines(bill, order)).gate
         IN  /\ found \in SUBSET Exception
             /\ gate \in Gate \/ found \cap SEMANTIC_BLOCKING_CODES # {} \/ found = {}
<1> DEFINE pairs == pair_lines(bill, order)
           left == UnpairedBill(bill, pairs)
           right == UnpairedOrder(order, pairs)
           residual == ResidualComparison(bill, order, pairs)
           found == Found(bill, order, head)
<1>1. residual.exceptions \in SUBSET Exception
  <2>1. "AMBIGUOUS_MULTIPLE_CANDIDATES" \in ExceptionCode
    BY DEF ExceptionCode, AP_REVIEW
  <2>2. Plain({"AMBIGUOUS_MULTIPLE_CANDIDATES"}) \in SUBSET Exception
    BY <2>1, PlainTyped
  <2>3. ASSUME NEW i \in DOMAIN bill, NEW j \in DOMAIN order
        PROVE  {[code |-> c, residual |-> TRUE] : c \in compare_line(bill[i], order[j])}
                 \in SUBSET Exception
    <3>1. compare_line(bill[i], order[j]) \subseteq ExceptionCode
      BY Lines, LineCodes DEF ExceptionCode
    <3> QED
      BY <3>1, ExceptionsTyped
  <2>4. \/ residual.exceptions = Plain({"AMBIGUOUS_MULTIPLE_CANDIDATES"})
        \/ residual.exceptions = {}
        \/ \E i \in DOMAIN bill, j \in DOMAIN order :
             residual.exceptions =
               {[code |-> c, residual |-> TRUE] : c \in compare_line(bill[i], order[j])}
    BY ResidualIs
  <2> HIDE DEF residual
  <2> QED
    BY <2>2, <2>3, <2>4
<1>2. found \in SUBSET Exception
  <2>1. head.duplicates \in SUBSET ExceptionCode
    BY HeadIs DEF ExceptionCode
  <2>2. PairCodes(bill, order) \in SUBSET ExceptionCode
    BY PairCodesAre DEF ExceptionCode
  <2>3. Variances(head.bill, head.order, TotalTolerance, TotalCode) \in SUBSET ExceptionCode
    BY TotalVariances DEF ExceptionCode, AGGREGATE
  <2>4. (IF head.bill.currency # head.order.currency THEN CURRENCY ELSE {}) \in SUBSET ExceptionCode
    BY DEF ExceptionCode
  <2>5. ({"UNPAIRED_LINE"} \cup IF Len(bill) # Len(order) THEN {"LINE_COUNT_MISMATCH"} ELSE {})
          \in SUBSET ExceptionCode
    BY DEF ExceptionCode, AP_REVIEW
  <2>6. UnpairedCodes(bill, order, pairs) \in SUBSET Exception
    BY <2>5, PlainTyped DEF UnpairedCodes
  <2>7. /\ Plain(head.duplicates) \in SUBSET Exception
        /\ Plain(PairCodes(bill, order)) \in SUBSET Exception
        /\ Plain(Variances(head.bill, head.order, TotalTolerance, TotalCode)) \in SUBSET Exception
        /\ Plain(IF head.bill.currency # head.order.currency THEN CURRENCY ELSE {})
             \in SUBSET Exception
    BY <2>1, <2>2, <2>3, <2>4, PlainTyped
  <2> HIDE DEF residual, pairs
  <2> QED
    BY <1>1, <2>6, <2>7 DEF Found, residual, pairs
<1>3. ASSUME residual.gate \notin Gate, found \cap SEMANTIC_BLOCKING_CODES = {} PROVE found = {}
  <2>1. (left = {} \/ right = {}) /\ residual.exceptions = {}
    BY <1>3, ResidualIs DEF Gate
  <2>2. /\ head.duplicates = {} /\ head.bill.currency = head.order.currency
        /\ PairCodes(bill, order) = {}
        /\ Variances(head.bill, head.order, TotalTolerance, TotalCode) = {}
    BY <1>3, NothingBlocks
  <2>3. CASE left \cup right = {}
    <3>1. UnpairedCodes(bill, order, pairs) = {}
      BY <2>3 DEF UnpairedCodes
    <3>2. Plain({}) = {}
      BY DEF Plain
    <3>3. Plain(IF head.bill.currency # head.order.currency THEN CURRENCY ELSE {}) = {}
      BY <2>2, <3>2
    <3> QED
      BY <2>1, <2>2, <3>1, <3>2, <3>3 DEF Found
  <2>4. CASE left \cup right # {}
    <3>1. Len(bill) # Len(order)
      BY <2>1, <2>4, Counted
    <3> DEFINE e == [code |-> "LINE_COUNT_MISMATCH", residual |-> FALSE]
    <3>2. e \in UnpairedCodes(bill, order, pairs)
      BY <2>4, <3>1 DEF UnpairedCodes, Plain
    <3>3. e \in found
      BY <3>2 DEF Found
    <3>4. e \in SEMANTIC_BLOCKING_CODES
      BY DEF SEMANTIC_BLOCKING_CODES, Plain, ExceptionCode, AP_REVIEW
    <3> QED
      BY <1>3, <3>3, <3>4
  <2> QED
    BY <2>3, <2>4
<1> QED
  BY <1>2, <1>3

\* Whatever the documents, the call decides, and its decision has its shape: the
\* gate for no pair of lines left over is never recorded, as documents of one
\* length never leave over a line of one only (reconcile, _finalise, route).
THEOREM DecisionIsTyped == EngineSpec => []ResultIsTyped
<1>1. ASSUME EngineInv PROVE ResultIsTyped
  <2> DEFINE bill == input.bill
             order == input.order
             head == input.head
  <2>0. bill \in Document /\ order \in Document /\ head \in Heading
    BY <1>1, InputIs
  <2>1. head.enabled \in BOOLEAN
    BY <2>0 DEF Heading
  <2>2. NotCalled \in ReconciliationResult
    BY DEF NotCalled, Silent, ReconciliationResult
  <2>3. CASE Eligible(bill, head)
    <3> DEFINE found == Found(bill, order, head)
               gate == ResidualComparison(bill, order, pair_lines(bill, order)).gate
    <3>1. reconcile(bill, order, head) = finalise(found, head.enabled, gate)
      BY <2>0, <2>3, Reconciled
    <3>2. /\ found \in SUBSET Exception
          /\ gate \in Gate \/ found \cap SEMANTIC_BLOCKING_CODES # {} \/ found = {}
      BY <2>0, FoundIsTyped
    <3> HIDE DEF found, gate
    <3>3. reconcile(bill, order, head) \in ReconciliationResult
      BY <2>1, <3>1, <3>2, FinalisedIsTyped
    <3> QED
      BY <1>1, <2>2, <3>3 DEF EngineInv, ResultIsTyped
  <2>4. CASE ~Eligible(bill, head)
    <3>1. \/ reconcile(bill, order, head) =
               Silent("UNPROCESSABLE", check_bill_eligibility(head.bill, bill))
          \/ \E codes \in (SUBSET PROCUREMENT) \ {{}} :
               reconcile(bill, order, head) =
                 finalise(Plain(head.duplicates) \cup Plain(codes), head.enabled,
                          "NO_RESIDUAL_PAIR")
      BY <2>0, <2>4, Stopped, Zenon
    <3>2. Silent("UNPROCESSABLE", check_bill_eligibility(head.bill, bill)) \in ReconciliationResult
      <4>1. check_bill_eligibility(head.bill, bill) \in Range(UnprocessableReason) \cup {None}
        BY <2>0, BillEligible
      <4> QED
        BY <4>1 DEF Silent, ReconciliationResult
    <3>3. ASSUME NEW codes \in (SUBSET PROCUREMENT) \ {{}}
          PROVE  finalise(Plain(head.duplicates) \cup Plain(codes), head.enabled,
                          "NO_RESIDUAL_PAIR") \in ReconciliationResult
      <4> DEFINE exceptions == Plain(head.duplicates) \cup Plain(codes)
      <4>1. head.duplicates \in SUBSET ExceptionCode /\ codes \in SUBSET ExceptionCode
        BY <2>0, HeadIs DEF ExceptionCode
      <4>2. exceptions \in SUBSET Exception
        BY <4>1, PlainTyped
      <4>3. codes \subseteq ExceptionCode \ {"UNPAIRED_LINE"}
        BY <4>1 DEF PROCUREMENT
      <4>4. Plain(codes) \subseteq SEMANTIC_BLOCKING_CODES /\ Plain(codes) # {}
        <5>1. Plain(codes) \subseteq SEMANTIC_BLOCKING_CODES
          BY <4>3 DEF SEMANTIC_BLOCKING_CODES, Plain
        <5>2. Plain(codes) # {}
          BY Plains
        <5> QED
          BY <5>1, <5>2
      <4>5. exceptions \cap SEMANTIC_BLOCKING_CODES # {}
        BY <4>4
      <4> HIDE DEF exceptions
      <4>6. finalise(exceptions, head.enabled, "NO_RESIDUAL_PAIR") \in ReconciliationResult
        BY <2>1, <4>2, <4>5, FinalisedIsTyped
      <4> QED
        BY <4>6 DEF exceptions
    <3>4. reconcile(bill, order, head) \in ReconciliationResult
      BY <3>1, <3>2, <3>3
    <3> QED
      BY <1>1, <2>2, <3>4 DEF EngineInv, ResultIsTyped
  <2> QED
    BY <2>3, <2>4
<1> QED
  BY <1>1, Answered, PTL
=============================================================================
