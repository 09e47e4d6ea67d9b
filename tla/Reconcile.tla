------------------------------ MODULE Reconcile ------------------------------
(***************************************************************************)
(* The reconcile endpoint for several runs at once: the claim of the run's  *)
(* key, the duplicate check between bills reconciled at the same time, and  *)
(* the decision, which is committed with the key's result.                  *)
(*                                                                          *)
(* A step is one call to Xero, one SQL statement, or the commit.  What the  *)
(* engine decides about the bill itself is in Engine: here a bill is the     *)
(* duplicate keys it is given, and whether it is eligible.                  *)
(***************************************************************************)
EXTENDS Naturals, FiniteSets, FiniteSetsExt

CONSTANTS
  Run,           \* runs
  Request,       \* requests that can be in flight at once
  InvoiceOf,     \* the Xero bill of each run: a bill saved again has several
  InvoiceKey,    \* hashes of supplier and number, numbered in their sort order
  BusinessKey,   \* hashes of supplier, total, currency, day and order
  MaxFaults      \* bound: crashes, failures and leases lost early

ASSUME ReconcileAssumption ==
  /\ InvoiceKey \subseteq Nat /\ BusinessKey \subseteq Nat
  /\ IsFiniteSet(InvoiceKey \cup BusinessKey)
  /\ "NOBODY" \notin Run \cup Request
  /\ MaxFaults \in Nat

VARIABLES
  claim,     \* the registry row of each run's key `<run>-reconcile`
  result,    \* what each run was decided: its row and reconciliation_results
  lock,      \* the transaction holding each key's advisory lock
  request,   \* what each request is doing
  faults     \* faults so far

vars == <<claim, result, lock, request, faults>>

-----------------------------------------------------------------------------
(* Values                                                                   *)

Key == InvoiceKey \cup BusinessKey

Nobody == "NOBODY"

\* A bill without a number has no invoice key, and is not eligible.
Bill ==
  {b \in [keys: SUBSET Key, eligible: BOOLEAN] :
     /\ Cardinality(b.keys \cap BusinessKey) = 1
     /\ Cardinality(b.keys \cap InvoiceKey) \in IF b.eligible THEN {1} ELSE {0, 1}}

\* keys are the duplicate keys on the run's row, hits those found on others.
Result == [decided: BOOLEAN, keys: SUBSET Key, hits: SUBSET Key]

Undecided == [decided |-> FALSE, keys |-> {}, hits |-> {}]

\* FREE stands for no row and for a retryable failure, which execute alike.
Claim == [status: {"FREE", "HELD", "DONE"}, holder: Request \cup {Nobody}]

Pc == {"idle", "fetch", "lock", "look", "update", "commit", "release"}

\* left is the keys still to lock, then those still to look up.
Idle == [pc |-> "idle", run |-> Nobody, eligible |-> FALSE, keys |-> {},
         left |-> {}, hits |-> {}]

RequestState ==
  [pc: Pc, run: Run \cup {Nobody}, eligible: BOOLEAN, keys: SUBSET Key,
   left: SUBSET Key, hits: SUBSET Key]

TypeOK ==
  /\ claim \in [Run -> Claim]
  /\ result \in [Run -> Result]
  /\ lock \in [Key -> Request \cup {Nobody}]
  /\ request \in [Request -> RequestState]
  /\ faults \in Nat

Executing(q, run) == request[q].run = run

Abandoned(run) ==
  /\ claim[run].status = "HELD"
  /\ \A q \in Request : claim[run].holder = q => ~Executing(q, run)

Fault == faults < MaxFaults /\ faults' = faults + 1

GoTo(q, pc) == request' = [request EXCEPT ![q].pc = pc]

\* A transaction's advisory locks go with it.
Unlock(q) == lock' = [k \in Key |-> IF lock[k] = q THEN Nobody ELSE lock[k]]

-----------------------------------------------------------------------------
(* The call and what is read before the transaction                         *)

\* The run's key executes: it never did, the last execution failed, or the
\* holder's lease has run out, which on a live holder is a fault.  A key with a
\* result is replayed, and one whose lease runs is refused: neither is a step.
Call(q, run) ==
  /\ request[q].pc = "idle"
  /\ \/ claim[run].status = "FREE" /\ UNCHANGED faults
     \/ Abandoned(run) /\ UNCHANGED faults
     \/ claim[run].status = "HELD" /\ ~Abandoned(run) /\ Fault
  /\ claim' = [claim EXCEPT ![run] = [status |-> "HELD", holder |-> q]]
  /\ request' = [request EXCEPT ![q] = [Idle EXCEPT !.pc = "fetch", !.run = run]]
  /\ UNCHANGED <<result, lock>>

\* Xero answers with the bill as it is now, which people may have saved again
\* since the run was ingested.
Fetch(q) ==
  /\ request[q].pc = "fetch"
  /\ \E b \in Bill :
       request' = [request EXCEPT ![q].pc = "lock", ![q].eligible = b.eligible,
                                  ![q].keys = b.keys, ![q].left = b.keys]
  /\ UNCHANGED <<claim, result, lock, faults>>

-----------------------------------------------------------------------------
(* The transaction                                                          *)

\* Mutant: the keys are locked in whatever order the set gives them.
AnyOfThem(q, k) == k \in request[q].left

\* Keys are locked in sorted order.
Wants(q, k) == k \in request[q].left /\ \A other \in request[q].left : k <= other

\* Mutant: the lookups begin when the first key is locked.
LockedOne(q, k) == {}

StillToLock(q, k) == request[q].left \ {k}

\* lock_duplicate_keys: one statement per key, which waits for its holder.
Lock(q, k) ==
  LET left == StillToLock(q, k)
  IN  /\ request[q].pc = "lock"
      /\ Wants(q, k)
      /\ lock[k] = Nobody
      /\ lock' = [lock EXCEPT ![k] = q]
      /\ request' = [request EXCEPT
           ![q].pc = IF left = {} THEN "look" ELSE "lock",
           ![q].left = IF left = {} THEN request[q].keys ELSE left]
      /\ UNCHANGED <<claim, result, faults>>

\* A run of a different bill was decided with this key.
OnAnotherBill(run, k) ==
  \E other \in Run : InvoiceOf[other] # InvoiceOf[run] /\ k \in result[other].keys

\* find_duplicate_hits: one SELECT per key.
LookUp(q, k) ==
  /\ request[q].pc = "look"
  /\ k \in request[q].left
  /\ request' = [request EXCEPT
       ![q].left = @ \ {k},
       ![q].hits = IF OnAnotherBill(request[q].run, k) THEN @ \cup {k} ELSE @,
       ![q].pc = IF request[q].left = {k} THEN "update" ELSE "look"]
  /\ UNCHANGED <<claim, result, lock, faults>>

RowLocked(run) == \E q \in Request : request[q].pc = "commit" /\ request[q].run = run

\* Mutant: the run becomes RECONCILING whatever it is.
UpdateAnyway(q) ==
  /\ request[q].pc = "update"
  /\ ~RowLocked(request[q].run)
  /\ GoTo(q, "commit")
  /\ UNCHANGED <<claim, result, lock, faults>>

\* The run becomes RECONCILING.  A run with an outcome cannot: the statement
\* fails, and the request with it.
Update(q) ==
  /\ request[q].pc = "update"
  /\ ~RowLocked(request[q].run)
  /\ IF result[request[q].run].decided
     THEN GoTo(q, "release") /\ Unlock(q)
     ELSE GoTo(q, "commit") /\ UNCHANGED lock
  /\ UNCHANGED <<claim, result, faults>>

\* An UNPROCESSABLE bill leaves no keys for others to find.
Decision(q) ==
  [decided |-> TRUE,
   keys |-> IF request[q].eligible THEN request[q].keys ELSE {},
   hits |-> IF request[q].eligible THEN request[q].hits ELSE {}]

\* The decision and the key's result in one transaction; the result is not
\* recorded when the claim is another's by now.
Commit(q) ==
  LET run == request[q].run
  IN  /\ request[q].pc = "commit"
      /\ result' = [result EXCEPT ![run] = Decision(q)]
      /\ claim' = IF claim[run] = [status |-> "HELD", holder |-> q]
                  THEN [claim EXCEPT ![run].status = "DONE"] ELSE claim
      /\ Unlock(q)
      /\ request' = [request EXCEPT ![q] = Idle]
      /\ UNCHANGED faults

\* Xero, a statement or the commit fails, and the transaction is rolled back.
Fails(q) ==
  /\ request[q].pc \in {"fetch", "lock", "look", "update", "commit"}
  /\ Fault
  /\ GoTo(q, "release")
  /\ Unlock(q)
  /\ UNCHANGED <<claim, result>>

\* _release_claim: the run's key may execute again.
Release(q) ==
  LET run == request[q].run
  IN  /\ request[q].pc = "release"
      /\ claim' = IF claim[run] = [status |-> "HELD", holder |-> q]
                  THEN [claim EXCEPT ![run] = [status |-> "FREE", holder |-> Nobody]]
                  ELSE claim
      /\ request' = [request EXCEPT ![q] = Idle]
      /\ UNCHANGED <<result, lock, faults>>

\* The process dies, and its transaction with it.
Crash(q) ==
  /\ request[q].pc # "idle"
  /\ Fault
  /\ Unlock(q)
  /\ request' = [request EXCEPT ![q] = Idle]
  /\ UNCHANGED <<claim, result>>

-----------------------------------------------------------------------------

Init ==
  /\ claim = [run \in Run |-> [status |-> "FREE", holder |-> Nobody]]
  /\ result = [run \in Run |-> Undecided]
  /\ lock = [k \in Key |-> Nobody]
  /\ request = [q \in Request |-> Idle]
  /\ faults = 0

Proceed(q) ==
  \/ Fetch(q)
  \/ \E k \in Key : Lock(q, k) \/ LookUp(q, k)
  \/ Update(q) \/ Commit(q) \/ Release(q)

Next ==
  \E q \in Request :
    \/ \E run \in Run : Call(q, run)
    \/ Proceed(q) \/ Fails(q) \/ Crash(q)

Spec == Init /\ [][Next]_vars

\* Requests run on: PostgreSQL grants a lock in the order it was asked for, so
\* none waits for ever while others take it.  A run's reconcile is called until
\* its key has a result: by the operator for a run left INGESTED, and by the
\* poll and workflow 02 for a review case without a card.
Fairness ==
  /\ \A q \in Request : SF_vars(Proceed(q))
  /\ \A run \in Run : SF_vars(\E q \in Request : Call(q, run))

FairSpec == Spec /\ Fairness

-----------------------------------------------------------------------------
(* Properties                                                               *)

\* Of two bills decided with a common key, at least one was found a duplicate
\* of the other, however their reconciliations overlapped
\* (lock_duplicate_keys: "both come back MATCHED").
DuplicateIsFlagged ==
  \A r, s \in Run : InvoiceOf[r] # InvoiceOf[s] =>
    \A k \in result[r].keys \cap result[s].keys : k \in result[r].hits \cup result[s].hits

\* A bill is a duplicate of another bill only: neither of its own earlier
\* version nor of a bill that was not decided with the key
\* (find_duplicate_hits).
FlagIsReal ==
  \A r \in Run : \A k \in result[r].hits :
    \E s \in Run : InvoiceOf[s] # InvoiceOf[r] /\ k \in result[s].keys

\* A run is decided once, also by a request whose lease ran out and the one
\* that took its place (uq_recon_run, I28).
DecidedOnce == [][\A run \in Run : result[run].decided => result'[run] = result[run]]_vars

WaitsFor(q, other) ==
  \/ request[q].pc = "lock" /\ \E k \in Key : Wants(q, k) /\ lock[k] = other
  \/ request[q].pc = "update" /\ request[other].pc = "commit"
                              /\ request[other].run = request[q].run

\* No requests wait for each other in a circle (lock_duplicate_keys: "two
\* transactions sharing both keys cannot deadlock").
NoCircularWait ==
  \A waiting \in SUBSET Request :
    waiting # {} => \E q \in waiting : \A other \in waiting : ~WaitsFor(q, other)

Holds(q, run) == claim[run] = [status |-> "HELD", holder |-> q]

TheKey(run) ==
  INSTANCE Registry WITH
    Caller <- Request, Reopens <- FALSE, status <- claim[run].status,
    holder <- {q \in Request : Executing(q, run) /\ Holds(q, run)},
    displaced <- {q \in Request : Executing(q, run) /\ ~Holds(q, run)}

\* Each run's key does for reconcile what the registry promises (claim, complete,
\* _release_claim).
KeysAreFenced ==
  /\ \A run \in Run : TheKey(run)!Init
  /\ [][\A run \in Run : [TheKey(run)!Next]_(TheKey(run)!vars)]_vars

OneByOne == INSTANCE Decisions

\* However reconciliations overlap, the decisions are those of bills taken one
\* at a time: between the lookups of a request and its commit nothing happens
\* that would have changed what it found, and no bill is decided twice
\* (lock_duplicate_keys, find_duplicate_hits).
DecidesOneByOne == OneByOne!Spec

\* Every run is decided, through waits and faults (lock_duplicate_keys).
EveryRunIsDecided == \A run \in Run : <>result[run].decided
=============================================================================
