---------------------------- MODULE Idempotency ----------------------------
(***************************************************************************)
(* The idempotency registry for one key of one operation, and the requests   *)
(* that use the key: the first call, its repeats, and reuses of the key for  *)
(* another body.  A step is one SQL statement with the commit after it: the  *)
(* registry row is read without a lock and changed by conditional UPDATEs.   *)
(* Time is the running out of leases: expired holds the claims whose lease   *)
(* has ended, which may happen while the holder still works.                 *)
(***************************************************************************)
EXTENDS Naturals

CONSTANTS
  Request,      \* the calls carrying the key that can be in flight at once
  Hash,         \* request hashes
  MaxFaults,    \* bound: crashes, failed executions, leases lost while working
  MaxHandOffs   \* bound: hand-offs that outdate notify's recorded result

ASSUME IdempotencyAssumption == MaxFaults \in Nat /\ MaxHandOffs \in Nat

VARIABLES
  row,        \* the key's row of idempotency_registry
  expired,    \* the claims (generations) whose lease has run out
  owed,       \* awaits_card: the result on record is no longer true
  request,    \* what each request is doing, and the claim it holds
  faults,     \* faults so far
  handoffs    \* hand-offs so far

vars == <<row, expired, owed, request, faults, handoffs>>

-----------------------------------------------------------------------------
(* Values                                                                   *)

NoHash == "NO_HASH"

\* result is the claim that recorded the result, 0 before there is one.
NoRow == [status |-> "NONE", error_class |-> "NONE", hash |-> NoHash,
          generation |-> 0, result |-> 0]

Row == [status: {"NONE", "PROCESSING", "SUCCEEDED", "FAILED"},
        error_class: {"NONE", "RETRYABLE", "PERMANENT"},
        hash: Hash \cup {NoHash}, generation: Nat, result: Nat]

\* reclaim and retry are between the SELECT and the UPDATE of claim(); replay
\* and reopen are the notify endpoint's look at a replayed result; release is
\* an execution rolled back whose failure is still to be recorded.
Pc == {"idle", "reclaim", "retry", "replay", "reopen", "work", "release"}

Idle == [pc |-> "idle", hash |-> NoHash, generation |-> 0, error_class |-> "NONE"]

Call == [pc: Pc, hash: Hash \cup {NoHash}, generation: Nat,
         error_class: {"NONE", "RETRYABLE", "PERMANENT"}]

TypeOK ==
  /\ row \in Row
  /\ expired \subseteq Nat
  /\ owed \in BOOLEAN
  /\ request \in [Request -> Call]
  /\ faults \in Nat
  /\ handoffs \in Nat

\* A request that was given the claim and has not recorded how it ended.
Holding(r) == request[r].pc \in {"work", "release"}

\* complete() and fail() write for the current generation only.
OwnsClaim(r) ==
  /\ row.generation = request[r].generation
  /\ row.status = "PROCESSING"

Fault == faults < MaxFaults /\ faults' = faults + 1

-----------------------------------------------------------------------------
(* claim()                                                                  *)

\* The INSERT wins: the request executes as generation 0.
Insert(r, h) ==
  /\ request[r].pc = "idle"
  /\ row.status = "NONE"
  /\ row' = [NoRow EXCEPT !.status = "PROCESSING", !.hash = h]
  /\ request' = [request EXCEPT ![r] = [Idle EXCEPT !.pc = "work", !.hash = h]]
  /\ UNCHANGED <<expired, owed, faults, handoffs>>

\* Mutant: the hash is not compared.
ReadAnyBody(r, h) ==
  /\ request[r].pc = "idle"
  /\ \E pc \in Pc :
       /\ \/ row.status = "PROCESSING" /\ pc = "reclaim"
          \/ row.status = "SUCCEEDED" /\ pc = "replay"
          \/ row.status = "FAILED" /\ row.error_class = "RETRYABLE" /\ pc = "retry"
       /\ request' = [request EXCEPT ![r] = [Idle EXCEPT !.pc = pc, !.hash = h]]
  /\ UNCHANGED <<row, expired, owed, faults, handoffs>>

\* The row is there: its hash is compared, then its state decides.  A reused
\* key and a permanent failure are refused and the request is over, so a read
\* leads somewhere only in the other states.
Read(r, h) ==
  /\ request[r].pc = "idle"
  /\ row.hash = h
  /\ \E pc \in Pc :
       /\ \/ row.status = "PROCESSING" /\ pc = "reclaim"
          \/ row.status = "SUCCEEDED" /\ pc = "replay"
          \/ row.status = "FAILED" /\ row.error_class = "RETRYABLE" /\ pc = "retry"
       /\ request' = [request EXCEPT ![r] = [Idle EXCEPT !.pc = pc, !.hash = h]]
  /\ UNCHANGED <<row, expired, owed, faults, handoffs>>

\* Mutant: the generation is not incremented.
TakeOverAsBefore(r) ==
  /\ row' = [row EXCEPT !.status = "PROCESSING", !.error_class = "NONE", !.result = 0]
  /\ request' = [request EXCEPT ![r] = [@ EXCEPT !.pc = "work",
                                                 !.generation = row.generation]]
  /\ UNCHANGED <<expired, owed, faults, handoffs>>

\* The row is taken for a new generation, with a new lease.
TakeOver(r) ==
  /\ row' = [row EXCEPT !.status = "PROCESSING", !.error_class = "NONE",
                        !.generation = @ + 1, !.result = 0]
  /\ request' = [request EXCEPT ![r] = [@ EXCEPT !.pc = "work",
                                                 !.generation = row.generation + 1]]
  /\ UNCHANGED <<expired, owed, faults, handoffs>>

\* The UPDATE found the row changed: the request is answered IN_PROGRESS.
TurnedAway(r) ==
  /\ request' = [request EXCEPT ![r] = Idle]
  /\ UNCHANGED <<row, expired, owed, faults, handoffs>>

\* Mutant: a claim is taken over before its lease has run out.
ReclaimEarly(r) ==
  /\ request[r].pc = "reclaim"
  /\ IF row.status = "PROCESSING" THEN TakeOver(r) ELSE TurnedAway(r)

\* Mutant: a claim in progress is never taken over.
NeverReclaim(r) == request[r].pc = "reclaim" /\ TurnedAway(r)

\* An abandoned claim is taken over once its lease has run out.
Reclaim(r) ==
  /\ request[r].pc = "reclaim"
  /\ IF row.status = "PROCESSING" /\ row.generation \in expired
     THEN TakeOver(r)
     ELSE TurnedAway(r)

\* A retryable failure is executed again.  The UPDATE asks only that the row
\* has still failed, not how.
Retry(r) ==
  /\ request[r].pc = "retry"
  /\ IF row.status = "FAILED" THEN TakeOver(r) ELSE TurnedAway(r)

-----------------------------------------------------------------------------
(* A replayed result, and reopen()                                          *)

\* The recorded body is the answer, unless notify's endpoint finds the run
\* owed another card.
Replay(r) ==
  /\ request[r].pc = "replay"
  /\ request' = [request EXCEPT ![r] = IF owed THEN [@ EXCEPT !.pc = "reopen"] ELSE Idle]
  /\ UNCHANGED <<row, expired, owed, faults, handoffs>>

\* The result is withdrawn and the key executes again.
Reopen(r) ==
  /\ request[r].pc = "reopen"
  /\ IF row.status = "SUCCEEDED" THEN TakeOver(r) ELSE TurnedAway(r)

-----------------------------------------------------------------------------
(* How an execution ends                                                    *)

\* Mutant: complete() without the generation.
CompleteUnfenced(r) ==
  /\ request[r].pc = "work"
  /\ row' = IF row.status = "PROCESSING"
            THEN [row EXCEPT !.status = "SUCCEEDED", !.result = request[r].generation]
            ELSE row
  /\ owed' = FALSE
  /\ request' = [request EXCEPT ![r] = Idle]
  /\ UNCHANGED <<expired, faults, handoffs>>

\* The work and its result are committed together; a displaced holder writes
\* no result, yet its work stays.  Every caller ignores which it was.  Where
\* a hand-off overtook the post, the run is owed again: HandedOff comes next.
Complete(r) ==
  /\ request[r].pc = "work"
  /\ row' = IF OwnsClaim(r)
            THEN [row EXCEPT !.status = "SUCCEEDED", !.result = request[r].generation]
            ELSE row
  /\ owed' = FALSE
  /\ request' = [request EXCEPT ![r] = Idle]
  /\ UNCHANGED <<expired, faults, handoffs>>

\* The work fails: it is rolled back, or for notify the post that failed is kept
\* on record.
WorkFails(r) ==
  /\ request[r].pc = "work"
  /\ Fault
  /\ \E class \in {"RETRYABLE", "PERMANENT"} :
       request' = [request EXCEPT ![r] = [@ EXCEPT !.pc = "release", !.error_class = class]]
  /\ UNCHANGED <<row, expired, owed, handoffs>>

\* Mutant: fail() whoever holds the claim.
ReleaseUnfenced(r) ==
  /\ request[r].pc = "release"
  /\ row' = [row EXCEPT !.status = "FAILED", !.error_class = request[r].error_class]
  /\ request' = [request EXCEPT ![r] = Idle]
  /\ UNCHANGED <<expired, owed, faults, handoffs>>

\* _release_claim: the failure is recorded in a transaction of its own.
Release(r) ==
  /\ request[r].pc = "release"
  /\ row' = IF OwnsClaim(r)
            THEN [row EXCEPT !.status = "FAILED", !.error_class = request[r].error_class]
            ELSE row
  /\ request' = [request EXCEPT ![r] = Idle]
  /\ UNCHANGED <<expired, owed, faults, handoffs>>

\* The process dies; a claim it held stays PROCESSING.
Crash(r) ==
  /\ request[r].pc # "idle"
  /\ Fault
  /\ request' = [request EXCEPT ![r] = Idle]
  /\ UNCHANGED <<row, expired, owed, handoffs>>

-----------------------------------------------------------------------------
(* Time, and the run the key is about                                       *)

Abandoned == \A r \in Request : ~(Holding(r) /\ OwnsClaim(r))

\* The lease of the current claim runs out: on an abandoned claim it always
\* does, on a slow holder it is a fault.
LeaseRunsOut ==
  /\ row.status = "PROCESSING"
  /\ row.generation \notin expired
  /\ IF Abandoned THEN UNCHANGED faults ELSE Fault
  /\ expired' = expired \cup {row.generation}
  /\ UNCHANGED <<row, owed, request, handoffs>>

\* A hand-off owes the run another team's card.
HandedOff ==
  /\ row.status # "NONE"
  /\ handoffs < MaxHandOffs
  /\ handoffs' = handoffs + 1
  /\ owed' = TRUE
  /\ UNCHANGED <<row, expired, request, faults>>

\* The hand-off's own card work posts that card.
CardPosted ==
  /\ owed
  /\ owed' = FALSE
  /\ UNCHANGED <<row, expired, request, faults, handoffs>>

-----------------------------------------------------------------------------

Init ==
  /\ row = NoRow
  /\ expired = {}
  /\ owed = FALSE
  /\ request = [r \in Request |-> Idle]
  /\ faults = 0
  /\ handoffs = 0

Arrive(r) == \E h \in Hash : Insert(r, h) \/ Read(r, h)

Proceed(r) ==
  Reclaim(r) \/ Retry(r) \/ Replay(r) \/ Reopen(r) \/ Complete(r) \/ Release(r)

Next ==
  \/ \E r \in Request : Arrive(r) \/ Proceed(r) \/ WorkFails(r) \/ Crash(r)
  \/ LeaseRunsOut
  \/ HandedOff
  \/ CardPosted

Spec == Init /\ [][Next]_vars

\* Requests in flight run on, the clock runs, and the workflow repeats the call
\* (the poll re-sends the run) while nothing is on record for good.
Fairness ==
  /\ \A r \in Request : WF_vars(Proceed(r))
  /\ WF_vars(LeaseRunsOut)
  /\ SF_vars(\E r \in Request :
               Read(r, row.hash) /\ (row.status = "FAILED" \/ row.generation \in expired))

FairSpec == Spec /\ Fairness

-----------------------------------------------------------------------------
(* Properties                                                               *)

\* A claim is given to one request: of two racing for a new key, an abandoned
\* claim, a failed key or an outdated result, one executes (claim, reopen).
OneHolder ==
  \A r, s \in Request :
    Holding(r) /\ Holding(s) /\ request[r].generation = request[s].generation => r = s

\* A request still working has the claim, or has outlived its lease: nothing a
\* repeat, a failure or a reopening does displaces it earlier ("a request that
\* is still working is never doubled").
NeverDoubled ==
  \A r \in Request :
    Holding(r) => OwnsClaim(r) \/ request[r].generation \in expired

\* The result on record is the current claim's own: a request that outlived its
\* lease never records over the request that replaced it (complete).
ResultIsTheHolders == row.status = "SUCCEEDED" => row.result = row.generation

\* Whatever executes under the key is the request the key was claimed for: a
\* key reused for another body never executes (claim).
RightBody ==
  \A r \in Request : Holding(r) => request[r].hash = row.hash

\* A recorded result is given up only for a card that was found owed: a stale
\* holder's late failure or completion leaves it alone (reopen, fail).
ResultStands ==
  [][row.status = "SUCCEEDED" /\ row' # row =>
       \E r \in Request : request[r].pc = "reopen"]_vars

\* What the registry promises: FREE is a key that was never used, or has failed.
TheKey ==
  INSTANCE Registry WITH
    Caller <- Request, Reopens <- TRUE,
    status <- CASE row.status = "PROCESSING" -> "HELD"
                [] row.status = "SUCCEEDED" -> "DONE"
                [] OTHER -> "FREE",
    holder <- {r \in Request : Holding(r) /\ OwnsClaim(r)},
    displaced <- {r \in Request : Holding(r) /\ ~OwnsClaim(r)}

\* The generations, leases and conditional UPDATEs make one holder at a time, the
\* only one to record an end, of every interleaving of their statements (claim,
\* complete, fail, reopen).
KeyIsFenced == TheKey!Spec

\* A key in use comes to a result or a permanent failure: a crash, a lost lease
\* or a retryable failure never leaves it where no repeat can act (claim, fail).
NeverStuck ==
  row.status # "NONE" ~> row.status = "SUCCEEDED" \/ row.error_class = "PERMANENT"
=============================================================================
