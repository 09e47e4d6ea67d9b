------------------------------ MODULE Requests ------------------------------
(***************************************************************************)
(* The requests in flight, as the connection pool and their keys see them:   *)
(* the run endpoints, which keep a connection while Xero, Claude or Slack is *)
(* asked, and the alerts of workflow 03, which give theirs back before they  *)
(* post.  A step is what a request does between two waits: for a connection, *)
(* or for what it asked another service.                                     *)
(*                                                                           *)
(* What a run endpoint works at is in the other modules, and so are two      *)
(* requests that share a claim: here a key says only whether it is taken.    *)
(***************************************************************************)
EXTENDS Naturals, FiniteSets

CONSTANTS
  Run,          \* keys of the run endpoints
  Alert,        \* executions of workflow 03, each with a key of its own
  Failure,      \* what an alert tells: workflow, run, node and message
  Size,         \* max_size of the pool
  MaxTries      \* maxTries of workflow 03's Alert node, in each execution

\* One request at a time carries the key of a run; each try of an alert is a
\* request of its own, which may outlive n8n's patience.
Try == UNION {{a} \X (1..MaxTries[a]) : a \in Alert}
Request == Run \cup Try

ASSUME RequestsAssumption ==
  /\ Run \cap Alert = {} /\ Run \cap Try = {}
  /\ IsFiniteSet(Run)
  /\ Size \in Nat \ {0} /\ MaxTries \in [Alert -> Nat \ {0}]

VARIABLES
  request,    \* what each request waits for
  key,        \* the status of each key in the registry
  node,       \* the Alert node of each execution of workflow 03
  tries,      \* the requests it has sent
  impatient,  \* the executions whose node has given up waiting for a request
  told,       \* the failure each alert is about
  posts,      \* the alerts whose message is in the alerts channel
  fresh,      \* the alerts posted within the last REPEAT_WINDOW
  lost        \* the keys a request of which ended without its outcome on record

n8n == <<node, tries, impatient>>
vars == <<request, key, node, tries, impatient, told, posts, fresh, lost>>

-----------------------------------------------------------------------------
(* Values                                                                    *)

\* connect waits for the first connection, release for a second one in which
\* to record that the work failed; post waits for Slack, record and withdraw
\* for a connection in which to record the answer.
Pc == {"off", "connect", "work", "release", "post", "record", "withdraw"}

\* A key that was never used, or failed and may run again, is free.
Status == {"free", "processing", "done", "posted", "suppressed"}

TypeOK ==
  /\ request \in [Request -> Pc]
  /\ key \in [Run \cup Alert -> Status]
  /\ node \in [Alert -> {"idle", "due", "waiting", "ok", "failed"}]
  /\ tries \in [Alert -> Nat]
  /\ \A a \in Alert : tries[a] <= MaxTries[a]
  /\ impatient \subseteq Alert
  /\ told \in [Alert -> Failure]
  /\ posts \subseteq Alert
  /\ fresh \subseteq Alert
  /\ lost \subseteq Run \cup Alert

KeyOf(r) == IF r \in Run THEN r ELSE r[1]

\* A run endpoint has its connection from the claim to the end.
Holds(r) == request[r] \in {"work", "release"}

Free == Cardinality({r \in Run : Holds(r)}) < Size

\* A request that has claimed its key and not recorded how it ended.
Working(k) ==
  \E r \in Request : KeyOf(r) = k /\ request[r] \notin {"off", "connect"}

-----------------------------------------------------------------------------
(* A request to a run endpoint                                               *)

Arrive(r) ==
  /\ request[r] = "off"
  /\ request' = [request EXCEPT ![r] = "connect"]
  /\ UNCHANGED <<key, n8n, told, posts, fresh, lost>>

\* The claim, and its commit: the work begins, or the answer is the recorded
\* result, or IN_PROGRESS.
Claim(r) ==
  /\ request[r] = "connect"
  /\ Free
  /\ IF key[r] = "free"
     THEN /\ request' = [request EXCEPT ![r] = "work"]
          /\ key' = [key EXCEPT ![r] = "processing"]
     ELSE /\ request' = [request EXCEPT ![r] = "off"]
          /\ UNCHANGED key
  /\ UNCHANGED <<n8n, told, posts, fresh, lost>>

Succeed(r) ==
  /\ request[r] = "work"
  /\ request' = [request EXCEPT ![r] = "off"]
  /\ key' = [key EXCEPT ![r] = "done"]
  /\ UNCHANGED <<n8n, told, posts, fresh, lost>>

\* Mutant: the failure is answered and the claim is left as it is.
FailSilently(r) ==
  /\ request[r] = "work"
  /\ request' = [request EXCEPT ![r] = "off"]
  /\ UNCHANGED <<key, n8n, told, posts, fresh, lost>>

\* The work is rolled back; the connection stays with the request.
Fail(r) ==
  /\ request[r] = "work"
  /\ request' = [request EXCEPT ![r] = "release"]
  /\ UNCHANGED <<key, n8n, told, posts, fresh, lost>>

\* _release_claim, in a second connection.
Release(r) ==
  /\ request[r] = "release"
  /\ Free
  /\ request' = [request EXCEPT ![r] = "off"]
  /\ key' = [key EXCEPT ![r] = "free"]
  /\ UNCHANGED <<n8n, told, posts, fresh, lost>>

\* The lease of a claim that nobody works at any more.
LeaseExpires(k) ==
  /\ key[k] = "processing"
  /\ ~Working(k)
  /\ key' = [key EXCEPT ![k] = "free"]
  /\ lost' = lost \ {k}
  /\ UNCHANGED <<request, n8n, told, posts, fresh>>

-----------------------------------------------------------------------------
(* Workflow 03                                                               *)

Send(a) ==
  /\ node' = [node EXCEPT ![a] = "waiting"]
  /\ tries' = [tries EXCEPT ![a] = @ + 1]
  /\ request' = [request EXCEPT ![<<a, tries[a] + 1>>] = "connect"]
  /\ UNCHANGED <<key, impatient, told, posts, fresh, lost>>

\* Something failed in workflow 01 or 02: an execution of 03 begins.
Break(a) == node[a] = "idle" /\ Send(a)

Again(a) == node[a] = "due" /\ Send(a)

\* What the node does with an error: it tries again, or its execution fails.
AfterError(a) == IF tries[a] < MaxTries[a] THEN "due" ELSE "failed"

\* The request's answer reaches the node, if that still waits for it.
Answer(r, ok) ==
  LET a == r[1]
  IN  /\ node' = IF node[a] = "waiting" /\ tries[a] = r[2]
                 THEN [node EXCEPT ![a] = IF ok THEN "ok" ELSE AfterError(a)]
                 ELSE node
      /\ UNCHANGED <<tries, impatient>>

\* The node's own timeout: the request goes on without it.
GiveUp(a) ==
  /\ node[a] = "waiting"
  /\ request[<<a, tries[a]>>] # "off"
  /\ node' = [node EXCEPT ![a] = AfterError(a)]
  /\ impatient' = impatient \cup {a}
  /\ UNCHANGED <<request, key, tries, told, posts, fresh, lost>>

-----------------------------------------------------------------------------
(* A request to the alert endpoint                                           *)

\* Mutant: an identical alert counts as soon as its key is claimed.
ClaimedRecently(a) ==
  \E b \in Alert \ {a} : told[b] = told[a] /\ key[b] \in {"processing", "posted"}

\* _posted_recently
PostedRecently(a) == \E b \in fresh : told[b] = told[a]

\* The claim and the look for an identical alert.  A replay and IN_PROGRESS are
\* answers below 400: all the node asks.
ClaimAlert(r) ==
  LET a == r[1]
  IN  /\ request[r] = "connect"
      /\ Free
      /\ \/ /\ key[a] # "free"
            /\ request' = [request EXCEPT ![r] = "off"]
            /\ Answer(r, TRUE)
            /\ UNCHANGED <<key, fresh>>
         \/ /\ key[a] = "free"
            /\ PostedRecently(a)
            /\ request' = [request EXCEPT ![r] = "off"]
            /\ Answer(r, TRUE)
            /\ key' = [key EXCEPT ![a] = "suppressed"]
            /\ UNCHANGED fresh
         \/ /\ key[a] = "free"
            /\ ~PostedRecently(a)
            /\ request' = [request EXCEPT ![r] = "post"]
            /\ key' = [key EXCEPT ![a] = "processing"]
            /\ UNCHANGED <<n8n, fresh>>
      /\ UNCHANGED <<told, posts, lost>>

\* Slack shows the message; whether its answer comes in time is open.
Post(r) ==
  /\ request[r] = "post"
  /\ posts' = posts \cup {r[1]}
  /\ \E next \in {"record", "withdraw"} : request' = [request EXCEPT ![r] = next]
  /\ UNCHANGED <<key, n8n, told, fresh, lost>>

\* Mutant: what Slack refused is recorded like what it posted.
RefuseUnnoticed(r) ==
  /\ request[r] = "post"
  /\ request' = [request EXCEPT ![r] = "record"]
  /\ UNCHANGED <<key, n8n, told, posts, fresh, lost>>

\* Slack refuses the message, or does not get it.
Refuse(r) ==
  /\ request[r] = "post"
  /\ request' = [request EXCEPT ![r] = "withdraw"]
  /\ UNCHANGED <<key, n8n, told, posts, fresh, lost>>

Record(r) ==
  /\ request[r] = "record"
  /\ Free
  /\ request' = [request EXCEPT ![r] = "off"]
  /\ key' = [key EXCEPT ![r[1]] = "posted"]
  /\ fresh' = fresh \cup {r[1]}
  /\ Answer(r, TRUE)
  /\ UNCHANGED <<told, posts, lost>>

\* _release_claim: the key may run again, and the answer is an error.
Withdraw(r) ==
  /\ request[r] = "withdraw"
  /\ Free
  /\ request' = [request EXCEPT ![r] = "off"]
  /\ key' = [key EXCEPT ![r[1]] = "free"]
  /\ Answer(r, FALSE)
  /\ UNCHANGED <<told, posts, fresh, lost>>

\* REPEAT_WINDOW has passed since the alert was recorded as posted.
Age(a) ==
  /\ a \in fresh
  /\ fresh' = fresh \ {a}
  /\ UNCHANGED <<request, key, n8n, told, posts, lost>>

-----------------------------------------------------------------------------
(* What may happen to any request                                            *)

\* Mutant: only the first connection is waited for with a timeout.
TurnAwayNewcomer(r) ==
  /\ request[r] = "connect"
  /\ ~Free
  /\ request' = [request EXCEPT ![r] = "off"]
  /\ IF r \in Run THEN UNCHANGED n8n ELSE Answer(r, FALSE)
  /\ UNCHANGED <<key, told, posts, fresh, lost>>

\* No connection came free in time: PoolTimeout ends the request, and gives
\* back the connection it has.
TurnAway(r) ==
  /\ request[r] \in {"connect", "release", "record", "withdraw"}
  /\ ~Free
  /\ request' = [request EXCEPT ![r] = "off"]
  /\ lost' = IF request[r] = "connect" THEN lost ELSE lost \cup {KeyOf(r)}
  /\ IF r \in Run THEN UNCHANGED n8n ELSE Answer(r, FALSE)
  /\ UNCHANGED <<key, told, posts, fresh>>

\* The service restarts: every request in flight is cut off.
Restart ==
  /\ request' = [r \in Request |-> "off"]
  /\ lost' = lost \cup {k \in Run \cup Alert : Working(k)}
  /\ node' = [a \in Alert |->
       IF node[a] = "waiting" THEN AfterError(a) ELSE node[a]]
  /\ UNCHANGED <<key, tries, impatient, told, posts, fresh>>

-----------------------------------------------------------------------------

Init ==
  /\ request = [r \in Request |-> "off"]
  /\ key = [k \in Run \cup Alert |-> "free"]
  /\ node = [a \in Alert |-> "idle"]
  /\ tries = [a \in Alert |-> 0]
  /\ impatient = {}
  /\ told \in [Alert -> Failure]
  /\ posts = {} /\ fresh = {} /\ lost = {}

RunStep(r) == Claim(r) \/ Succeed(r) \/ Fail(r) \/ Release(r)
AlertStep(r) == ClaimAlert(r) \/ Post(r) \/ Refuse(r) \/ Record(r) \/ Withdraw(r)

Next ==
  \/ \E r \in Run : Arrive(r) \/ RunStep(r) \/ LeaseExpires(r)
  \/ \E a \in Alert : Break(a) \/ Again(a) \/ GiveUp(a) \/ Age(a)
  \/ \E r \in Try : AlertStep(r)
  \/ \E r \in Request : TurnAway(r)
  \/ Restart

Spec == Init /\ [][Next]_vars

\* What a request asked another service is answered, or its timeout ends it; it
\* gets a connection, or the pool's timeout ends it; n8n's scheduler runs on.
Fairness ==
  /\ \A r \in Run : WF_vars(RunStep(r) \/ TurnAway(r))
  /\ WF_vars(\E r \in Try : AlertStep(r) \/ TurnAway(r))
  /\ WF_vars(\E a \in Alert : Again(a))

FairSpec == Spec /\ Fairness

-----------------------------------------------------------------------------
(* Properties                                                                *)

\* A request ends with its outcome on record, so that the same key can run
\* again: a claim is left behind only by a request that a restart or the pool's
\* timeout cut off (_release_claim and the endpoints' except branches).
ClaimIsReleased ==
  \A k \in Run \cup Alert : key[k] = "processing" => Working(k) \/ k \in lost

\* An alert is suppressed only when an identical one reached the channel within
\* the window, never because of one that was itself suppressed, was refused or is
\* still to be posted (_posted_recently).
SuppressedIsHeard ==
  [][\A a \in Alert :
       key'[a] = "suppressed" /\ key[a] # "suppressed" =>
         \E b \in fresh \cap posts : told[b] = told[a]]_vars

\* When workflow 03 ends well the failure is in the channel, unless a try was cut
\* off or outlasted the node's patience: then the next one is told IN_PROGRESS,
\* which the node takes for success (alerts.alert, workflow 03's Alert node).
AlertIsHeard ==
  \A a \in Alert :
    node[a] = "ok" /\ a \notin impatient \cup lost =>
      \E b \in posts : told[b] = told[a]

\* Every request ends and so does every execution of workflow 03, though failing
\* requests may hold every connection and all wait for another (get_pool,
\* _release_claim).
EveryRequestEnds ==
  /\ \A r \in Run : []<>(request[r] = "off")
  /\ <>[](/\ \A r \in Try : request[r] = "off"
           /\ \A a \in Alert : node[a] \in {"idle", "ok", "failed"})
=============================================================================
