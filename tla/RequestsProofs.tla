--------------------------- MODULE RequestsProofs ---------------------------
(***************************************************************************)
(* What holds of requests, keys and alerts for any number of them, any size  *)
(* of the pool and any number of tries.                                      *)
(***************************************************************************)
EXTENDS Requests, TLAPS

-----------------------------------------------------------------------------
(* The inductive invariant                                                   *)

Heard(a) == \E b \in posts : told[b] = told[a]

\* What an alert's key says about the channel is so.
KeyInv ==
  \A a \in Alert :
    /\ key[a] # "done"
    /\ key[a] = "posted" => a \in posts
    /\ key[a] = "suppressed" => Heard(a)

\* What makes an alert a repeat is in the channel.
FreshInv == fresh \subseteq posts

\* A request that goes to record a post has made it.
RecordInv == \A r \in Try : request[r] = "record" => r[1] \in posts

\* Until its node loses patience an alert has one request, which it waits for.
PatienceInv ==
  \A r \in Try :
    request[r] # "off" /\ r[1] \notin impatient =>
      node[r[1]] = "waiting" /\ tries[r[1]] = r[2]

\* The tries of an alert are sent in order.
SentInv == \A r \in Try : request[r] # "off" => r[2] <= tries[r[1]]

TriesInv ==
  \A a \in Alert :
    /\ node[a] = "idle" => tries[a] = 0
    /\ node[a] = "due" => tries[a] < MaxTries[a]

IInv ==
  /\ TypeOK
  /\ KeyInv
  /\ FreshInv
  /\ RecordInv
  /\ PatienceInv
  /\ SentInv
  /\ TriesInv
  /\ ClaimIsReleased
  /\ AlertIsHeard

-----------------------------------------------------------------------------
(* Requests and keys                                                         *)

LEMMA Tries ==
  ASSUME NEW r \in Try
  PROVE  /\ r \in Request /\ r \notin Run /\ r[1] \in Alert /\ r[2] \in 1..MaxTries[r[1]]
         /\ r = <<r[1], r[2]>> /\ KeyOf(r) = r[1] /\ r[1] \notin Run
  BY RequestsAssumption DEF Try, Request, KeyOf

LEMMA Runs ==
  ASSUME NEW r \in Run
  PROVE  r \in Request /\ r \notin Try /\ KeyOf(r) = r /\ r \notin Alert
  BY RequestsAssumption DEF Request, KeyOf

LEMMA RequestIsEither ==
  ASSUME NEW r \in Request
  PROVE  r \in Run \/ r \in Try
  BY DEF Request

\* A claim stays somebody's while the requests that may work at it go on.
LEMMA ClaimStays ==
  ASSUME NEW k, Working(k),
         \A q \in Request :
           KeyOf(q) = k /\ request[q] \notin {"off", "connect"} =>
             request'[q] \notin {"off", "connect"}
  PROVE  Working(k)'
  BY DEF Working

\* An alert whose node still waits for its request, and no request of which was
\* cut off, has no other request at work.
LEMMA NoOtherTry ==
  ASSUME IInv, NEW r \in Try, request[r] = "connect",
         r[1] \notin impatient, r[1] \notin lost
  PROVE  key[r[1]] # "processing"
<1> SUFFICES ASSUME key[r[1]] = "processing" PROVE FALSE
  OBVIOUS
<1>1. r[1] \in Alert
  BY Tries
<1>2. Working(r[1])
  BY <1>1 DEF IInv, ClaimIsReleased
<1>3. PICK q \in Request : KeyOf(q) = r[1] /\ request[q] \notin {"off", "connect"}
  BY <1>2 DEF Working
<1>4. q \in Try /\ q[1] = r[1]
  BY <1>1, <1>3, RequestIsEither, Runs, Tries
<1>5. q[2] = tries[r[1]] /\ r[2] = tries[r[1]]
  BY <1>3, <1>4 DEF IInv, PatienceInv
<1>6. q = r
  BY <1>4, <1>5, Tries
<1> QED
  BY <1>3, <1>6

-----------------------------------------------------------------------------
(* The steps                                                                 *)

LEMMA InitInv == Init => IInv
<1> SUFFICES ASSUME Init PROVE IInv
  OBVIOUS
<1>1. TypeOK
  BY RequestsAssumption DEF Init, TypeOK, Pc, Status
<1>2. KeyInv /\ FreshInv /\ RecordInv /\ PatienceInv /\ SentInv /\ ClaimIsReleased
  BY Tries DEF Init, KeyInv, FreshInv, RecordInv, PatienceInv, SentInv, ClaimIsReleased
<1>3. TriesInv /\ AlertIsHeard
  BY RequestsAssumption DEF Init, TriesInv, AlertIsHeard
<1> QED
  BY <1>1, <1>2, <1>3 DEF IInv

\* A step of a run's request leaves the alerts as they are.
LEMMA RunKeeps ==
  ASSUME IInv, NEW r \in Run, UNCHANGED <<n8n, told, posts, fresh>>,
         NEW p \in Pc, request' = [request EXCEPT ![r] = p],
         NEW s \in Status, key' = [key EXCEPT ![r] = s],
         lost' \in SUBSET (Run \cup Alert), \A k \in Run \cup Alert : k # r => (k \in lost <=> k \in lost'),
         s = "processing" => p \notin {"off", "connect"} \/ r \in lost'
  PROVE  IInv'
<1>1. TypeOK'
  BY Runs DEF IInv, TypeOK, n8n
<1>2. \A q \in Try : request'[q] = request[q]
  BY Runs DEF IInv, TypeOK
<1>3. \A a \in Alert : key'[a] = key[a] /\ (a \in lost <=> a \in lost')
  BY Runs DEF IInv, TypeOK
<1>4. KeyInv' /\ FreshInv'
  BY <1>3 DEF IInv, KeyInv, FreshInv, Heard
<1>5. RecordInv'
  BY <1>2 DEF IInv, RecordInv
<1>6. PatienceInv' /\ SentInv'
  BY <1>2 DEF IInv, PatienceInv, SentInv, n8n
<1>7. TriesInv'
  BY DEF IInv, TriesInv, n8n
<1>8. AlertIsHeard'
  BY <1>3 DEF IInv, AlertIsHeard, n8n
<1>9. ASSUME NEW k \in Run \cup Alert, key'[k] = "processing"
      PROVE  Working(k)' \/ k \in lost'
  <2>1. CASE k = r
    <3>1. s = "processing"
      BY <1>9, <2>1 DEF IInv, TypeOK
    <3>2. request'[r] = p
      BY Runs DEF IInv, TypeOK
    <3> QED
      BY <2>1, <3>1, <3>2, Runs DEF Working
  <2>2. CASE k # r
    <3>1. key[k] = "processing"
      BY <1>9, <2>2 DEF IInv, TypeOK
    <3>2. CASE k \in lost
      BY <2>2, <3>2
    <3>3. CASE Working(k)
      <4>1. \A q \in Request : KeyOf(q) = k => request'[q] = request[q]
        BY <2>2, Runs DEF IInv, TypeOK
      <4> QED
        BY <3>3, <4>1, ClaimStays
    <3> QED
      BY <3>1, <3>2, <3>3 DEF IInv, ClaimIsReleased
  <2> QED
    BY <2>1, <2>2
<1> QED
  BY <1>1, <1>4, <1>5, <1>6, <1>7, <1>8, <1>9 DEF IInv, ClaimIsReleased

LEMMA RunStepKeeps ==
  ASSUME IInv, NEW r \in Run, Arrive(r) \/ RunStep(r) \/ LeaseExpires(r) \/ TurnAway(r)
  PROVE  IInv'
<1>0. /\ r \in Request /\ KeyOf(r) = r /\ request[r] \in Pc /\ key[r] \in Status
      /\ request = [request EXCEPT ![r] = request[r]] /\ key = [key EXCEPT ![r] = key[r]]
      /\ lost \in SUBSET (Run \cup Alert)
  BY Runs DEF IInv, TypeOK
<1>a. key[r] = "processing" => request[r] \notin {"off", "connect"} \/ r \in lost
  <2>1. \A q \in Request : KeyOf(q) = r => q = r
    BY RequestIsEither, Runs, Tries
  <2> QED
    BY <2>1 DEF IInv, ClaimIsReleased, Working
<1>1. CASE Arrive(r)
  BY <1>0, <1>a, <1>1, RunKeeps DEF Arrive, Pc
<1>2. CASE Claim(r)
  <2>1. CASE key[r] = "free"
    BY <1>0, <1>2, <2>1, RunKeeps DEF Claim, Pc, Status
  <2>2. CASE key[r] # "free"
    BY <1>0, <1>a, <1>2, <2>2, RunKeeps DEF Claim, Pc
  <2> QED
    BY <2>1, <2>2
<1>3. CASE Succeed(r)
  BY <1>0, <1>3, RunKeeps DEF Succeed, Pc, Status
<1>4. CASE Fail(r)
  BY <1>0, <1>4, RunKeeps DEF Fail, Pc
<1>5. CASE Release(r)
  BY <1>0, <1>5, RunKeeps DEF Release, Pc, Status
<1>6. CASE LeaseExpires(r)
  BY <1>0, <1>6, RunKeeps DEF LeaseExpires, Status
<1>7. CASE TurnAway(r)
  <2>1. CASE request[r] = "connect"
    BY <1>0, <1>a, <1>7, <2>1, RunKeeps DEF TurnAway, Pc
  <2>2. CASE request[r] # "connect"
    <3>1. /\ lost' = lost \cup {r} /\ lost' \in SUBSET (Run \cup Alert)
          /\ request' = [request EXCEPT ![r] = "off"]
          /\ key' = [key EXCEPT ![r] = key[r]]
          /\ UNCHANGED <<n8n, told, posts, fresh>>
      BY <1>0, <1>7, <2>2 DEF TurnAway
    <3> QED
      BY <1>0, <3>1, RunKeeps DEF Pc
  <2> QED
    BY <2>1, <2>2
<1> QED
  BY <1>1, <1>2, <1>3, <1>4, <1>5, <1>6, <1>7 DEF RunStep

\* A step of an alert's request, which goes on or ends with an answer.
LEMMA TryKeeps ==
  ASSUME IInv, NEW r \in Try, NEW p \in Pc, NEW s \in Status \ {"done"},
         request[r] # "off", request' = [request EXCEPT ![r] = p],
         key' = [key EXCEPT ![r[1]] = s],
         \/ p # "off" /\ UNCHANGED n8n
         \/ p = "off" /\ Answer(r, FALSE)
         \/ /\ p = "off" /\ Answer(r, TRUE)
            /\ r[1] \in impatient \/ r[1] \in lost' \/ Heard(r[1])',
         told' = told, fresh' \subseteq posts',
         posts \subseteq posts', posts' \subseteq Alert,
         lost \subseteq lost', lost' \subseteq Run \cup Alert,
         p = "record" => r[1] \in posts',
         s = "posted" => r[1] \in posts',
         s = "suppressed" => Heard(r[1])',
         s = "processing" =>
           \/ p \notin {"off", "connect"} \/ r[1] \in lost'
           \/ key[r[1]] = "processing" /\ request[r] = "connect"
  PROVE  IInv'
<1> DEFINE a == r[1]
<1>0. /\ a \in Alert /\ a \notin Run /\ r \in Request /\ KeyOf(r) = a
      /\ r[2] \in 1..MaxTries[a] /\ s \in Status
  BY Tries
<1>1. /\ tries' = tries /\ impatient' = impatient
      /\ node' \in [Alert -> {"idle", "due", "waiting", "ok", "failed"}]
      /\ \A c \in Alert : c # a => node'[c] = node[c]
  BY <1>0 DEF IInv, TypeOK, n8n, Answer, AfterError
<1>2. TypeOK'
  <2>1. request' \in [Request -> Pc] /\ key' \in [Run \cup Alert -> Status]
    BY <1>0 DEF IInv, TypeOK
  <2> QED
    BY <1>1, <2>1 DEF IInv, TypeOK
<1>3. ASSUME NEW c \in Alert, Heard(c) PROVE Heard(c)'
  BY <1>3 DEF Heard
<1>4. KeyInv' /\ FreshInv'
  <2>1. key'[a] = s /\ \A c \in Alert : c # a => key'[c] = key[c]
    BY <1>0 DEF IInv, TypeOK
  <2> QED
    BY <1>3, <2>1 DEF IInv, KeyInv, FreshInv
<1>5. request'[r] = p /\ \A q \in Request : q # r => request'[q] = request[q]
  BY <1>0 DEF IInv, TypeOK
<1>6. RecordInv' /\ SentInv'
  BY <1>1, <1>5, Tries DEF IInv, RecordInv, SentInv
<1>7. PatienceInv'
  <2> SUFFICES ASSUME NEW q \in Try, request'[q] # "off", q[1] \notin impatient'
               PROVE  node'[q[1]] = "waiting" /\ tries'[q[1]] = q[2]
    BY DEF PatienceInv
  <2>1. /\ q \in Request /\ q[1] \in Alert /\ q = <<q[1], q[2]>>
        /\ r = <<r[1], r[2]>>
    BY Tries
  <2>2. request[q] # "off"
    BY <1>5, <2>1
  <2>3. node[q[1]] = "waiting" /\ tries[q[1]] = q[2]
    BY <1>1, <2>2 DEF IInv, PatienceInv
  <2>4. CASE q = r
    BY <1>1, <1>5, <2>3, <2>4 DEF n8n
  <2>5. CASE q # r
    <3>1. q[1] # a
      <4> SUFFICES ASSUME q[1] = a PROVE FALSE
        OBVIOUS
      <4>1. r[2] = tries[a]
        BY <1>1 DEF IInv, PatienceInv
      <4> QED
        BY <2>1, <2>3, <2>5, <4>1
    <3> QED
      BY <1>1, <2>1, <2>3, <3>1
  <2> QED
    BY <2>4, <2>5
<1>8. TriesInv'
  <2>1. tries[a] \in Nat /\ MaxTries[a] \in Nat
    BY <1>0, RequestsAssumption DEF IInv, TypeOK
  <2>2. \/ node'[a] = node[a]
        \/ node'[a] \in {"ok", "failed"}
        \/ node'[a] = "due" /\ tries[a] < MaxTries[a]
    <3>1. CASE UNCHANGED n8n
      BY <3>1 DEF n8n
    <3>2. CASE Answer(r, FALSE)
      BY <1>0, <3>2 DEF IInv, TypeOK, Answer, AfterError
    <3>3. CASE Answer(r, TRUE)
      BY <1>0, <3>3 DEF IInv, TypeOK, Answer
    <3> QED
      BY <3>1, <3>2, <3>3
  <2> QED
    BY <1>1, <2>2 DEF IInv, TriesInv
<1>9. AlertIsHeard'
  <2> SUFFICES ASSUME NEW c \in Alert, node'[c] = "ok", c \notin impatient' \cup lost'
               PROVE  Heard(c)'
    BY DEF AlertIsHeard, Heard
  <2>1. CASE node[c] = "ok"
    <3>1. Heard(c)
      BY <1>1, <2>1 DEF IInv, AlertIsHeard, Heard
    <3> QED
      BY <1>3, <3>1
  <2>2. CASE node[c] # "ok"
    <3>1. c = a
      BY <1>1, <2>2
    <3>2. CASE Answer(r, FALSE)
      BY <1>0, <2>2, <3>1, <3>2 DEF IInv, TypeOK, Answer, AfterError
    <3>3. CASE UNCHANGED n8n
      BY <2>2, <3>3 DEF n8n
    <3> QED
      BY <1>1, <3>1, <3>2, <3>3
  <2> QED
    BY <2>1, <2>2
<1>10. ASSUME NEW k \in Run \cup Alert, key'[k] = "processing"
       PROVE  Working(k)' \/ k \in lost'
  <2>1. CASE k = a /\ p \notin {"off", "connect"}
    BY <1>0, <1>5, <2>1 DEF Working
  <2>2. CASE k = a /\ p \in {"off", "connect"} /\ k \notin lost'
    <3>1. key[a] = "processing" /\ request[r] = "connect"
      BY <1>0, <1>10, <2>2 DEF IInv, TypeOK
    <3>2. Working(k)
      BY <1>0, <2>2, <3>1 DEF IInv, ClaimIsReleased
    <3>3. \A q \in Request : request[q] \notin {"off", "connect"} => request'[q] = request[q]
      BY <1>5, <3>1
    <3> QED
      BY <3>2, <3>3, ClaimStays
  <2>3. CASE k # a
    <3>1. key[k] = "processing"
      BY <1>10, <2>3 DEF IInv, TypeOK
    <3>2. CASE Working(k)
      <4>1. \A q \in Request : KeyOf(q) = k => request'[q] = request[q]
        BY <1>0, <1>5, <2>3
      <4> QED
        BY <3>2, <4>1, ClaimStays
    <3> QED
      BY <3>1, <3>2 DEF IInv, ClaimIsReleased
  <2> QED
    BY <2>1, <2>2, <2>3
<1> QED
  BY <1>2, <1>4, <1>6, <1>7, <1>8, <1>9, <1>10 DEF IInv, ClaimIsReleased

LEMMA ClaimAlertKeeps ==
  ASSUME IInv, NEW r \in Try, ClaimAlert(r)
  PROVE  IInv'
<1> DEFINE a == r[1]
<1>0. /\ a \in Alert /\ key[a] \in Status \ {"done"} /\ request[r] = "connect"
      /\ key = [key EXCEPT ![a] = key[a]] /\ fresh \subseteq posts
      /\ posts \subseteq Alert /\ lost \subseteq Run \cup Alert
      /\ UNCHANGED <<told, posts, lost>>
  BY Tries DEF IInv, TypeOK, KeyInv, FreshInv, ClaimAlert
<1>1. CASE /\ key[a] # "free" /\ request' = [request EXCEPT ![r] = "off"]
           /\ Answer(r, TRUE) /\ UNCHANGED <<key, fresh>>
  <2>1. a \in impatient \/ a \in lost \/ Heard(a)
    <3>1. ASSUME a \notin impatient, a \notin lost PROVE key[a] # "processing"
      BY <1>0, <3>1, NoOtherTry
    <3>2. key[a] \in {"posted", "suppressed"} => Heard(a)
      BY <1>0 DEF IInv, KeyInv, Heard
    <3> QED
      BY <1>0, <1>1, <3>1, <3>2 DEF Status
  <2>2. Heard(a) => Heard(a)'
    BY <1>0 DEF Heard
  <2>3. /\ key[a] = "posted" => a \in posts
        /\ key[a] = "suppressed" => Heard(a)
    BY <1>0 DEF IInv, KeyInv
  <2> QED
    BY <1>0, <1>1, <2>1, <2>2, <2>3, TryKeeps DEF Pc
<1>2. CASE /\ PostedRecently(a) /\ request' = [request EXCEPT ![r] = "off"]
           /\ Answer(r, TRUE) /\ key' = [key EXCEPT ![a] = "suppressed"]
           /\ UNCHANGED fresh
  <2>1. Heard(a)'
    BY <1>0, <1>2 DEF PostedRecently, Heard
  <2> QED
    BY <1>0, <1>2, <2>1, TryKeeps DEF Pc, Status
<1>3. CASE /\ request' = [request EXCEPT ![r] = "post"]
           /\ key' = [key EXCEPT ![a] = "processing"]
           /\ UNCHANGED <<n8n, fresh>>
  BY <1>0, <1>3, TryKeeps DEF Pc, Status
<1> QED
  BY <1>1, <1>2, <1>3 DEF ClaimAlert

LEMMA AlertStepKeeps ==
  ASSUME IInv, NEW r \in Try, AlertStep(r) \/ TurnAway(r)
  PROVE  IInv'
<1> DEFINE a == r[1]
<1>0. /\ a \in Alert /\ key[a] \in Status \ {"done"} /\ KeyOf(r) = a /\ r \notin Run
      /\ key = [key EXCEPT ![a] = key[a]] /\ fresh \subseteq posts
      /\ posts \subseteq Alert /\ lost \subseteq Run \cup Alert
      /\ key[a] = "posted" => a \in posts
      /\ key[a] = "suppressed" => Heard(a)
  BY Tries DEF IInv, TypeOK, KeyInv, FreshInv
<1>a. posts \subseteq posts' /\ told' = told /\ Heard(a) => Heard(a)'
  BY DEF Heard
<1>1. CASE ClaimAlert(r)
  BY <1>1, ClaimAlertKeeps
<1>2. CASE Post(r)
  BY <1>0, <1>a, <1>2, TryKeeps DEF Post, Pc
<1>3. CASE Refuse(r)
  BY <1>0, <1>a, <1>3, TryKeeps DEF Refuse, Pc
<1>4. CASE Record(r)
  <2>1. a \in posts
    BY <1>4 DEF IInv, RecordInv, Record
  <2>2. Heard(a)'
    BY <1>0, <1>4, <2>1 DEF Heard, Record
  <2> QED
    BY <1>0, <1>4, <2>1, <2>2, TryKeeps DEF Record, Pc, Status
<1>5. CASE Withdraw(r)
  BY <1>0, <1>5, TryKeeps DEF Withdraw, Pc, Status
<1>6. CASE TurnAway(r)
  <2>0. /\ request[r] # "off" /\ request' = [request EXCEPT ![r] = "off"]
        /\ key' = [key EXCEPT ![a] = key[a]] /\ Answer(r, FALSE)
        /\ UNCHANGED <<key, told, posts, fresh>>
    BY <1>0, <1>6 DEF TurnAway
  <2>1. CASE request[r] = "connect"
    <3>1. lost' = lost
      BY <1>6, <2>1 DEF TurnAway
    <3> QED
      BY <1>0, <1>a, <2>0, <2>1, <3>1, TryKeeps DEF Pc
  <2>2. CASE request[r] # "connect"
    <3>1. lost' = lost \cup {a}
      BY <1>0, <1>6, <2>2 DEF TurnAway
    <3>2. a \in lost' /\ lost \subseteq lost' /\ lost' \subseteq Run \cup Alert
      BY <1>0, <3>1
    <3> QED
      BY <1>0, <1>a, <2>0, <3>2, TryKeeps DEF Pc
  <2> QED
    BY <2>1, <2>2
<1> QED
  BY <1>1, <1>2, <1>3, <1>4, <1>5, <1>6 DEF AlertStep

LEMMA NodeKeeps ==
  ASSUME IInv, NEW a \in Alert, Break(a) \/ Again(a) \/ GiveUp(a) \/ Age(a)
  PROVE  IInv'
<1>0. /\ tries[a] \in Nat /\ MaxTries[a] \in Nat \ {0} /\ tries[a] <= MaxTries[a]
      /\ UNCHANGED <<key, told, posts, lost>>
  BY RequestsAssumption DEF IInv, TypeOK, Break, Again, Send, GiveUp, Age
<1>1. KeyInv' /\ FreshInv'
  BY <1>0 DEF IInv, KeyInv, FreshInv, Heard, Break, Again, Send, GiveUp, Age
<1>2. CASE Break(a) \/ Again(a)
  <2> DEFINE r == <<a, tries[a] + 1>>
  <2>0. Send(a) /\ node[a] # "waiting"
    BY <1>2 DEF Break, Again
  <2>1. tries[a] < MaxTries[a] /\ tries[a] + 1 \in 1..MaxTries[a]
    BY <1>0, <1>2 DEF IInv, TriesInv, Break, Again
  <2>2. r \in Try /\ r \in Request
    BY <2>1 DEF Try, Request
  <2>3. /\ request'[r] = "connect"
        /\ \A q \in Request : q # r => request'[q] = request[q]
    BY <2>0, <2>2 DEF IInv, TypeOK, Send
  <2>4. TypeOK'
    <3>1. request' \in [Request -> Pc]
      BY <2>0, <2>2 DEF IInv, TypeOK, Send, Pc
    <3>2. /\ tries' \in [Alert -> Nat] /\ \A c \in Alert : tries'[c] <= MaxTries[c]
          /\ node' \in [Alert -> {"idle", "due", "waiting", "ok", "failed"}]
      BY <1>0, <2>0, <2>1 DEF IInv, TypeOK, Send
    <3> QED
      BY <2>0, <3>1, <3>2 DEF IInv, TypeOK, Send
  <2>5. RecordInv'
    BY <1>0, <2>2, <2>3, Tries DEF IInv, RecordInv
  <2>6. PatienceInv'
    <3> SUFFICES ASSUME NEW q \in Try, request'[q] # "off", q[1] \notin impatient'
                 PROVE  node'[q[1]] = "waiting" /\ tries'[q[1]] = q[2]
      BY DEF PatienceInv
    <3>1. q \in Request /\ q[1] \in Alert
      BY Tries
    <3>2. CASE q = r
      BY <2>0, <3>2 DEF IInv, TypeOK, Send
    <3>3. CASE q # r
      <4>1. node[q[1]] = "waiting" /\ tries[q[1]] = q[2]
        BY <2>0, <2>3, <3>1, <3>3 DEF IInv, PatienceInv, Send
      <4>2. q[1] # a
        BY <2>0, <4>1
      <4> QED
        BY <2>0, <3>1, <4>1, <4>2 DEF IInv, TypeOK, Send
    <3> QED
      BY <3>2, <3>3
  <2>7. TriesInv' /\ SentInv'
    <3>1. TriesInv'
      BY <2>0 DEF IInv, TypeOK, TriesInv, Send
    <3>2. ASSUME NEW q \in Try, request'[q] # "off" PROVE q[2] <= tries'[q[1]]
      <4>1. q \in Request /\ q[1] \in Alert /\ tries[q[1]] \in Nat
        BY Tries DEF IInv, TypeOK
      <4>2. CASE q = r
        BY <2>0, <4>1, <4>2 DEF IInv, TypeOK, Send
      <4>3. CASE q # r
        <5>1. q[2] <= tries[q[1]] /\ q[2] \in Nat
          <6>1. MaxTries[q[1]] \in Nat
            BY <4>1, RequestsAssumption
          <6> QED
            BY <2>3, <3>2, <4>1, <4>3, <6>1, Tries DEF IInv, SentInv
        <5>2. tries'[q[1]] = tries[q[1]] \/ tries'[q[1]] = tries[q[1]] + 1
          BY <2>0, <4>1 DEF IInv, TypeOK, Send
        <5> QED
          BY <1>0, <4>1, <5>1, <5>2
      <4> QED
        BY <4>2, <4>3
    <3> QED
      BY <3>1, <3>2 DEF SentInv
  <2>8. AlertIsHeard'
    BY <1>0, <2>0 DEF IInv, TypeOK, AlertIsHeard, Send
  <2>9. ASSUME NEW k, Working(k) PROVE Working(k)'
    <3>1. request[r] = "off"
      BY <1>0, <2>2 DEF IInv, SentInv
    <3> QED
      BY <2>3, <2>9, <3>1, ClaimStays
  <2>10. ClaimIsReleased'
    BY <1>0, <2>9 DEF IInv, ClaimIsReleased
  <2> QED
    BY <1>1, <2>4, <2>5, <2>6, <2>7, <2>8, <2>10 DEF IInv
<1>3. CASE GiveUp(a)
  <2>1. TypeOK' /\ RecordInv'
    BY <1>3 DEF IInv, TypeOK, RecordInv, GiveUp, AfterError
  <2>2. PatienceInv' /\ SentInv'
    BY <1>3, Tries DEF IInv, TypeOK, PatienceInv, SentInv, GiveUp
  <2>3. TriesInv'
    BY <1>0, <1>3, RequestsAssumption DEF IInv, TypeOK, TriesInv, GiveUp, AfterError
  <2>4. ClaimIsReleased' /\ AlertIsHeard'
    BY <1>3 DEF IInv, TypeOK, ClaimIsReleased, Working, AlertIsHeard, GiveUp, AfterError
  <2> QED
    BY <1>1, <2>1, <2>2, <2>3, <2>4 DEF IInv
<1>4. CASE Age(a)
  <2>1. TypeOK' /\ RecordInv' /\ PatienceInv' /\ SentInv' /\ TriesInv'
    BY <1>4 DEF IInv, TypeOK, RecordInv, PatienceInv, SentInv, TriesInv, Age, n8n
  <2>2. ClaimIsReleased' /\ AlertIsHeard'
    BY <1>4 DEF IInv, ClaimIsReleased, Working, AlertIsHeard, Age, n8n
  <2> QED
    BY <1>1, <2>1, <2>2 DEF IInv
<1> QED
  BY <1>2, <1>3, <1>4

LEMMA RestartKeeps ==
  ASSUME IInv, Restart
  PROVE  IInv'
<1>1. TypeOK'
  BY RequestsAssumption DEF IInv, TypeOK, Restart, AfterError, Pc
<1>2. KeyInv' /\ FreshInv' /\ RecordInv' /\ PatienceInv' /\ SentInv'
  BY Tries DEF IInv, KeyInv, FreshInv, RecordInv, PatienceInv, SentInv, Heard, Restart
<1>3. TriesInv'
  BY RequestsAssumption DEF IInv, TypeOK, TriesInv, Restart, AfterError
<1>4. ClaimIsReleased'
  BY DEF IInv, ClaimIsReleased, Restart
<1>5. AlertIsHeard'
  BY DEF IInv, TypeOK, AlertIsHeard, Restart, AfterError
<1> QED
  BY <1>1, <1>2, <1>3, <1>4, <1>5 DEF IInv

LEMMA NextInv == IInv /\ [Next]_vars => IInv'
<1> SUFFICES ASSUME IInv, [Next]_vars PROVE IInv'
  OBVIOUS
<1>1. CASE UNCHANGED vars
  BY <1>1 DEF IInv, TypeOK, KeyInv, FreshInv, Heard, RecordInv, PatienceInv, SentInv, TriesInv,
     ClaimIsReleased, Working, AlertIsHeard, vars
<1>2. CASE Next
  BY <1>2, RunStepKeeps, AlertStepKeeps, NodeKeeps, RestartKeeps, RequestIsEither DEF Next
<1> QED
  BY <1>1, <1>2

LEMMA Invariance == Spec => []IInv
  BY InitInv, NextInv, PTL DEF Spec

-----------------------------------------------------------------------------
(* The theorems                                                              *)

\* Requests, keys and n8n's nodes have their types.
THEOREM TypeCorrect == Spec => []TypeOK
<1>1. IInv => TypeOK
  BY DEF IInv
<1> QED
  BY <1>1, Invariance, PTL

\* No request that runs to its end leaves its claim behind.
THEOREM ClaimReleased == Spec => []ClaimIsReleased
<1>1. IInv => ClaimIsReleased
  BY DEF IInv
<1> QED
  BY <1>1, Invariance, PTL

\* A green execution of workflow 03 means somebody can read of the failure,
\* unless a try of it was cut off or given up.
THEOREM Heeded == Spec => []AlertIsHeard
<1>1. IInv => AlertIsHeard
  BY DEF IInv
<1> QED
  BY <1>1, Invariance, PTL

\* Nothing is suppressed for an alert that was not posted.
THEOREM SuppressedHeard == Spec => SuppressedIsHeard
<1> DEFINE Step == \A a \in Alert :
                     key'[a] = "suppressed" /\ key[a] # "suppressed" =>
                       \E b \in fresh \cap posts : told[b] = told[a]
<1>1. IInv /\ [Next]_vars => [Step]_vars
  <2> SUFFICES ASSUME IInv, Next, NEW a \in Alert,
                      key'[a] = "suppressed", key[a] # "suppressed"
               PROVE  \E b \in fresh \cap posts : told[b] = told[a]
    OBVIOUS
  <2>1. ASSUME NEW r \in Run, Arrive(r) \/ RunStep(r) \/ LeaseExpires(r) PROVE FALSE
    <3>1. r # a
      BY Runs
    <3> QED
      BY <2>1, <3>1 DEF IInv, TypeOK, Arrive, RunStep, LeaseExpires, Claim, Succeed, Fail,
         Release
  <2>2. ASSUME NEW b \in Alert, Break(b) \/ Again(b) \/ GiveUp(b) \/ Age(b) PROVE FALSE
    BY <2>2 DEF Break, Again, Send, GiveUp, Age
  <2>3. ASSUME NEW r \in Request, TurnAway(r) PROVE FALSE
    BY <2>3 DEF TurnAway
  <2>4. ASSUME Restart PROVE FALSE
    BY <2>4 DEF Restart
  <2>5. ASSUME NEW r \in Try, AlertStep(r)
        PROVE  \E b \in fresh \cap posts : told[b] = told[a]
    <3>1. r[1] \in Alert
      BY Tries
    <3>2. CASE r[1] # a \/ ~ClaimAlert(r)
      BY <2>5, <3>1, <3>2 DEF IInv, TypeOK, AlertStep, ClaimAlert, Post, Refuse, Record,
         Withdraw
    <3>3. CASE r[1] = a /\ ClaimAlert(r)
      <4>1. PostedRecently(a)
        BY <3>1, <3>3 DEF IInv, TypeOK, ClaimAlert
      <4> QED
        BY <4>1 DEF IInv, FreshInv, PostedRecently
    <3> QED
      BY <3>2, <3>3
  <2> QED
    BY <2>1, <2>2, <2>3, <2>4, <2>5 DEF Next
<1> QED
  BY <1>1, Invariance, PTL DEF Spec, SuppressedIsHeard
=============================================================================
