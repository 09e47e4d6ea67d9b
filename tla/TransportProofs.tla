-------------------------- MODULE TransportProofs --------------------------
(***************************************************************************)
(* What holds of calls to Xero for every schedule, every answer and any      *)
(* number of threads.                                                        *)
(***************************************************************************)
EXTENDS Transport, TLAPS

-----------------------------------------------------------------------------
(* The inductive invariant                                                   *)

\* A call that sleeps sleeps out the delay it was asked for; its sleep and its
\* attempts stay within the schedule; a token on its way to Xero lives longer
\* than the way can take.
CallInv(k) ==
  /\ k.pc # "sleep" => k.hold = 0
  /\ k.hold <= k.wait
  /\ k.slept <= WorkerMaxSleep
  /\ k.attempt <= MaxAttempts + (IF k.replaced THEN 1 ELSE 0)
  /\ k.pc = "unauthorised" => k.attempt <= MaxAttempts /\ k.replaced
  /\ k.pc = "sleep" => k.attempt < MaxAttempts
  /\ k.pc = "fetch" => k.token.life > k.due + SendTime
  /\ k.pc = "sent" => k.token.life > k.due

\* A cached token that may still be used lives for the time of a request longer.
CacheInv == cache.left > 0 => cache.token.life >= cache.left + SendTime

\* A caller that has had its token replaced meets no older one any more.
FreshFor(c) ==
  call[c].pc # "unauthorised" =>
    /\ c \notin cache.token.outdated
    /\ \A d \in Caller : call[d].pc = "fetch" => c \notin call[d].token.outdated
    /\ call[c].pc = "sent" => c \notin call[c].token.outdated

IInv ==
  /\ TypeOK
  /\ \A c \in Caller : CallInv(call[c])
  /\ CacheInv
  /\ \A c \in Caller : FreshFor(c)

-----------------------------------------------------------------------------
(* The states a step gives a call or a token                                 *)

LEMMA Marking ==
  ASSUME NEW k \in CallState, NEW c \in Caller, Outdate(k.token, c) \in Token,
         NEW l, l = [k EXCEPT !.token = Outdate(@, c)]
  PROVE  /\ l \in CallState /\ l.pc = k.pc /\ l.attempt = k.attempt /\ l.slept = k.slept
         /\ l.replaced = k.replaced /\ l.due = k.due /\ l.wait = k.wait
         /\ l.hold = k.hold /\ l.token = Outdate(k.token, c)
  BY DEF CallState

LEMMA Outdating ==
  ASSUME NEW t \in Token, NEW c \in Caller
  PROVE  /\ Outdate(t, c) \in Token /\ Outdate(t, c).life = t.life
         /\ Outdate(t, c).outdated = t.outdated \cup {c}
  BY DEF Outdate, Token

LEMMA Aging ==
  ASSUME NEW t \in Token
  PROVE  /\ Older(t) \in Token /\ Older(t).life = Less(t.life)
         /\ Older(t).outdated = t.outdated
  BY DEF Older, Less, Token

LEMMA Passing ==
  ASSUME NEW k \in CallState, Older(k.token) \in Token,
         NEW l, l = [k EXCEPT !.token = Older(@), !.due = Less(@), !.wait = Less(@),
                              !.hold = Less(@)]
  PROVE  /\ l \in CallState /\ l.pc = k.pc /\ l.attempt = k.attempt /\ l.slept = k.slept
         /\ l.replaced = k.replaced /\ l.token = Older(k.token) /\ l.due = Less(k.due)
         /\ l.wait = Less(k.wait) /\ l.hold = Less(k.hold)
<1>1. \A n \in Nat : Less(n) \in Nat
  BY DEF Less
<1> QED
  BY <1>1 DEF CallState

-----------------------------------------------------------------------------
(* The retry decision                                                        *)

\* A delay that is not released is the whole delay asked for, and fits into what
\* the worker may still sleep (next_retry, _get).
LEMMA DelayIsWhole ==
  ASSUME TypeOK, NEW c \in Caller, NEW asked \in Nat,
         NEW wait \in Delays(call[c].attempt, asked), ~Releases(c, asked, wait)
  PROVE  /\ wait \in Int
         /\ 0 <= wait
         /\ asked <= wait
         /\ call[c].slept + wait <= WorkerMaxSleep
<1>1. call[c].slept \in Nat /\ WorkerMaxSleep \in Nat /\ Horizon \in Nat
  BY TransportAssumption DEF TypeOK, CallState
<1>0. wait \in Int
  BY <1>1 DEF Delays, NotBefore
<1>2. asked <= WorkerMaxSleep /\ call[c].slept + wait <= WorkerMaxSleep
  <2>1. ~(asked > WorkerMaxSleep) /\ ~(call[c].slept + wait > WorkerMaxSleep)
    BY DEF Releases
  <2> QED
    BY <1>0, <1>1, <2>1
<1>3. CASE asked > 0
  <2>1. wait = NotBefore(asked)
    BY <1>3 DEF Delays
  <2>2. wait = asked
    BY <1>1, <1>2, <2>1, TransportAssumption DEF NotBefore
  <2> QED
    BY <1>1, <1>2, <2>2
<1>4. CASE ~(asked > 0)
  <2>1. wait \in 0..Backoff(call[c].attempt)
    BY <1>4 DEF Delays
  <2>2. wait \in Int /\ 0 <= wait
    BY <2>1
  <2> QED
    BY <1>1, <1>2, <1>4, <2>2
<1> QED
  BY <1>3, <1>4

-----------------------------------------------------------------------------
(* The steps                                                                 *)

LEMMA InitInv == Init => IInv
<1> SUFFICES ASSUME Init PROVE IInv
  OBVIOUS
<1>1. Idle \in CallState /\ CallInv(Idle)
  BY TransportAssumption DEF Idle, NoToken, CallState, Token, CallInv
<1>2. Empty \in [token : Token, left : Nat]
  BY DEF Empty, NoToken, Token
<1> QED
  BY <1>1, <1>2 DEF Init, IInv, TypeOK, CacheInv, FreshFor, Empty, NoToken, Idle

\* A step that gives one call a new state leaves the other calls as they are.
LEMMA OneCall ==
  ASSUME IInv, NEW c \in Caller, NEW k \in CallState, CallInv(k),
         call' = [call EXCEPT ![c] = k], cache' \in [token : Token, left : Nat],
         CacheInv', \A d \in Caller : FreshFor(d)'
  PROVE  IInv'
<1>1. TypeOK'
  BY DEF IInv, TypeOK
<1>2. \A d \in Caller : CallInv(call'[d])
  BY DEF IInv, TypeOK
<1> QED
  BY <1>1, <1>2 DEF IInv

\* A call that ends.
LEMMA EndKeeps ==
  ASSUME IInv, NEW c \in Caller, End(c), call[c].pc # "unauthorised"
  PROVE  IInv'
<1>1. Idle \in CallState /\ CallInv(Idle)
  BY TransportAssumption DEF Idle, NoToken, CallState, Token, CallInv
<1>2. call' = [call EXCEPT ![c] = Idle] /\ cache' = cache
  BY DEF End
<1>3. \A d \in Caller : FreshFor(d)'
  BY <1>2 DEF IInv, TypeOK, FreshFor, Idle
<1> QED
  BY <1>1, <1>2, <1>3, OneCall DEF IInv, TypeOK, CacheInv

\* What a decision does to its call: it ends, or sleeps as the invariant asks.
LEMMA DecideKeeps ==
  ASSUME IInv, NEW c \in Caller, NEW asked \in Nat, Decide(c, asked),
         call[c].pc \in {"fetch", "sent"}
  PROVE  IInv'
<1>1. CASE End(c)
  <2>1. call[c].pc # "unauthorised"
    OBVIOUS
  <2> QED
    BY <1>1, <2>1, EndKeeps
<1>2. ASSUME NEW wait \in Delays(call[c].attempt, asked), ~Releases(c, asked, wait),
             ~(call[c].attempt >= MaxAttempts),
             call' = [call EXCEPT ![c] =
                        [call[c] EXCEPT !.pc = "sleep", !.slept = @ + wait, !.wait = wait,
                                  !.hold = asked, !.token = NoToken, !.due = 0]],
             UNCHANGED cache
      PROVE  IInv'
  <2> PICK k : k = [call[c] EXCEPT !.pc = "sleep", !.slept = @ + wait, !.wait = wait,
                                   !.hold = asked, !.token = NoToken, !.due = 0]
    OBVIOUS
  <2>1. /\ wait \in Int /\ 0 <= wait /\ asked <= wait
        /\ call[c].slept + wait <= WorkerMaxSleep
    BY <1>2, DelayIsWhole DEF IInv
  <2>2. call[c] \in CallState /\ CallInv(call[c])
    BY DEF IInv, TypeOK
  <2>3. call[c].attempt < MaxAttempts
    BY <1>2, <2>2, TransportAssumption DEF CallState
  <2>4. /\ k \in CallState /\ k.pc = "sleep" /\ k.attempt = call[c].attempt
        /\ k.slept = call[c].slept + wait /\ k.replaced = call[c].replaced
        /\ k.wait = wait /\ k.hold = asked
    <3> PICK o \in CallState : o = call[c]
      BY <2>2
    <3> PICK total \in Nat : total = o.slept + wait
      BY <2>1 DEF CallState
    <3>1. wait \in Nat /\ NoToken \in Token
      BY <2>1 DEF NoToken, Token
    <3>2. k = [o EXCEPT !.pc = "sleep", !.slept = total, !.wait = wait, !.hold = asked,
                        !.token = NoToken, !.due = 0]
      OBVIOUS
    <3>3. /\ k \in CallState /\ k.pc = "sleep" /\ k.attempt = o.attempt /\ k.slept = total
          /\ k.replaced = o.replaced /\ k.wait = wait /\ k.hold = asked
      BY ONLY o \in CallState, total \in Nat, asked \in Nat, <3>1, <3>2 DEF CallState
    <3> QED
      BY <3>3
  <2>5. CallInv(k)
    BY <2>1, <2>2, <2>3, <2>4, TransportAssumption DEF CallState, CallInv
  <2>6. call' = [call EXCEPT ![c] = k]
    BY <1>2
  <2>7. \A d \in Caller : FreshFor(d)'
    BY <1>2, <2>4, <2>6 DEF IInv, TypeOK, FreshFor
  <2> QED
    BY <1>2, <2>4, <2>5, <2>6, <2>7, OneCall DEF IInv, TypeOK, CacheInv
<1> QED
  BY <1>1, <1>2 DEF Decide

LEMMA BeginKeeps ==
  ASSUME IInv, NEW c \in Caller, Begin(c)
  PROVE  IInv'
<1> PICK k : k = [call[c] EXCEPT !.pc = "token", !.attempt = 1]
  OBVIOUS
<1>1. call[c] \in CallState /\ CallInv(call[c]) /\ call[c].pc = "idle"
  BY DEF IInv, TypeOK, Begin
<1>2. k \in CallState /\ k.pc = "token" /\ CallInv(k)
  <2>1. /\ k \in CallState /\ k.pc = "token" /\ k.attempt = 1 /\ k.slept = call[c].slept
        /\ k.replaced = call[c].replaced /\ k.hold = call[c].hold /\ k.wait = call[c].wait
    <3> PICK o \in CallState : o = call[c]
      BY <1>1
    <3>1. k = [o EXCEPT !.pc = "token", !.attempt = 1]
      OBVIOUS
    <3>2. /\ k \in CallState /\ k.pc = "token" /\ k.attempt = 1 /\ k.slept = o.slept
          /\ k.replaced = o.replaced /\ k.hold = o.hold /\ k.wait = o.wait
      BY ONLY o \in CallState, <3>1 DEF CallState
    <3> QED
      BY <3>2
  <2> QED
    BY <1>1, <2>1, TransportAssumption DEF CallInv
<1>3. call' = [call EXCEPT ![c] = k] /\ cache' = cache
  BY DEF Begin
<1>4. \A d \in Caller : FreshFor(d)'
  BY <1>1, <1>2, <1>3 DEF IInv, TypeOK, FreshFor
<1> QED
  BY <1>2, <1>3, <1>4, OneCall DEF IInv, TypeOK, CacheInv

LEMMA UseCachedKeeps ==
  ASSUME IInv, NEW c \in Caller, UseCached(c)
  PROVE  IInv'
<1> PICK k : k = [call[c] EXCEPT !.pc = "sent", !.token = cache.token, !.due = SendTime]
  OBVIOUS
<1>1. call[c] \in CallState /\ CallInv(call[c]) /\ call[c].pc = "token"
  BY DEF IInv, TypeOK, UseCached
<1>2. cache.token \in Token /\ cache.token.life > SendTime
  BY TransportAssumption DEF IInv, TypeOK, UseCached, CacheInv, Token
<1>3. k \in CallState /\ k.pc = "sent" /\ k.token = cache.token /\ CallInv(k)
  <2>1. /\ k \in CallState /\ k.pc = "sent" /\ k.attempt = call[c].attempt
        /\ k.slept = call[c].slept /\ k.replaced = call[c].replaced
        /\ k.token = cache.token /\ k.due = SendTime
        /\ k.wait = call[c].wait /\ k.hold = call[c].hold
    <3> PICK o \in CallState : o = call[c]
      BY <1>1
    <3> PICK u \in Token : u = cache.token
      BY <1>2
    <3>1. k = [o EXCEPT !.pc = "sent", !.token = u, !.due = SendTime]
      OBVIOUS
    <3>2. SendTime \in Nat
      BY TransportAssumption
    <3>3. /\ k \in CallState /\ k.pc = "sent" /\ k.attempt = o.attempt /\ k.slept = o.slept
          /\ k.replaced = o.replaced /\ k.token = u /\ k.due = SendTime
          /\ k.wait = o.wait /\ k.hold = o.hold
      BY ONLY o \in CallState, u \in Token, <3>1, <3>2 DEF CallState
    <3> QED
      BY <3>3
  <2> QED
    BY <1>1, <1>2, <2>1, TransportAssumption DEF CallInv
<1>4. call' = [call EXCEPT ![c] = k] /\ cache' = cache
  BY DEF UseCached, Send
<1>5. \A d \in Caller : FreshFor(d)'
  BY <1>1, <1>3, <1>4 DEF IInv, TypeOK, FreshFor
<1> QED
  BY <1>3, <1>4, <1>5, OneCall DEF IInv, TypeOK, CacheInv

LEMMA FetchKeeps ==
  ASSUME IInv, NEW c \in Caller, Fetch(c)
  PROVE  IInv'
<1>1. PICK life \in Lifetime :
        call' = [call EXCEPT ![c] = [call[c] EXCEPT
          !.pc = "fetch", !.due = FetchTime, !.token = [life |-> life, outdated |-> {}]]]
  BY DEF Fetch
<1> DEFINE t == [life |-> life, outdated |-> {}]
<1> PICK k : k = [call[c] EXCEPT !.pc = "fetch", !.due = FetchTime, !.token = t]
  OBVIOUS
<1>2. call[c] \in CallState /\ CallInv(call[c]) /\ call[c].pc = "token"
  BY DEF IInv, TypeOK, Fetch
<1>3. life \in Nat /\ life > FetchTime + SendTime
  BY TransportAssumption, MarginAssumption
<1>4. k \in CallState /\ k.pc = "fetch" /\ k.token.outdated = {} /\ CallInv(k)
  <2>0. t \in Token
    BY <1>3 DEF Token
  <2>1. /\ k \in CallState /\ k.pc = "fetch" /\ k.attempt = call[c].attempt
        /\ k.slept = call[c].slept /\ k.replaced = call[c].replaced
        /\ k.token = t /\ k.due = FetchTime
        /\ k.wait = call[c].wait /\ k.hold = call[c].hold
    <3> PICK o \in CallState : o = call[c]
      BY <1>2
    <3> PICK u \in Token : u = t
      BY <2>0
    <3>1. k = [o EXCEPT !.pc = "fetch", !.due = FetchTime, !.token = u]
      OBVIOUS
    <3>2. FetchTime \in Nat
      BY TransportAssumption
    <3>3. /\ k \in CallState /\ k.pc = "fetch" /\ k.attempt = o.attempt /\ k.slept = o.slept
          /\ k.replaced = o.replaced /\ k.token = u /\ k.due = FetchTime
          /\ k.wait = o.wait /\ k.hold = o.hold
      BY ONLY o \in CallState, u \in Token, <3>1, <3>2 DEF CallState
    <3> QED
      BY <3>3
  <2> QED
    BY <1>2, <1>3, <2>1, TransportAssumption DEF CallInv
<1>5. call' = [call EXCEPT ![c] = k] /\ cache' = cache
  BY <1>1 DEF Fetch
<1>6. \A d \in Caller : FreshFor(d)'
  BY <1>2, <1>4, <1>5 DEF IInv, TypeOK, FreshFor
<1> QED
  BY <1>4, <1>5, <1>6, OneCall DEF IInv, TypeOK, CacheInv

LEMMA FetchedKeeps ==
  ASSUME IInv, NEW c \in Caller, Fetched(c)
  PROVE  IInv'
<1> DEFINE t == call[c].token
<1> PICK k : k = [call[c] EXCEPT !.pc = "sent", !.token = t, !.due = SendTime]
  OBVIOUS
<1>1. call[c] \in CallState /\ CallInv(call[c]) /\ call[c].pc = "fetch"
  BY DEF IInv, TypeOK, Fetched
<1>2. /\ t \in Token /\ t.life \in Nat
      /\ call[c].due \in Nat /\ t.life > call[c].due + SendTime
  BY <1>1 DEF CallState, CallInv, Token
<1>3. k \in CallState /\ k.pc = "sent" /\ k.token = t /\ CallInv(k)
  <2>1. /\ k \in CallState /\ k.pc = "sent" /\ k.attempt = call[c].attempt
        /\ k.slept = call[c].slept /\ k.replaced = call[c].replaced
        /\ k.token = t /\ k.due = SendTime
        /\ k.wait = call[c].wait /\ k.hold = call[c].hold
    <3> PICK o \in CallState : o = call[c]
      BY <1>1
    <3> PICK u \in Token : u = t
      BY <1>2
    <3>1. k = [o EXCEPT !.pc = "sent", !.token = u, !.due = SendTime]
      OBVIOUS
    <3>2. SendTime \in Nat
      BY TransportAssumption
    <3>3. /\ k \in CallState /\ k.pc = "sent" /\ k.attempt = o.attempt /\ k.slept = o.slept
          /\ k.replaced = o.replaced /\ k.token = u /\ k.due = SendTime
          /\ k.wait = o.wait /\ k.hold = o.hold
      BY ONLY o \in CallState, u \in Token, <3>1, <3>2 DEF CallState
    <3> QED
      BY <3>3
  <2> QED
    BY <1>1, <1>2, <2>1, TransportAssumption DEF CallInv
<1>4. call' = [call EXCEPT ![c] = k] /\ cache' = [token |-> t, left |-> TimeToUse(c)]
  BY DEF Fetched, Send
<1>5. /\ TimeToUse(c) \in Nat
      /\ TimeToUse(c) > 0 => t.life >= TimeToUse(c) + SendTime
  BY <1>2, TransportAssumption, MarginAssumption DEF TimeToUse
<1>6. cache' \in [token : Token, left : Nat] /\ CacheInv'
  BY <1>2, <1>4, <1>5 DEF CacheInv
<1>7. \A d \in Caller : call'[d].pc = "unauthorised" <=> call[d].pc = "unauthorised"
  BY <1>1, <1>3, <1>4 DEF IInv, TypeOK
<1>8. \A d \in Caller : call[d].pc # "unauthorised" => d \notin t.outdated
  BY <1>1 DEF IInv, FreshFor
<1>9. \A d \in Caller : FreshFor(d)'
  BY <1>1, <1>3, <1>4, <1>7, <1>8 DEF IInv, TypeOK, FreshFor
<1> QED
  BY <1>3, <1>4, <1>6, <1>9, OneCall

LEMMA UnauthorisedKeeps ==
  ASSUME IInv, NEW c \in Caller, Unauthorised(c)
  PROVE  IInv'
<1>1. \A d \in Caller : call[d] \in CallState /\ CallInv(call[d])
  BY DEF IInv, TypeOK
<1>2. call[c].pc = "sent" /\ ~call[c].replaced
  BY DEF Unauthorised
<1>3. call'[c] \in CallState /\ call'[c].pc = "unauthorised" /\ CallInv(call'[c])
  <2>1. call'[c] = [call[c] EXCEPT !.pc = "unauthorised", !.replaced = TRUE,
                                   !.token = NoToken, !.due = 0]
    BY DEF Unauthorised
  <2>2. /\ call'[c] \in CallState /\ call'[c].pc = "unauthorised"
        /\ call'[c].attempt = call[c].attempt /\ call'[c].slept = call[c].slept
        /\ call'[c].replaced /\ call'[c].wait = call[c].wait
        /\ call'[c].hold = call[c].hold
    <3> PICK o \in CallState : o = call[c]
      BY <1>1
    <3> PICK k : k = call'[c]
      OBVIOUS
    <3>1. k = [o EXCEPT !.pc = "unauthorised", !.replaced = TRUE,
                        !.token = NoToken, !.due = 0]
      BY <2>1
    <3>2. NoToken \in Token
      BY DEF NoToken, Token
    <3>3. /\ k \in CallState /\ k.pc = "unauthorised" /\ k.attempt = o.attempt
          /\ k.slept = o.slept /\ k.replaced /\ k.wait = o.wait /\ k.hold = o.hold
      BY ONLY o \in CallState, <3>1, <3>2 DEF CallState
    <3> QED
      BY <3>3
  <2>3. call[c].attempt \in Nat /\ call[c].attempt <= MaxAttempts
    <3>1. CallInv(call[c]) /\ call[c] \in CallState
      BY <1>1
    <3> QED
      BY <1>2, <3>1, TransportAssumption DEF CallInv, CallState
  <2> QED
    BY <1>1, <1>2, <2>2, <2>3, TransportAssumption DEF CallInv
<1>4. ASSUME NEW d \in Caller, d # c, call[d].pc = "fetch"
      PROVE  /\ call'[d] \in CallState /\ CallInv(call'[d])
             /\ call'[d].pc = "fetch"
             /\ call'[d].token.outdated = call[d].token.outdated \cup {c}
  <2>1. call'[d] = [call[d] EXCEPT !.token = Outdate(@, c)]
    BY <1>4 DEF Unauthorised
  <2>2. call[d].token \in Token
    BY <1>1 DEF CallState
  <2>3. /\ call'[d] \in CallState /\ call'[d].pc = call[d].pc
        /\ call'[d].attempt = call[d].attempt /\ call'[d].slept = call[d].slept
        /\ call'[d].replaced = call[d].replaced /\ call'[d].due = call[d].due
        /\ call'[d].wait = call[d].wait /\ call'[d].hold = call[d].hold
        /\ call'[d].token = Outdate(call[d].token, c)
    BY <1>1, <2>1, <2>2, Outdating, Marking
  <2> QED
    BY <1>1, <1>4, <2>2, <2>3, Outdating DEF CallInv
<1>5. ASSUME NEW d \in Caller, d # c, call[d].pc # "fetch"
      PROVE  call'[d] = call[d]
  BY <1>5 DEF Unauthorised
<1>6. /\ cache' \in [token : Token, left : Nat] /\ cache'.left = cache.left
      /\ cache'.token = Outdate(cache.token, c)
  <2>1. cache.token \in Token /\ Outdate(cache.token, c) \in Token
    BY Outdating DEF IInv, TypeOK
  <2> QED
    BY <2>1 DEF IInv, TypeOK, Unauthorised
<1>7. TypeOK'
  <2>1. call' \in [Caller -> CallState]
    <3>1. \A d \in Caller : call'[d] \in CallState
      BY <1>1, <1>3, <1>4, <1>5
    <3>2. call' = [d \in Caller |-> call'[d]]
      BY DEF Unauthorised
    <3> QED
      BY <3>1, <3>2
  <2> QED
    BY <1>6, <2>1 DEF TypeOK
<1>8. CacheInv'
  BY <1>6, Outdating DEF IInv, TypeOK, CacheInv
<1>9. ASSUME NEW e \in Caller, e # c PROVE FreshFor(e)'
  <2>1. cache'.token.outdated = cache.token.outdated \cup {c}
    BY <1>6, Outdating DEF IInv, TypeOK
  <2>2. /\ call'[e].pc = call[e].pc
        /\ call[e].pc = "sent" => call'[e].token = call[e].token
    BY <1>4, <1>5, <1>9
  <2>3. \A d \in Caller : call'[d].pc = "fetch" =>
          /\ call[d].pc = "fetch"
          /\ call'[d].token.outdated = call[d].token.outdated \cup {c}
    BY <1>3, <1>4, <1>5
  <2> QED
    BY <1>9, <2>1, <2>2, <2>3 DEF IInv, FreshFor
<1>10. FreshFor(c)'
  BY <1>3 DEF FreshFor
<1>11. \A d \in Caller : CallInv(call'[d])
  BY <1>1, <1>3, <1>4, <1>5
<1> QED
  BY <1>7, <1>8, <1>9, <1>10, <1>11 DEF IInv

LEMMA InvalidateKeeps ==
  ASSUME IInv, NEW c \in Caller, Invalidate(c)
  PROVE  IInv'
<1> PICK k : k = [call[c] EXCEPT !.pc = "token", !.attempt = @ + 1]
  OBVIOUS
<1>1. call[c] \in CallState /\ CallInv(call[c]) /\ call[c].pc = "unauthorised"
  BY DEF IInv, TypeOK, Invalidate
<1>2. call[c].replaced
  BY <1>1 DEF CallInv
<1>3. k \in CallState /\ k.pc = "token" /\ CallInv(k)
  <2>0. call[c].attempt \in Nat /\ call[c].attempt + 1 \in Nat
    BY <1>1 DEF CallState
  <2>1. /\ k \in CallState /\ k.pc = "token" /\ k.attempt = call[c].attempt + 1
        /\ k.slept = call[c].slept /\ k.replaced = call[c].replaced
        /\ k.hold = call[c].hold /\ k.wait = call[c].wait
    <3> PICK o \in CallState : o = call[c]
      BY <1>1
    <3> PICK n \in Nat : n = o.attempt + 1
      BY DEF CallState
    <3>1. k = [o EXCEPT !.pc = "token", !.attempt = n]
      OBVIOUS
    <3>2. /\ k \in CallState /\ k.pc = "token" /\ k.attempt = n /\ k.slept = o.slept
          /\ k.replaced = o.replaced /\ k.hold = o.hold /\ k.wait = o.wait
      BY ONLY o \in CallState, n \in Nat, <3>1 DEF CallState
    <3> QED
      BY <3>2
  <2> QED
    BY <1>1, <1>2, <2>0, <2>1, TransportAssumption DEF CallInv
<1>4. call' = [call EXCEPT ![c] = k] /\ cache' = Empty
  BY DEF Invalidate
<1>5. \A d \in Caller : call[d].pc # "fetch"
  BY DEF Invalidate, LockFree
<1>6. cache' \in [token : Token, left : Nat] /\ CacheInv'
  BY <1>4 DEF Empty, NoToken, Token, CacheInv
<1>7. \A d \in Caller : FreshFor(d)'
  BY <1>1, <1>3, <1>4, <1>5 DEF IInv, TypeOK, FreshFor, Empty, NoToken
<1> QED
  BY <1>3, <1>4, <1>6, <1>7, OneCall

LEMMA WakeKeeps ==
  ASSUME IInv, NEW c \in Caller, Wake(c)
  PROVE  IInv'
<1> PICK k : k = [call[c] EXCEPT !.pc = "token", !.attempt = @ + 1]
  OBVIOUS
<1>1. call[c] \in CallState /\ CallInv(call[c]) /\ call[c].pc = "sleep" /\ call[c].wait = 0
  BY DEF IInv, TypeOK, Wake
<1>2. k \in CallState /\ k.pc = "token" /\ CallInv(k)
  <2>0. call[c].attempt \in Nat /\ call[c].attempt + 1 \in Nat /\ call[c].hold \in Nat
    BY <1>1 DEF CallState
  <2>1. /\ k \in CallState /\ k.pc = "token" /\ k.attempt = call[c].attempt + 1
        /\ k.slept = call[c].slept /\ k.replaced = call[c].replaced
        /\ k.hold = call[c].hold /\ k.wait = call[c].wait
    <3> PICK o \in CallState : o = call[c]
      BY <1>1
    <3> PICK n \in Nat : n = o.attempt + 1
      BY DEF CallState
    <3>1. k = [o EXCEPT !.pc = "token", !.attempt = n]
      OBVIOUS
    <3>2. /\ k \in CallState /\ k.pc = "token" /\ k.attempt = n /\ k.slept = o.slept
          /\ k.replaced = o.replaced /\ k.hold = o.hold /\ k.wait = o.wait
      BY ONLY o \in CallState, n \in Nat, <3>1 DEF CallState
    <3> QED
      BY <3>2
  <2> QED
    BY <1>1, <2>0, <2>1, TransportAssumption DEF CallInv
<1>3. call' = [call EXCEPT ![c] = k] /\ cache' = cache
  BY DEF Wake
<1>4. \A d \in Caller : FreshFor(d)'
  BY <1>1, <1>2, <1>3 DEF IInv, TypeOK, FreshFor
<1> QED
  BY <1>2, <1>3, <1>4, OneCall DEF IInv, TypeOK, CacheInv

\* Time takes as much off a delay as off the sleep, and off a token's life as off
\* what may still pass until it is checked.
LEMMA TickKeeps ==
  ASSUME IInv, Tick
  PROVE  IInv'
<1>1. \A c \in Caller : call[c] \in CallState /\ CallInv(call[c])
  BY DEF IInv, TypeOK
<1>2. \A c \in Caller :
        call'[c] = [call[c] EXCEPT !.token = Older(@), !.due = Less(@),
                                   !.wait = Less(@), !.hold = Less(@)]
  BY DEF Tick
<1>3. \A n \in Nat : /\ Less(n) \in Nat
                      /\ (n > 0 => Less(n) = n - 1)
                      /\ (n = 0 => Less(n) = 0)
  BY DEF Less
<1>4. ASSUME NEW c \in Caller
      PROVE  /\ call'[c] \in CallState
             /\ CallInv(call'[c])
             /\ call'[c].pc = call[c].pc
             /\ call'[c].token.outdated = call[c].token.outdated
  <2>1. /\ call[c].token \in Token /\ call[c].token.life \in Nat
        /\ call[c].due \in Nat /\ call[c].wait \in Nat /\ call[c].hold \in Nat
    BY <1>1 DEF CallState, Token
  <2>2. /\ Older(call[c].token) \in Token
        /\ Older(call[c].token).life = Less(call[c].token.life)
        /\ Older(call[c].token).outdated = call[c].token.outdated
    BY <2>1, Aging
  <2>3. /\ call'[c] \in CallState
        /\ call'[c].pc = call[c].pc /\ call'[c].slept = call[c].slept
        /\ call'[c].attempt = call[c].attempt /\ call'[c].replaced = call[c].replaced
        /\ call'[c].token = Older(call[c].token)
        /\ call'[c].due = Less(call[c].due) /\ call'[c].wait = Less(call[c].wait)
        /\ call'[c].hold = Less(call[c].hold)
    BY <1>1, <1>2, <2>2, Passing
  <2>4. call[c].pc \in {"fetch", "sent"} => call[c].due > 0
    BY DEF Tick
  <2>5. CallInv(call'[c])
    BY <1>1, <1>3, <2>1, <2>2, <2>3, <2>4, TransportAssumption DEF CallInv
  <2> QED
    BY <2>2, <2>3, <2>5
<1>5. /\ cache' \in [token : Token, left : Nat]
      /\ cache'.token.outdated = cache.token.outdated
      /\ CacheInv'
  <2>1. /\ cache.token \in Token /\ cache.token.life \in Nat /\ cache.left \in Nat
    BY DEF IInv, TypeOK, Token
  <2>2. /\ cache'.left = Less(cache.left)
        /\ cache'.token = Older(cache.token)
        /\ cache' = [token |-> cache'.token, left |-> cache'.left]
    BY DEF Tick
  <2>3. /\ cache'.token \in Token
        /\ cache'.token.life = Less(cache.token.life)
        /\ cache'.token.outdated = cache.token.outdated
    BY <2>1, <2>2, Aging
  <2>4. CacheInv'
    BY <1>3, <2>1, <2>2, <2>3, TransportAssumption DEF IInv, CacheInv
  <2> QED
    BY <1>3, <2>1, <2>2, <2>3, <2>4
<1>6. TypeOK'
  <2>1. call' \in [Caller -> CallState]
    BY <1>4 DEF Tick
  <2> QED
    BY <1>5, <2>1 DEF TypeOK
<1>7. \A c \in Caller : FreshFor(c)'
  BY <1>4, <1>5 DEF IInv, FreshFor
<1> QED
  BY <1>4, <1>5, <1>6, <1>7 DEF IInv

\* A step of a thread.
LEMMA ProceedKeeps ==
  ASSUME IInv, NEW c \in Caller, Proceed(c)
  PROVE  IInv'
<1>1. CASE FetchRefused(c) \/ Answered(c)
  BY <1>1, EndKeeps DEF FetchRefused, Answered
<1>2. CASE Unanswered(c)
  BY <1>2, DecideKeeps DEF Unanswered
<1>3. CASE Throttled(c)
  BY <1>3, DecideKeeps, TransportAssumption DEF Throttled
<1> QED
  BY <1>1, <1>2, <1>3, UseCachedKeeps, FetchKeeps, FetchedKeeps, UnauthorisedKeeps,
     InvalidateKeeps, WakeKeeps DEF Proceed

LEMMA NextInv == IInv /\ [Next]_vars => IInv'
<1> SUFFICES ASSUME IInv, [Next]_vars PROVE IInv'
  OBVIOUS
<1>1. CASE Tick
  BY <1>1, TickKeeps
<1>2. CASE \E c \in Caller : Begin(c) \/ Proceed(c)
  BY <1>2, BeginKeeps, ProceedKeeps
<1>3. CASE UNCHANGED vars
  BY <1>3 DEF IInv, TypeOK, CacheInv, FreshFor, vars
<1> QED
  BY <1>1, <1>2, <1>3 DEF Next

LEMMA Invariance == Spec => []IInv
  BY InitInv, NextInv, PTL DEF Spec

-----------------------------------------------------------------------------
(* The theorems                                                              *)

\* Calls and cache have their types.
THEOREM TypeCorrect == Spec => []TypeOK
<1>1. IInv => TypeOK
  BY DEF IInv
<1> QED
  BY <1>1, Invariance, PTL

\* I13: within a call no request is sent before the delay Xero asked for is over.
THEOREM Honoured == Spec => []RetryAfterIsHonoured
<1>1. IInv => RetryAfterIsHonoured
  BY DEF IInv, CallInv, RetryAfterIsHonoured
<1> QED
  BY <1>1, Invariance, PTL

\* A call sleeps no longer than a worker may, and its requests are counted.
THEOREM Released == Spec => []WorkIsReleased
<1>1. IInv => WorkIsReleased
  BY DEF IInv, CallInv, WorkIsReleased
<1> QED
  BY <1>1, Invariance, PTL

\* The margin of the cache is enough: no token expires on its way to Xero.
THEOREM Outlives == Spec => []TokenOutlivesRequest
<1>1. IInv => TokenOutlivesRequest
  BY DEF IInv, TypeOK, CallState, Token, CallInv, TokenOutlivesRequest
<1> QED
  BY <1>1, Invariance, PTL

\* After a 401 a call uses a token issued later.
THEOREM Replaced == Spec => []TokenIsReplaced
<1>1. IInv => TokenIsReplaced
  BY DEF IInv, FreshFor, TokenIsReplaced
<1> QED
  BY <1>1, Invariance, PTL
=============================================================================
