------------------------------ MODULE Transport ------------------------------
(***************************************************************************)
(* Calls to Xero in several threads: one allow-listed GET retried as the     *)
(* schedule says, with a token from the cache they share.  A step is what a   *)
(* thread does between two waits: for the cache's lock, for an answer, or     *)
(* asleep.                                                                   *)
(*                                                                           *)
(* There is no clock.  What matters of time is how much of a wait, a          *)
(* timeout or a token's life is left, and Tick takes one unit off them all.   *)
(***************************************************************************)
EXTENDS Integers

CONSTANTS
  Caller,         \* threads that call Xero
  MaxAttempts,    \* RetrySchedule.max_attempts
  BackoffBase,    \* RetrySchedule.backoff_base_seconds
  BackoffMax,     \* RetrySchedule.backoff_max_seconds
  WorkerMaxSleep, \* RetrySchedule.worker_max_sleep_seconds
  RetryAfter,     \* what an answer may ask for; 0 when it asks for no usable delay
  Horizon,        \* time left until the latest representable one
  Margin,         \* _EXPIRY_MARGIN_SECONDS
  Lifetime,       \* the lives Xero gives its tokens
  FetchTime,      \* a token is issued and received within this
  SendTime        \* a request is sent and checked by Xero within this

ASSUME TransportAssumption ==
  /\ MaxAttempts \in Nat \ {0} /\ WorkerMaxSleep \in Nat
  /\ BackoffBase \in Nat /\ BackoffMax \in Nat
  /\ RetryAfter \subseteq Nat /\ Lifetime \subseteq Nat
  /\ Margin \in Nat /\ FetchTime \in Nat /\ SendTime \in Nat
  /\ Horizon \in Nat /\ Horizon >= WorkerMaxSleep

\* The times the client is configured with, and Xero's, leave a token that is
\* cached or just issued valid for as long as a request takes.
ASSUME MarginAssumption ==
  /\ Margin >= FetchTime + SendTime
  /\ \A life \in Lifetime : life > FetchTime + SendTime

VARIABLES
  call,     \* what each thread is doing
  cache     \* the TokenCache: the token, and the time left until expires_at

vars == <<call, cache>>

-----------------------------------------------------------------------------
(* Values                                                                    *)

\* A token is the time until it expires, and, noted while it is cached or being
\* fetched, the callers that have met a 401 since it was issued.
Token == [life: Nat, outdated: SUBSET Caller]
NoToken == [life |-> 0, outdated |-> {}]

Empty == [token |-> NoToken, left |-> 0]

\* due is what is left of the timeout of what the thread waits for, wait of its
\* sleep, hold of the delay Xero asked for.
Idle == [pc |-> "idle", attempt |-> 0, slept |-> 0, replaced |-> FALSE,
         token |-> NoToken, due |-> 0, wait |-> 0, hold |-> 0]

CallState ==
  [pc: {"idle", "token", "fetch", "sent", "unauthorised", "sleep"}, attempt: Nat,
   slept: Nat, replaced: BOOLEAN, token: Token, due: Nat, wait: Nat, hold: Nat]

TypeOK ==
  /\ call \in [Caller -> CallState]
  /\ cache \in [token: Token, left: Nat]

Less(n) == IF n > 0 THEN n - 1 ELSE 0

Older(token) == [token EXCEPT !.life = Less(@)]
Outdate(token, c) == [token EXCEPT !.outdated = @ \cup {c}]

\* Mutant: the token is fetched outside the lock.
NoLock == TRUE

\* The cache's lock is held while a token is fetched.
LockFree == \A c \in Caller : call[c].pc # "fetch"

-----------------------------------------------------------------------------
(* next_retry                                                                *)

Backoff(attempt) ==
  LET doubled == BackoffBase * 2^(attempt - 1)
  IN  IF doubled < BackoffMax THEN doubled ELSE BackoffMax

NotBefore(seconds) == IF seconds > Horizon THEN Horizon ELSE seconds

\* Mutant: the cap on the backoff is put on Retry-After as well.
DelaysCapped(attempt, asked) ==
  IF asked > BackoffMax THEN {BackoffMax}
  ELSE IF asked > 0 THEN {asked} ELSE 0..Backoff(attempt)

\* A usable Retry-After is the delay, or what can be represented of it; without
\* one it is anything up to the backoff (full jitter).
Delays(attempt, asked) ==
  IF asked > 0 THEN {NotBefore(asked)} ELSE 0..Backoff(attempt)

\* Mutant: only this wait is measured, not what the call has slept already.
ReleasesThis(c, asked, wait) == asked > WorkerMaxSleep \/ wait > WorkerMaxSleep

\* The work is released: this delay, or all of them together, would keep a
\* worker asleep too long.
Releases(c, asked, wait) ==
  asked > WorkerMaxSleep \/ call[c].slept + wait > WorkerMaxSleep

-----------------------------------------------------------------------------
(* One call of _get                                                          *)

Begin(c) ==
  /\ call[c].pc = "idle"
  /\ call' = [call EXCEPT ![c] = [call[c] EXCEPT !.pc = "token", !.attempt = 1]]
  /\ UNCHANGED cache

\* The call returns or raises.
End(c) ==
  /\ call' = [call EXCEPT ![c] = Idle]
  /\ UNCHANGED cache

Send(c, token) ==
  call' = [call EXCEPT ![c] =
    [call[c] EXCEPT !.pc = "sent", !.token = token, !.due = SendTime]]

\* TokenCache.get: the cached token, while expires_at lies ahead.
UseCached(c) ==
  /\ call[c].pc = "token"
  /\ LockFree
  /\ cache.left > 0
  /\ Send(c, cache.token)
  /\ UNCHANGED cache

\* Otherwise a new one, fetched under the lock.
Fetch(c) ==
  /\ call[c].pc = "token"
  /\ LockFree
  /\ cache.left = 0
  /\ \E life \in Lifetime :
       call' = [call EXCEPT ![c] = [call[c] EXCEPT
         !.pc = "fetch", !.due = FetchTime, !.token = [life |-> life, outdated |-> {}]]]
  /\ UNCHANGED cache

\* Mutant: expires_at is when the token expires, with no margin.
WithoutMargin(c) == call[c].token.life + (FetchTime - call[c].due)

\* expires_in counts from when the token is received, though it was issued before.
TimeToUse(c) ==
  LET expiresIn == call[c].token.life + (FetchTime - call[c].due)
  IN  IF expiresIn > Margin THEN expiresIn - Margin ELSE 0

Fetched(c) ==
  /\ call[c].pc = "fetch"
  /\ cache' = [token |-> call[c].token, left |-> TimeToUse(c)]
  /\ Send(c, call[c].token)

\* A 4xx or 5xx of the token endpoint is not a transport error: it is raised.
FetchRefused(c) ==
  /\ call[c].pc = "fetch"
  /\ End(c)

\* The retry decision on a failure worth retrying.
Decide(c, asked) ==
  IF call[c].attempt >= MaxAttempts THEN End(c)
  ELSE \E wait \in Delays(call[c].attempt, asked) :
         IF Releases(c, asked, wait) THEN End(c)
         ELSE /\ call' = [call EXCEPT ![c] =
                   [call[c] EXCEPT !.pc = "sleep", !.slept = @ + wait, !.wait = wait,
                                   !.hold = asked, !.token = NoToken, !.due = 0]]
              /\ UNCHANGED cache

\* Mutant: the token endpoint is asked without a timeout.
UnansweredByXero(c) ==
  /\ call[c].pc = "sent"
  /\ Decide(c, 0)

\* No answer, from Xero or the token endpoint: worth retrying, without a header.
Unanswered(c) ==
  /\ call[c].pc \in {"fetch", "sent"}
  /\ Decide(c, 0)

\* 408, 429 or 5xx.
Throttled(c) ==
  /\ call[c].pc = "sent"
  /\ \E asked \in RetryAfter : Decide(c, asked)

\* An answer, or a failure that is never retried.
Answered(c) ==
  /\ call[c].pc = "sent"
  /\ End(c)

\* The first 401 of a call has its token replaced.
Unauthorised(c) ==
  /\ call[c].pc = "sent"
  /\ ~call[c].replaced
  /\ call' = [d \in Caller |->
       IF d = c THEN [call[c] EXCEPT !.pc = "unauthorised", !.replaced = TRUE,
                                     !.token = NoToken, !.due = 0]
       ELSE IF call[d].pc = "fetch" THEN [call[d] EXCEPT !.token = Outdate(@, c)]
       ELSE call[d]]
  /\ cache' = [cache EXCEPT !.token = Outdate(@, c)]

\* invalidate waits for the lock; the next attempt starts at once.
Invalidate(c) ==
  /\ call[c].pc = "unauthorised"
  /\ LockFree
  /\ cache' = Empty
  /\ call' = [call EXCEPT ![c] = [call[c] EXCEPT !.pc = "token", !.attempt = @ + 1]]

Wake(c) ==
  /\ call[c].pc = "sleep"
  /\ call[c].wait = 0
  /\ call' = [call EXCEPT ![c] = [call[c] EXCEPT !.pc = "token", !.attempt = @ + 1]]
  /\ UNCHANGED cache

\* Nothing waits past its timeout.
Tick ==
  /\ \A c \in Caller : call[c].pc \in {"fetch", "sent"} => call[c].due > 0
  /\ call' = [c \in Caller |->
       [call[c] EXCEPT !.token = Older(@), !.due = Less(@), !.wait = Less(@),
                       !.hold = Less(@)]]
  /\ cache' = [token |-> Older(cache.token), left |-> Less(cache.left)]

-----------------------------------------------------------------------------

Init ==
  /\ call = [c \in Caller |-> Idle]
  /\ cache = Empty

Proceed(c) ==
  \/ UseCached(c) \/ Fetch(c) \/ Fetched(c) \/ FetchRefused(c)
  \/ Unanswered(c) \/ Throttled(c) \/ Answered(c) \/ Unauthorised(c)
  \/ Invalidate(c) \/ Wake(c)

Next == Tick \/ \E c \in Caller : Begin(c) \/ Proceed(c)

Spec == Init /\ [][Next]_vars

\* A thread runs on; one that waits for the lock gets it, though others take it
\* in between; a timeout ends every wait for an answer; time passes.
Fairness ==
  /\ WF_vars(Tick)
  /\ \A c \in Caller :
       /\ SF_vars(UseCached(c) \/ Fetch(c))
       /\ SF_vars(Invalidate(c))
       /\ WF_vars(Unanswered(c))
       /\ WF_vars(Wake(c))

FairSpec == Spec /\ Fairness

-----------------------------------------------------------------------------
(* Properties                                                                *)

\* A delay that Xero asks for is never shortened: a call asks again only when
\* all of it has passed (next_retry, I13).
RetryAfterIsHonoured ==
  \A c \in Caller : call[c].pc \in {"token", "fetch", "sent"} => call[c].hold = 0

\* A call does not keep its worker: it sleeps no longer than a worker may in all,
\* and asks no more often than the schedule says, and once more for a replaced
\* token (_get).
WorkIsReleased ==
  \A c \in Caller :
    /\ call[c].slept <= WorkerMaxSleep
    /\ call[c].attempt <= MaxAttempts + (IF call[c].replaced THEN 1 ELSE 0)

\* No request carries a token that expires before Xero has checked it, however
\* long ago the token was cached (TokenCache.get).
TokenOutlivesRequest ==
  \A c \in Caller : call[c].pc = "sent" => call[c].token.life > 0

\* After a 401 a call asks again with a token issued after it, never with one
\* that another thread had fetched or was fetching (invalidate, _get).
TokenIsReplaced ==
  \A c \in Caller : call[c].pc = "sent" => c \notin call[c].token.outdated

\* Every call returns or raises, however Xero answers and whoever holds the
\* cache's lock (_get, TokenCache).
EveryCallEnds == \A c \in Caller : call[c].pc # "idle" ~> call[c].pc = "idle"
=============================================================================
