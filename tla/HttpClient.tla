----------------------------- MODULE HttpClient -----------------------------
(***************************************************************************)
(* src/inputs/http-client.ts: the request queue (RequestQueue), the retry  *)
(* loop that holds a slot across its attempts (fetchWithRetry), and        *)
(* close().                                                                *)
(*                                                                         *)
(* Time is discrete and kept as countdowns: timer[r] is what is left of    *)
(* the timer request r sleeps on, and gap is nextAllowedStart - now,       *)
(* floored at 0.  A timer fires when it is due; the wall clock the code    *)
(* reads is taken to advance with the timers.                              *)
(***************************************************************************)
EXTENDS Integers, Sequences, FiniteSets

CONSTANTS
    Requests,           \* the fetch() calls made on the client
    MaxConcurrency, MinDelay,
    BackoffBase, MaxBackoff, MaxRetries, MaxRetryAfter,  \* RateLimitOptions
    RetryAfters         \* Retry-After values the server may send

ASSUME LimitsAreNat ==
    /\ MaxConcurrency \in Nat \ {0}
    /\ {MinDelay, BackoffBase, MaxBackoff, MaxRetries, MaxRetryAfter} \subseteq Nat
    /\ RetryAfters \subseteq Nat
ASSUME RequestsAreFinite == IsFiniteSet(Requests)

VARIABLES
    phase,      \* where each call is: idle, queued, starting, fetching,
                \* cancelling, sleeping or done
    attempt,    \* zero-based attempt of each call's retry loop
    timer,      \* countdown of each call's timer
    waiting,    \* RequestQueue.waiting
    active,     \* RequestQueue.active
    gap,        \* RequestQueue.nextAllowedStart, relative to now
    closed,     \* closeController is aborted
    sinceStart, \* history: time since a task was last started, up to MinDelay
    lateFetches \* history: how often each call has called fetch once closed

vars == <<phase, attempt, timer, waiting, active, gap, closed, sinceStart,
          lateFetches>>

Smaller(a, b) == IF a < b THEN a ELSE b
Larger(a, b) == IF a < b THEN b ELSE a

-----------------------------------------------------------------------------
(* RequestQueue. *)

\* A slot is free and a call waits for one.
CanPump(w, a) == a < MaxConcurrency /\ w # <<>>

\* Mutation of Pump: the wait already granted is not added to the next gap.
PumpForgetsWait(ph, w, a) ==
    IF CanPump(w, a)
    THEN /\ phase' = [ph EXCEPT ![Head(w)] = "starting"]
         /\ waiting' = Tail(w)
         /\ active' = a + 1
         /\ timer' = [timer EXCEPT ![Head(w)] = gap]
         /\ gap' = MinDelay
    ELSE /\ phase' = ph
         /\ waiting' = w
         /\ active' = a
         /\ UNCHANGED <<timer, gap>>

\* Mutation of Pump: the last call to arrive is served first.
PumpLast(ph, w, a) ==
    IF CanPump(w, a)
    THEN /\ phase' = [ph EXCEPT ![w[Len(w)]] = "starting"]
         /\ waiting' = SubSeq(w, 1, Len(w) - 1)
         /\ active' = a + 1
         /\ timer' = [timer EXCEPT ![w[Len(w)]] = gap]
         /\ gap' = gap + MinDelay
    ELSE /\ phase' = ph
         /\ waiting' = w
         /\ active' = a
         /\ UNCHANGED <<timer, gap>>

\* pump(): the first waiting call takes the slot and starts after the gap.
\* ph, w and a are phase, waiting and active as the caller of pump() left them.
Pump(ph, w, a) ==
    IF CanPump(w, a)
    THEN /\ phase' = [ph EXCEPT ![Head(w)] = "starting"]
         /\ waiting' = Tail(w)
         /\ active' = a + 1
         /\ timer' = [timer EXCEPT ![Head(w)] = gap]
         /\ gap' = gap + MinDelay
    ELSE /\ phase' = ph
         /\ waiting' = w
         /\ active' = a
         /\ UNCHANGED <<timer, gap>>

\* acquire(): queue up, then pump.
Acquire(r) ==
    /\ phase[r] = "idle"
    /\ Pump([phase EXCEPT ![r] = "queued"], Append(waiting, r), active)
    /\ UNCHANGED <<attempt, closed, sinceStart, lateFetches>>

\* Mutation of Release: the slot is given back without waking a waiter.
ReleaseWithoutPump(r) ==
    /\ phase' = [phase EXCEPT ![r] = "done"]
    /\ active' = active - 1
    /\ UNCHANGED <<attempt, timer, waiting, gap, closed, sinceStart, lateFetches>>

\* The finally of run(): release the slot, then pump.
Release(r) ==
    /\ Pump([phase EXCEPT ![r] = "done"], waiting, active - 1)
    /\ UNCHANGED <<attempt, closed, sinceStart, lateFetches>>

\* A call of fetch; once closed, its signal is already aborted.
CallsFetch(r) ==
    lateFetches' = IF closed THEN [lateFetches EXCEPT ![r] = @ + 1]
                             ELSE lateFetches

\* The timer pump() set fires: the slot is granted and the task begins.
Start(r) ==
    /\ phase[r] = "starting"
    /\ timer[r] = 0
    /\ phase' = [phase EXCEPT ![r] = "fetching"]
    /\ sinceStart' = 0
    /\ CallsFetch(r)
    /\ UNCHANGED <<attempt, timer, waiting, active, gap, closed>>

-----------------------------------------------------------------------------
(* fetchWithRetry. *)

\* Full jitter: any delay up to the ceiling, which doubles per attempt.
BackoffDelay(n) == {wait \in 0 .. MaxBackoff : wait <= BackoffBase * 2 ^ n}

\* A Retry-After is capped at MaxRetryAfter and floored at BackoffBase.
RetryAfterDelay(header) == Larger(BackoffBase, Smaller(header, MaxRetryAfter))

Sleep(r, wait) ==
    /\ phase' = [phase EXCEPT ![r] = "sleeping"]
    /\ timer' = [timer EXCEPT ![r] = wait]
    /\ UNCHANGED <<attempt, waiting, active, gap, closed, sinceStart, lateFetches>>

\* An ok or permanent status, or a retryable one on the last attempt.
\* Once the client is closed no response arrives: the signal aborts the fetch.
Responds(r) ==
    /\ phase[r] = "fetching" /\ ~closed
    /\ Release(r)

CanRetry(r) == attempt[r] < MaxRetries

\* A retryable status with attempts left: first the body is cancelled, which is
\* awaited, so the client may be closed before the wait begins.
RespondsRetryable(r) ==
    /\ phase[r] = "fetching" /\ ~closed
    /\ CanRetry(r)
    /\ phase' = [phase EXCEPT ![r] = "cancelling"]
    /\ UNCHANGED <<attempt, timer, waiting, active, gap, closed, sinceStart,
                   lateFetches>>

BodyIsCancelled(r) ==
    /\ phase[r] = "cancelling"
    /\ \E wait \in BackoffDelay(attempt[r])
                     \cup {RetryAfterDelay(h) : h \in RetryAfters} :
         Sleep(r, wait)

\* Mutation of GivesUp: a closed client keeps retrying.
GivesUpOnLastAttempt(r) == ~CanRetry(r)

GivesUp(r) == closed \/ ~CanRetry(r)

\* The catch: a network error, a request timeout, the abort that close() causes,
\* or a body that could not be cancelled.
Rejects(r) ==
    /\ phase[r] \in {"fetching", "cancelling"}
    /\ \/ GivesUp(r) /\ Release(r)
       \/ ~GivesUp(r) /\ \E wait \in BackoffDelay(attempt[r]) : Sleep(r, wait)

\* The sleep ends and the next attempt calls fetch.
Wake(r) ==
    /\ phase[r] = "sleeping"
    /\ timer[r] = 0
    /\ phase' = [phase EXCEPT ![r] = "fetching"]
    /\ attempt' = [attempt EXCEPT ![r] = @ + 1]
    /\ CallsFetch(r)
    /\ UNCHANGED <<timer, waiting, active, gap, closed, sinceStart>>

\* close() aborts the controller; it wakes no sleeper and empties no queue.
Close ==
    /\ ~closed
    /\ closed' = TRUE
    /\ UNCHANGED <<phase, attempt, timer, waiting, active, gap, sinceStart,
                   lateFetches>>

Timed(r) == phase[r] \in {"starting", "sleeping"}

\* Time passes only when no timer is due.
Tick ==
    /\ \A r \in Requests : Timed(r) => timer[r] > 0
    /\ gap > 0 \/ sinceStart < MinDelay \/ \E r \in Requests : Timed(r)
    /\ timer' = [r \in Requests |-> Larger(0, timer[r] - 1)]
    /\ gap' = Larger(0, gap - 1)
    /\ sinceStart' = Smaller(MinDelay, sinceStart + 1)
    /\ UNCHANGED <<phase, attempt, waiting, active, closed, lateFetches>>
-----------------------------------------------------------------------------
Init ==
    /\ phase = [r \in Requests |-> "idle"]
    /\ attempt = [r \in Requests |-> 0]
    /\ timer = [r \in Requests |-> 0]
    /\ waiting = <<>>
    /\ active = 0
    /\ gap = 0
    /\ closed = FALSE
    /\ sinceStart = MinDelay
    /\ lateFetches = [r \in Requests |-> 0]

Settle(r) ==
    Responds(r) \/ RespondsRetryable(r) \/ BodyIsCancelled(r) \/ Rejects(r)

Next ==
    \/ \E r \in Requests : Acquire(r) \/ Start(r) \/ Settle(r) \/ Wake(r)
    \/ Close
    \/ Tick

Spec == Init /\ [][Next]_vars

\* Timers fire, and every fetch settles: AbortSignal.timeout bounds each one.
Fairness ==
    /\ WF_vars(Tick)
    /\ \A r \in Requests : WF_vars(Start(r) \/ Settle(r) \/ Wake(r))

FairSpec == Spec /\ Fairness
-----------------------------------------------------------------------------
(* Properties. *)

Holders ==
    {r \in Requests :
       phase[r] \in {"starting", "fetching", "cancelling", "sleeping"}}

Finished == {r \in Requests : phase[r] = "done"}

\* Every field of the queue and of each retry loop has its type.
TypeOK ==
    /\ phase \in [Requests -> {"idle", "queued", "starting", "fetching",
                               "cancelling", "sleeping", "done"}]
    /\ attempt \in [Requests -> 0 .. MaxRetries]
    /\ timer \in [Requests -> Nat]
    /\ waiting \in Seq(Requests)
    /\ active \in Nat
    /\ gap \in Nat
    /\ closed \in BOOLEAN
    /\ sinceStart \in 0 .. MinDelay
    /\ lateFetches \in [Requests -> Nat]

\* The counter is exactly the number of calls that hold a slot, so none leaks
\* on a retry, an error or a close (http-client.ts:78-110).
ActiveCountsHolders == active = Cardinality(Holders)

\* The slot is held across retries and backoff waits, and never by more calls
\* than the limit (http-client.ts:95-106, 176-179).
ConcurrencyLimit == Cardinality(Holders) <= MaxConcurrency

\* pump() starts one call at a time, yet no call is ever left waiting while a
\* slot is free: there is no lost wakeup (http-client.ts:87-113).
NoLostWakeup == waiting # <<>> => active = MaxConcurrency

\* Any two tasks start at least minDelayMs apart, whichever slots they take
\* (http-client.ts:103-106).
StartsSpaced ==
    [][\A r \in Requests :
         (phase[r] = "starting" /\ phase'[r] = "fetching")
           => sinceStart = MinDelay]_vars

\* close() stops retrying: whether it finds a call queued, granted, fetching,
\* cancelling a body or asleep, that call makes at most one more fetch, which
\* the aborted signal rejects (http-client.ts:194-199, 281-286).
OneFetchAfterClose == \A r \in Requests : lateFetches[r] <= 1

\* Every call settles, closed or not: it leaves the queue, runs out of retries
\* and frees its slot (http-client.ts:78-85, 241-296).
EveryCallSettles ==
    \A r \in Requests : phase[r] = "queued" ~> phase[r] = "done"

\* What the comment on maxRetryAfterMs says: "closeController.abort() still
\* cancels the wait on plugin stop", so no call sits out its wait once the
\* client is closed (http-client.ts:36).
CloseCancelsTheWait ==
    [][\A r \in Requests :
         (closed /\ phase[r] = "sleeping") => timer'[r] >= timer[r]]_vars

\* The queue is a work-conserving FIFO pool of MaxConcurrency slots.
Pool == INSTANCE FifoPool WITH
          Capacity <- MaxConcurrency,
          running  <- Holders,
          queue    <- waiting,
          finished <- Finished

\* run() with its queue implements the pool its callers rely on, through every
\* retry, error and close.
ImplementsPool == Pool!PoolSpec
=============================================================================
