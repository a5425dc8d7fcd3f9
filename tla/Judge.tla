------------------------------- MODULE Judge --------------------------------
(***************************************************************************)
(* The LLM judge layer (marshal-judge): Judge::evaluate running in several  *)
(* request tasks at once over what they share, the verdict cache, the       *)
(* concurrency semaphore and the circuit breaker.  The provider call and    *)
(* the cache's eviction are the environment.                                *)
(*                                                                          *)
(* The breaker is two words, a counter and a lock-protected instant, and    *)
(* the code updates them one after the other, so each is a step of its own. *)
(* Time is only ever compared with the cooldown: an instant is "cooling"    *)
(* until the cooldown has elapsed, then "elapsed".                          *)
(***************************************************************************)
EXTENDS Integers, FiniteSets

CONSTANTS
  Req,            \* the requests whose chain reaches the judge
  Key,            \* JudgeRequest::cache_key values
  KeyOf,          \* Req -> Key
  InScope,        \* Req -> BOOLEAN: scope::governs
  Threshold,      \* circuit_breaker.consecutive_failures
  MaxConcurrent,  \* max_concurrent
  HasTimeout,     \* BOOLEAN: judge timeout configured
  OnErrorMode,    \* on_error
  OnTimeoutMode,  \* on_timeout
  None            \* no cached verdict, no answer

Verdict == {"allow", "deny", "pass"}

ASSUME JudgeConfig ==
  /\ IsFiniteSet(Req)
  /\ KeyOf \in [Req -> Key]
  /\ InScope \in [Req -> BOOLEAN]
  /\ Threshold \in Nat \ {0}       \* threshold.max(1)
  /\ MaxConcurrent \in Nat \ {0}   \* max_concurrent.max(1)
  /\ HasTimeout \in BOOLEAN
  /\ OnErrorMode \in Verdict
  /\ OnTimeoutMode \in Verdict
  /\ None \notin Verdict

VARIABLES
  pc,         \* where each request's evaluate() is
  mode,       \* the failure mode a failed call will be answered with
  heard,      \* what the provider told this request, None if nothing yet
  answer,     \* the verdict returned to the chain, None while running
  cache,      \* Key -> Verdict or None
  available,  \* permits left in the semaphore
  failures,   \* CircuitBreaker::consecutive_failures
  opened,     \* CircuitBreaker::opened_at
  said,       \* history: (key, verdict) pairs the provider ever returned
  probing     \* history: requests admitted half-open on an unbroken streak,
              \* with no success recorded since

breaker   == <<failures, opened>>
judgeVars == <<pc, mode, heard, answer, cache, available, breaker, said, probing>>

\* The points of evaluate() at which it holds its permit.
Holding == {"calling", "failed", "tripping", "succeeded", "closing", "caching"}
Done    == {"answered", "gone"}
Awaits  == {"start", "waiting", "calling", "caching"}
PC      == Holding \union Done \union {"start", "missed", "waiting"}

JudgeInit ==
  /\ pc = [r \in Req |-> "start"]
  /\ mode = [r \in Req |-> OnErrorMode]
  /\ heard = [r \in Req |-> None]
  /\ answer = [r \in Req |-> None]
  /\ cache = [k \in Key |-> None]
  /\ available = MaxConcurrent
  /\ failures = 0
  /\ opened = "closed"
  /\ said = {}
  /\ probing = {}

Goto(r, from, to) == pc[r] = from /\ pc' = [pc EXCEPT ![r] = to]

ReturnVerdict(r, from, v) == Goto(r, from, "answered") /\ answer' = [answer EXCEPT ![r] = v]

\* The permit is dropped when evaluate() returns, or is itself dropped.
Release == available' = available + 1

\* A request admitted now is a probe if it found the cooldown elapsed, and the
\* streak that opened the breaker still counted.
Probes(r) ==
  IF opened = "elapsed" /\ failures >= Threshold THEN probing \union {r} ELSE probing

-----------------------------------------------------------------------------
\* Not governed by any scope: the layer passes without looking further.
OutOfScope(r) ==
  /\ ~InScope[r]
  /\ ReturnVerdict(r, "start", "pass")
  /\ UNCHANGED <<mode, heard, cache, available, breaker, said, probing>>

CacheHit(r) ==
  /\ InScope[r]
  /\ cache[KeyOf[r]] # None
  /\ ReturnVerdict(r, "start", cache[KeyOf[r]])
  /\ UNCHANGED <<mode, heard, cache, available, breaker, said, probing>>

CacheMiss(r) ==
  /\ InScope[r]
  /\ cache[KeyOf[r]] = None
  /\ Goto(r, "start", "missed")
  /\ UNCHANGED <<mode, heard, answer, cache, available, breaker, said, probing>>

\* Mutant: a refused call counts as the pass of a layer with no opinion.
BreakerRefusesPasses(r) ==
  /\ opened = "cooling"
  /\ ReturnVerdict(r, "missed", "pass")
  /\ UNCHANGED <<mode, heard, cache, available, breaker, said, probing>>

\* CircuitBreaker::allows_call while the cooldown runs.
BreakerRefuses(r) ==
  /\ opened = "cooling"
  /\ ReturnVerdict(r, "missed", OnErrorMode)
  /\ UNCHANGED <<mode, heard, cache, available, breaker, said, probing>>

\* Mutant: going half-open also forgets the streak.
BreakerAdmitsAfresh(r) ==
  /\ opened # "cooling"
  /\ Goto(r, "missed", "waiting")
  /\ opened' = "closed"
  /\ failures' = IF opened = "elapsed" THEN 0 ELSE failures
  /\ probing' = Probes(r)
  /\ UNCHANGED <<mode, heard, answer, cache, available, said>>

\* CircuitBreaker::allows_call otherwise; an elapsed cooldown is cleared.
BreakerAdmits(r) ==
  /\ opened # "cooling"
  /\ Goto(r, "missed", "waiting")
  /\ opened' = "closed"
  /\ probing' = Probes(r)
  /\ UNCHANGED <<mode, heard, answer, cache, available, failures, said>>

Acquire(r) ==
  /\ available > 0
  /\ Goto(r, "waiting", "calling")
  /\ available' = available - 1
  /\ UNCHANGED <<mode, heard, answer, cache, breaker, said, probing>>

\* Mutant: a half-open probe is given all the time it wants.
CallTimesOutUnlessProbing(r) ==
  /\ HasTimeout /\ r \notin probing
  /\ Goto(r, "calling", "failed")
  /\ mode' = [mode EXCEPT ![r] = OnTimeoutMode]
  /\ UNCHANGED <<heard, answer, cache, available, breaker, said, probing>>

\* The call did not come back in time, or came back an error.
CallTimesOut(r) ==
  /\ HasTimeout
  /\ Goto(r, "calling", "failed")
  /\ mode' = [mode EXCEPT ![r] = OnTimeoutMode]
  /\ UNCHANGED <<heard, answer, cache, available, breaker, said, probing>>

CallFails(r) ==
  /\ Goto(r, "calling", "failed")
  /\ UNCHANGED <<mode, heard, answer, cache, available, breaker, said, probing>>

\* CircuitBreaker::record_failure, first half: the counter.
CountFailure(r) ==
  /\ failures' = failures + 1
  /\ IF failures + 1 >= Threshold
       THEN Goto(r, "failed", "tripping") /\ UNCHANGED <<answer, available>>
       ELSE ReturnVerdict(r, "failed", mode[r]) /\ Release
  /\ UNCHANGED <<mode, heard, cache, opened, said, probing>>

\* Mutant: the answer of a failed call is remembered like any other.
TripAndCache(r) ==
  /\ ReturnVerdict(r, "tripping", mode[r])
  /\ opened' = "cooling"
  /\ cache' = [cache EXCEPT ![KeyOf[r]] = mode[r]]
  /\ Release
  /\ UNCHANGED <<mode, heard, failures, said, probing>>

\* CircuitBreaker::record_failure, second half: the instant.
Trip(r) ==
  /\ ReturnVerdict(r, "tripping", mode[r])
  /\ opened' = "cooling"
  /\ Release
  /\ UNCHANGED <<mode, heard, cache, failures, said, probing>>

CallSucceeds(r, v) ==
  /\ Goto(r, "calling", "succeeded")
  /\ heard' = [heard EXCEPT ![r] = v]
  /\ said' = said \union {<<KeyOf[r], v>>}
  /\ UNCHANGED <<mode, answer, cache, available, breaker, probing>>

\* Mutant: a counter that goes below zero when it is decremented.
ResetStreakDecrements(r) ==
  /\ Goto(r, "succeeded", "closing")
  /\ failures' = failures - 1
  /\ probing' = {}
  /\ UNCHANGED <<mode, heard, answer, cache, available, opened, said>>

\* CircuitBreaker::record_success, first half.
ResetStreak(r) ==
  /\ Goto(r, "succeeded", "closing")
  /\ failures' = 0
  /\ probing' = {}
  /\ UNCHANGED <<mode, heard, answer, cache, available, opened, said>>

\* CircuitBreaker::record_success, second half.
CloseBreaker(r) ==
  /\ Goto(r, "closing", "caching")
  /\ opened' = "closed"
  /\ UNCHANGED <<mode, heard, answer, cache, available, failures, said, probing>>

CacheVerdict(r) ==
  /\ ReturnVerdict(r, "caching", heard[r])
  /\ cache' = [cache EXCEPT ![KeyOf[r]] = heard[r]]
  /\ Release
  /\ UNCHANGED <<mode, heard, breaker, said, probing>>

\* Mutant: the permit of an abandoned call is given back twice, by the drop
\* and by an explicit release.
ClientGoneTwice(r) ==
  /\ pc[r] \in Awaits
  /\ pc' = [pc EXCEPT ![r] = "gone"]
  /\ IF pc[r] \in Holding THEN available' = available + 2 ELSE UNCHANGED available
  /\ UNCHANGED <<mode, heard, answer, cache, breaker, said, probing>>

\* The client hung up: hyper drops the request's future wherever it awaits.
ClientGone(r) ==
  /\ pc[r] \in Awaits
  /\ pc' = [pc EXCEPT ![r] = "gone"]
  /\ IF pc[r] \in Holding THEN Release ELSE UNCHANGED available
  /\ UNCHANGED <<mode, heard, answer, cache, breaker, said, probing>>

\* Environment: the clock, and the cache's TTL and capacity.
CooldownElapses ==
  /\ opened = "cooling"
  /\ opened' = "elapsed"
  /\ UNCHANGED <<pc, mode, heard, answer, cache, available, failures, said, probing>>

Evicts(k) ==
  /\ cache[k] # None
  /\ cache' = [cache EXCEPT ![k] = None]
  /\ UNCHANGED <<pc, mode, heard, answer, available, breaker, said, probing>>

-----------------------------------------------------------------------------
\* What the executor runs of one evaluate(); the timer of the call is its own.
Polls(r) ==
  \/ OutOfScope(r) \/ CacheHit(r) \/ CacheMiss(r)
  \/ BreakerRefuses(r) \/ BreakerAdmits(r) \/ Acquire(r)
  \/ CallTimesOut(r) \/ CountFailure(r) \/ Trip(r)
  \/ ResetStreak(r) \/ CloseBreaker(r) \/ CacheVerdict(r)

\* What the provider does to one call.
Provider(r) == CallFails(r) \/ \E v \in Verdict : CallSucceeds(r, v)

JudgeNext ==
  \/ \E r \in Req : Polls(r) \/ Provider(r) \/ ClientGone(r)
  \/ CooldownElapses
  \/ \E k \in Key : Evicts(k)

JudgeSpec == JudgeInit /\ [][JudgeNext]_judgeVars

\* The executor keeps polling a task that can run, and the timer of a call
\* fires; tokio's semaphore is a FIFO queue, so a waiter that finds permits
\* again and again gets one.  Nothing is assumed of the provider.
JudgeFairSpec ==
  /\ JudgeSpec
  /\ \A r \in Req : WF_judgeVars(Polls(r)) /\ SF_judgeVars(Acquire(r))

-----------------------------------------------------------------------------
\* Type invariant: the two words of the breaker, the cache and the permits.
JudgeTypeOK ==
  /\ pc \in [Req -> PC]
  /\ mode \in [Req -> Verdict]
  /\ heard \in [Req -> Verdict \union {None}]
  /\ answer \in [Req -> Verdict \union {None}]
  /\ cache \in [Key -> Verdict \union {None}]
  /\ available \in 0 .. MaxConcurrent
  /\ failures \in Nat
  /\ opened \in {"closed", "cooling", "elapsed"}
  /\ said \in SUBSET (Key \X Verdict)
  /\ probing \in SUBSET Req

\* No path of evaluate() leaks a permit or returns one twice: the permits
\* left and the calls in flight always add up to max_concurrent, whether a
\* call answers, fails, times out or is abandoned by its client.
PermitsAddUp ==
  available + Cardinality({r \in Req : pc[r] \in Holding}) = MaxConcurrent

\* Only what the provider said is remembered: the verdict of a failure mode
\* never enters the cache, so an outage cannot outlive itself through it.
CacheIsTheProviders ==
  \A k \in Key : cache[k] # None => <<k, cache[k]>> \in said

\* The layer answers with what the provider said about this very cache key,
\* or with a declared failure mode; the breaker being open, another
\* request's failure or an evicted entry gives no other verdict.
AnswerHasASource ==
  \A r \in Req : pc[r] = "answered" /\ InScope[r] =>
    \/ <<KeyOf[r], answer[r]>> \in said
    \/ answer[r] = OnErrorMode
    \/ HasTimeout /\ answer[r] = OnTimeoutMode

\* What concurrent evaluations share stays sound in every order of their steps:
\* the permits, the cache and what is answered from it.
SharedStateIsSound == JudgeTypeOK /\ PermitsAddUp /\ CacheIsTheProviders /\ AnswerHasASource

\* A half-open probe that fails goes straight back to open and not through
\* another full streak (breaker.rs,
\* a_half_open_probe_that_fails_reopens_the_breaker), whatever other calls do
\* meanwhile, as long as none of them records a success.
FailedProbeReopens ==
  [][\A r \in probing : pc[r] = "failed" /\ pc'[r] # "failed"
        => pc'[r] = "tripping"]_judgeVars

\* With a timeout configured every request is answered or abandoned: neither
\* the wait for a permit nor a silent provider holds a request for ever.
EveryRequestEnds == \A r \in Req : <>(pc[r] \in Done)
=============================================================================
