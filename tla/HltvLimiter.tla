---------------------------- MODULE HltvLimiter ----------------------------
(***************************************************************************)
(* The way to hltv.org: HltvService queues every request behind the one    *)
(* before it, limits how many start in a window of time, stops after some  *)
(* failures in a row, and sends requests for odds through proxies, each of *)
(* which rests for a while after it has failed.                            *)
(*                                                                         *)
(* Times are kept as ages and as time left, in ticks, so that the model is *)
(* finite without a bound on the clock: an age stops at the point where    *)
(* nothing looks at it any more.                                           *)
(***************************************************************************)
EXTENDS Integers, Sequences, FiniteSets

CONSTANTS
    Callers,        \* the workers of the mapping queue and of the odds queue
    Proxies,        \* HLTV_PROXY_LIST holds proxies 1 .. Proxies; none: not enabled
    RateLimit,      \* HLTV_RATE_LIMIT
    RateWindow,     \* HLTV_RATE_WINDOW_MS
    Margin,         \* the 100 ms that are waited on top
    Threshold,      \* HLTV_CIRCUIT_BREAKER_THRESHOLD
    Cooldown,       \* HLTV_CIRCUIT_BREAKER_COOLDOWN_MS
    BadCooldown,    \* badCooldownMs
    MaxRetries      \* maxRetries of createProxiedLoadPage

ASSUME LimiterAssumption ==
    /\ {Proxies, MaxRetries} \subseteq Nat
    /\ {RateLimit, RateWindow, Margin, Threshold, Cooldown, BadCooldown} \subseteq Nat \ {0}

VARIABLES
    asked,              \* what each caller awaits: "none", "direct" or "proxied"
    pending,            \* the chain of requests: callers in order
    stage,              \* of the first: "queued", "waiting" for the limit, or "loading"
    wait,               \* time left of its timer
    requestTimestamps,  \* ages of the requests the service remembers
    consecutiveErrors,
    circuitOpen,        \* time left until circuitOpenUntil, 0 when it has passed
    attempt,            \* of createProxiedLoadPage: MaxRetries is the direct request
    proxy,              \* the proxy of the attempt, 0 for none
    currentIndex,
    badProxies,         \* proxy -> time left until it may be used
    started,            \* history: ages of the requests started within the last window
    failed,             \* history: requests failed in a row
    quiet               \* history: age of the last failure

limiterVars == <<asked, pending, stage, wait, requestTimestamps, consecutiveErrors, circuitOpen,
                 attempt, proxy, currentIndex, badProxies, started, failed, quiet>>
breaker == <<consecutiveErrors, circuitOpen>>
pool    == <<attempt, proxy, currentIndex, badProxies>>
history == <<started, failed, quiet>>

Capped(n, cap) == IF n > cap THEN cap ELSE n
Less(n)        == IF n > 0 THEN n - 1 ELSE 0

\* Those within the window, in order: filter.
Young(ages) ==
    LET kept[n \in 0 .. Len(ages)] ==
          IF n = 0 THEN << >>
          ELSE IF ages[n] < RateWindow THEN Append(kept[n - 1], ages[n]) ELSE kept[n - 1]
    IN kept[Len(ages)]

LimiterInit ==
    /\ asked = [c \in Callers |-> "none"]
    /\ pending = << >> /\ stage = "queued" /\ wait = 0
    /\ requestTimestamps = << >> /\ started = << >>
    /\ consecutiveErrors = 0 /\ circuitOpen = 0
    /\ attempt = 0 /\ proxy = 0 /\ currentIndex = 0
    /\ badProxies = [p \in 1 .. Proxies |-> 0]
    /\ failed = 0 /\ quiet = Cooldown

-----------------------------------------------------------------------------
\* enqueue: behind the pending one

\* getEvents and getEventMatches go direct, getMatch through the proxies.
EnqueueRequest(c, how) ==
    /\ asked[c] = "none"
    /\ asked' = [asked EXCEPT ![c] = how]
    /\ pending' = Append(pending, c)
    /\ UNCHANGED <<stage, wait, requestTimestamps, breaker, pool, history>>

\* The first of the chain is answered, and the next one's turn comes.
Answer ==
    /\ asked' = [asked EXCEPT ![Head(pending)] = "none"]
    /\ pending' = Tail(pending)
    /\ stage' = "queued"

\* isCircuitOpen, and a null for the caller
Skip ==
    /\ pending # << >> /\ stage = "queued" /\ circuitOpen > 0
    /\ Answer
    /\ UNCHANGED <<wait, requestTimestamps, breaker, pool, history>>

\* The request is remembered, and its page is to be loaded.
Start(timestamps) ==
    /\ requestTimestamps' = Append(timestamps, 0)
    /\ started' = Append(started, 0)
    /\ stage' = "loading"
    /\ attempt' = IF asked[Head(pending)] = "proxied" /\ Proxies > 0 THEN 0 ELSE MaxRetries
    /\ proxy' = 0
    /\ UNCHANGED <<asked, pending, wait, breaker, currentIndex, badProxies, failed, quiet>>

\* waitForRateLimit up to its timer.  Variant that looks at the limit too late.
LaxlyAdmit ==
    /\ pending # << >> /\ stage = "queued" /\ circuitOpen = 0
    /\ LET recent == Young(requestTimestamps) IN
         IF Len(recent) <= RateLimit THEN Start(recent)
         ELSE /\ stage' = "waiting"
              /\ wait' = RateWindow - recent[1] + Margin
              /\ requestTimestamps' = recent
              /\ UNCHANGED <<asked, pending, breaker, pool, history>>

Admit ==
    /\ pending # << >> /\ stage = "queued" /\ circuitOpen = 0
    /\ LET recent == Young(requestTimestamps) IN
         IF Len(recent) < RateLimit THEN Start(recent)
         ELSE /\ stage' = "waiting"
              /\ wait' = RateWindow - recent[1] + Margin
              /\ requestTimestamps' = recent
              /\ UNCHANGED <<asked, pending, breaker, pool, history>>

\* Its timer fires, some time after it is due.
Wake ==
    /\ stage = "waiting" /\ wait = 0
    /\ Start(requestTimestamps)

-----------------------------------------------------------------------------
\* loadPage

\* getProxy: the next one that is not bad, or the first of the list.
Turns == {i \in 0 .. Proxies - 1 : badProxies[((currentIndex + i) % Proxies) + 1] = 0}

GetProxy ==
    /\ stage = "loading" /\ proxy = 0 /\ attempt < MaxRetries
    /\ IF Turns = {} THEN /\ proxy' = 1
                          /\ UNCHANGED currentIndex      \* Proxies turns further
       ELSE LET i == CHOOSE i \in Turns : \A j \in Turns : i <= j IN
              /\ proxy' = ((currentIndex + i) % Proxies) + 1
              /\ currentIndex' = (currentIndex + i + 1) % Proxies
    /\ UNCHANGED <<asked, pending, stage, wait, requestTimestamps, breaker, attempt, badProxies,
                   history>>

\* The fetch through the proxy fails: reportBad, and another attempt.
ProxyFails ==
    /\ stage = "loading" /\ proxy # 0
    /\ badProxies' = [badProxies EXCEPT ![proxy] = BadCooldown]
    /\ proxy' = 0
    /\ attempt' = attempt + 1
    /\ UNCHANGED <<asked, pending, stage, wait, requestTimestamps, breaker, currentIndex, history>>

\* A page is being read, from a proxy or directly.
Fetching == stage = "loading" /\ (proxy # 0 \/ attempt = MaxRetries)

Succeed ==
    /\ Fetching
    /\ consecutiveErrors' = 0 /\ failed' = 0
    /\ Answer
    /\ UNCHANGED <<wait, requestTimestamps, circuitOpen, pool, started, quiet>>

\* The direct request fails, or the body of any response does, or the page is none
\* that can be parsed.  Variants: the circuit opens at the threshold and not beyond;
\* the failed request keeps its place in the chain.
FailOnce ==
    /\ Fetching
    /\ consecutiveErrors' = Capped(consecutiveErrors + 1, Threshold + 1)
    /\ circuitOpen' = IF consecutiveErrors + 1 = Threshold THEN Cooldown ELSE circuitOpen
    /\ failed' = Capped(failed + 1, Threshold) /\ quiet' = 0
    /\ Answer
    /\ UNCHANGED <<wait, requestTimestamps, pool, started>>

FailInPlace ==
    /\ Fetching
    /\ consecutiveErrors' = Capped(consecutiveErrors + 1, Threshold + 1)
    /\ circuitOpen' = IF consecutiveErrors + 1 >= Threshold THEN Cooldown ELSE circuitOpen
    /\ failed' = Capped(failed + 1, Threshold) /\ quiet' = 0
    /\ UNCHANGED <<asked, pending, stage, wait, requestTimestamps, pool, started>>

Fail ==
    /\ Fetching
    /\ consecutiveErrors' = Capped(consecutiveErrors + 1, Threshold + 1)
    /\ circuitOpen' = IF consecutiveErrors + 1 >= Threshold THEN Cooldown ELSE circuitOpen
    /\ failed' = Capped(failed + 1, Threshold) /\ quiet' = 0
    /\ Answer
    /\ UNCHANGED <<wait, requestTimestamps, pool, started>>

-----------------------------------------------------------------------------
Older(ages) == [i \in DOMAIN ages |-> Capped(ages[i] + 1, RateWindow)]

Tick ==
    /\ wait' = Less(wait)
    /\ requestTimestamps' = Older(requestTimestamps)
    /\ circuitOpen' = Less(circuitOpen)
    /\ badProxies' = [p \in 1 .. Proxies |-> Less(badProxies[p])]
    /\ started' = Young(Older(started))
    /\ quiet' = Capped(quiet + 1, Cooldown)
    /\ UNCHANGED <<asked, pending, stage, consecutiveErrors, attempt, proxy, currentIndex, failed>>

Serve == Skip \/ Admit \/ Wake \/ GetProxy \/ ProxyFails \/ Succeed \/ Fail

LimiterNext ==
    \/ \E c \in Callers, how \in {"direct", "proxied"} : EnqueueRequest(c, how)
    \/ Skip \/ Admit \/ Wake
    \/ GetProxy \/ ProxyFails \/ Succeed \/ Fail
    \/ Tick

LimiterSpec == LimiterInit /\ [][LimiterNext]_limiterVars

\* Time passes, and whatever is being done comes to an end.
LimiterFairSpec == LimiterSpec /\ WF_limiterVars(Tick) /\ WF_limiterVars(Serve)

-----------------------------------------------------------------------------
\* Properties

\* "HLTV_RATE_LIMIT requests per HLTV_RATE_WINDOW_MS" (hltv.service.ts:44), whatever
\* the two workers ask for and however long requests and timers take.
RateLimited == Len(started) <= RateLimit

\* After Threshold failures in a row no request starts before the cooldown is over,
\* the first failure after a cooldown included: the count goes on.
BreakerHolds ==
    [][stage # "loading" /\ stage' = "loading"
          => failed < Threshold \/ quiet >= Cooldown]_limiterVars

\* Every request is answered, by a page or by nothing: a worker never hangs.
EveryRequestAnswered == \A c \in Callers : asked[c] # "none" ~> asked[c] = "none"
=============================================================================
