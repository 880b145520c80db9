------------------------------ MODULE RateLimits ------------------------------
(***************************************************************************)
(* The fixed-window rate limiter of the content service: counters in Redis *)
(* that all processes share, and what a process decides by itself while    *)
(* Redis does not answer.  One subject and one operation; a request takes  *)
(* a command at a time, and time goes on in between.                       *)
(***************************************************************************)
EXTENDS Integers, FiniteSets

CONSTANTS
    Processes,  \* instances of the service, with their own memory
    Requests,   \* requests in flight
    DefaultRules, \* the built-in rules, by limit type; windows in ticks
    Configs,    \* configurations: rules for some of the types
    LimitTypes, \* what commands ask for, a type without any rule included
    MaxTime,    \* how long the model runs
    MaxChecks   \* requests in all (bounds the model)

Never == MaxTime + 1

\* The configuration refuses any other fallback.
Fallbacks == {"none", "local_memory", "gateway_only"}
Rule == [limit : Int, window : Int, fallback : Fallbacks, fallbackWindow : Int,
         failClosed : BOOLEAN]

\* An incomplete rule of the configuration leaves the default; one without a fallback
\* window gets that of the default.
Complete(rule) == rule.limit > 0 /\ rule.window > 0
RulesFromConfig(config) ==
    [t \in DOMAIN DefaultRules \cup {u \in DOMAIN config : Complete(config[u])} |->
        IF t \notin DOMAIN config \/ ~Complete(config[t]) THEN DefaultRules[t]
        ELSE [config[t] EXCEPT !.fallbackWindow =
                IF @ > 0 THEN @
                ELSE IF t \in DOMAIN DefaultRules THEN DefaultRules[t].fallbackWindow ELSE 0]]

\* A type without a rule is limited to one request a minute, and fails closed.
NoRule == [limit |-> 1, window |-> 1, fallback |-> "none", fallbackWindow |-> 0, failClosed |-> TRUE]
RuleOf(rules, t) == IF t \in DOMAIN rules THEN rules[t] ELSE NoRule

VARIABLES
    rule,      \* that of the type of the commands
    now,
    counter,   \* Redis: the value of the key of each window
    expiry,    \* Redis: when the key is gone, NoExpiry when it has no TTL
    bucket,    \* localMemoryRateLimiter.buckets, by process and window
    since,     \* degradedSince, Never when it is absent
    request,   \* where a request is, with the time it read and the count it was told
    checks,    \* history: requests so far
    life,      \* history: how often the key of a window was gone and was made anew
    admitted   \* history: requests as they were when they were let through

vars == <<rule, now, counter, expiry, bucket, since, request, checks, life, admitted>>

NoExpiry == -1
WindowOf(t) == t \div rule.window
Windows == 0..MaxTime
Steps == {"Idle", "Incr", "Expire", "Healthy", "Degraded"}
\* The "number"-th request; "life" is that of the key when it was counted, and it was
\* "late" if the window it had read was over by then.
Request == [step : Steps, process : Processes, number : Nat, at : 0..MaxTime, count : Nat,
            life : Nat, late : BOOLEAN]
Idle == [step |-> "Idle", process |-> CHOOSE p \in Processes : TRUE, number |-> 0, at |-> 0,
         count |-> 0, life |-> 0, late |-> FALSE]

Init ==
    /\ \E config \in Configs, t \in LimitTypes : rule = RuleOf(RulesFromConfig(config), t)
    /\ now = 0 /\ counter = [w \in Windows |-> 0] /\ expiry = [w \in Windows |-> NoExpiry]
    /\ bucket = [p \in Processes |-> [w \in Windows |-> 0]]
    /\ since = [p \in Processes |-> Never]
    /\ request = [r \in Requests |-> Idle]
    /\ checks = 0 /\ life = [w \in Windows |-> 0] /\ admitted = {}

Tick ==
    /\ now < MaxTime /\ now' = now + 1
    /\ UNCHANGED <<rule, counter, expiry, bucket, since, request, checks, life, admitted>>

Goes(r, step) == request' = [request EXCEPT ![r].step = step]
Done(r) == request' = [request EXCEPT ![r] = Idle]

\* The service asks before anything else; it reads the clock once.
Check(r, p) ==
    /\ request[r].step = "Idle"
    /\ checks < MaxChecks /\ checks' = checks + 1
    /\ request' = [request EXCEPT ![r] =
          [Idle EXCEPT !.step = "Incr", !.process = p, !.number = checks', !.at = now]]
    /\ UNCHANGED <<rule, now, counter, expiry, bucket, since, life, admitted>>

\* Redis has no key any more when its TTL is over.
Gone(w) == expiry[w] # NoExpiry /\ now >= expiry[w]
Value(w) == IF Gone(w) THEN 0 ELSE counter[w]

\* INCR of the key that names the window that the request has read, which may be over
\* by now.  A key made anew has no TTL.  An error may come after it took effect.
Incr(r) ==
    LET w == WindowOf(request[r].at) IN
    /\ request[r].step = "Incr"
    /\ \/ /\ counter' = [counter EXCEPT ![w] = Value(w) + 1]
          /\ expiry' = IF Gone(w) THEN [expiry EXCEPT ![w] = NoExpiry] ELSE expiry
          /\ life' = IF Gone(w) THEN [life EXCEPT ![w] = @ + 1] ELSE life
          /\ \/ request' = [request EXCEPT ![r] =
                   [@ EXCEPT !.step = IF Value(w) = 0 THEN "Expire" ELSE "Healthy",
                             !.count = Value(w) + 1, !.life = life'[w],
                             !.late = WindowOf(now) # w]]
             \/ Goes(r, "Degraded")
       \/ Goes(r, "Degraded") /\ UNCHANGED <<counter, expiry, life>>
    /\ UNCHANGED <<rule, now, bucket, since, checks, admitted>>

WrongTTL == rule.window - 1

\* As long as a window, from the first request that was counted
TTL == rule.window

\* Only the request that made the key sets its TTL.  If that fails the key may have none,
\* and the request is decided as if it had not been counted.
Expire(r) ==
    LET w == WindowOf(request[r].at) IN
    /\ request[r].step = "Expire"
    /\ \/ /\ expiry' = [expiry EXCEPT ![w] = now + TTL]
          /\ Goes(r, "Healthy") \/ Goes(r, "Degraded")
       \/ Goes(r, "Degraded") /\ UNCHANGED expiry
    /\ UNCHANGED <<rule, now, counter, bucket, since, checks, life, admitted>>

WrongTooMany(count) == count > rule.limit + 1
TooMany(count) == count > rule.limit

\* A request that is let through
Admits(r, count) == admitted' = admitted \cup {[request[r] EXCEPT !.count = count]}

\* Redis answered.  A late answer ends the outage others have noticed meanwhile.
MarkRedisHealthy(r) ==
    /\ request[r].step = "Healthy"
    /\ since' = [since EXCEPT ![request[r].process] = Never]
    /\ IF TooMany(request[r].count) THEN UNCHANGED admitted ELSE Admits(r, request[r].count)
    /\ Done(r) /\ UNCHANGED <<rule, now, counter, expiry, bucket, checks, life>>

\* The outage budget of the process runs from the first failure it noticed.
FallbackWindowAllows(p, at) ==
    rule.fallbackWindow > 0 /\ (since[p] = Never \/ at <= since[p] + rule.fallbackWindow)

\* The bucket of the window, counted whether the request is let through or not.  It is
\* made anew only at the end of its window, which no request that names it has read.
LocalMemoryAllows(r, p, w) ==
    /\ bucket' = [bucket EXCEPT ![p][w] = @ + 1]
    /\ IF TooMany(bucket'[p][w]) THEN UNCHANGED admitted ELSE Admits(r, bucket'[p][w])

Closed == rule.failClosed \/ rule.fallback = "none"

DegradedDecision(r) ==
    LET p == request[r].process
        at == request[r].at
    IN
    /\ request[r].step = "Degraded"
    /\ since' = IF ~Closed /\ rule.fallbackWindow > 0 /\ since[p] = Never
                THEN [since EXCEPT ![p] = at] ELSE since
    /\ \/ /\ Closed \/ ~FallbackWindowAllows(p, at)
          /\ UNCHANGED <<bucket, admitted>>
       \/ /\ ~Closed /\ FallbackWindowAllows(p, at) /\ rule.fallback = "local_memory"
          /\ LocalMemoryAllows(r, p, WindowOf(at))
       \/ /\ ~Closed /\ FallbackWindowAllows(p, at) /\ rule.fallback = "gateway_only"
          /\ Admits(r, 0) /\ UNCHANGED bucket
    /\ Done(r) /\ UNCHANGED <<rule, now, counter, expiry, checks, life>>

Next ==
    \/ Tick
    \/ \E r \in Requests :
          \/ \E p \in Processes : Check(r, p)
          \/ Incr(r) \/ Expire(r) \/ MarkRedisHealthy(r) \/ DegradedDecision(r)

Spec == Init /\ [][Next]_vars

-----------------------------------------------------------------------------
(* What holds of every reachable state *)

TypeOK ==
    /\ now \in 0..MaxTime /\ counter \in [Windows -> Nat]
    /\ expiry \in [Windows -> Nat \cup {NoExpiry}] /\ life \in [Windows -> Nat]
    /\ bucket \in [Processes -> [Windows -> Nat]] /\ since \in [Processes -> 0..Never]
    /\ request \in [Requests -> Request] /\ checks \in 0..MaxChecks
    /\ admitted \subseteq Request

ByRedis(w) == {a \in admitted : a.step = "Healthy" /\ WindowOf(a.at) = w}
ByProcess(p, w) ==
    {a \in admitted : a.step = "Degraded" /\ a.process = p /\ WindowOf(a.at) = w}
AtMost(n, S) == IsFiniteSet(S) /\ Cardinality(S) <= n

\* Whatever order commands, failures and the clock come in, all processes together let
\* through no more requests of a window that Redis counted than "limit" while the window
\* lasts, and "limit" more for each time that its key is gone and requests that have
\* read that window still come; each process no more than "limit" of those it counted
\* itself, and with a rule that fails closed none.
QuotaBounded == \A w \in Windows :
    /\ AtMost(rule.limit, {a \in ByRedis(w) : ~a.late})
    /\ \A n \in 0..life[w] : AtMost(rule.limit, {a \in ByRedis(w) : a.life = n})
    /\ rule.fallback = "local_memory" => \A p \in Processes : AtMost(rule.limit, ByProcess(p, w))
    /\ Closed => \A p \in Processes : ByProcess(p, w) = {}

-----------------------------------------------------------------------------
(* The inductive invariant *)

\* What Redis counted and has let through, or has still to be told
Counted ==
    {a \in admitted : a.step = "Healthy"}
    \cup {[request[r] EXCEPT !.step = "Healthy"] :
              r \in {s \in Requests : request[s].step \in {"Expire", "Healthy"}}}

\* No two requests have the same number, and those that were let through are done.
Distinct ==
    /\ \A r, s \in Requests :
          r # s /\ request[r].step # "Idle" /\ request[s].step # "Idle" =>
              request[r].number # request[s].number
    /\ \A r \in Requests : request[r].number <= checks
    /\ \A a, b \in admitted : a.number = b.number => a = b
    /\ \A a \in admitted :
          /\ a.step \in {"Healthy", "Degraded"} /\ a.number <= checks
          /\ \A r \in Requests : request[r].step # "Idle" => a.number # request[r].number

\* In one life of a key no two of them have the same count.
RedisQuota ==
    /\ \A a \in Counted :
          LET w == WindowOf(a.at) IN
          /\ a.count > 0 /\ a.life <= life[w] /\ (a.life = life[w] => a.count <= counter[w])
          /\ ~a.late => a.life = 0
    /\ \A a, b \in Counted :
          WindowOf(a.at) = WindowOf(b.at) /\ a.life = b.life /\ a.count = b.count
              => a.number = b.number
    /\ \A a \in admitted : a.step = "Healthy" => ~TooMany(a.count)

\* A key outlives its window: the TTL begins when a request has read the window.
OutlivesWindow ==
    /\ \A r \in Requests : request[r].at <= now
    /\ \A w \in Windows :
          /\ expiry[w] # NoExpiry => WindowOf(expiry[w]) > w
          /\ life[w] # 0 => WindowOf(now) > w

\* The same for a process and its bucket
LocalQuota ==
    /\ rule.fallback = "local_memory" =>
          /\ \A a \in admitted : a.step = "Degraded" =>
                a.count \in 1..bucket[a.process][WindowOf(a.at)] /\ ~TooMany(a.count)
          /\ \A p \in Processes, w \in Windows : \A a, b \in ByProcess(p, w) :
                a.count = b.count => a = b
    /\ Closed => \A a \in admitted : a.step # "Degraded"

IInv ==
    /\ rule \in Rule /\ Complete(rule) /\ TypeOK
    /\ Distinct /\ RedisQuota /\ OutlivesWindow /\ LocalQuota
=============================================================================
