----------------------------- MODULE RateLimits -----------------------------
(***************************************************************************)
(* The in-memory rate limiters, middleware/ratelimit.go: a map from keys   *)
(* (a user, an IP address) to token buckets made on demand and dropped by  *)
(* a cleanup goroutine once nobody has asked for them for Idle ticks.      *)
(*                                                                         *)
(* A tick is the unit in which credit is counted.  The mutex of the map    *)
(* makes GetLimiter and Cleanup atomic; between a request's GetLimiter and *)
(* its Allow any of them may run, but no tick passes (the two calls follow *)
(* each other and neither blocks; a tick stands for seconds).  The limiter *)
(* is on (DISABLE_RATE_LIMIT is for the test suites).                      *)
(***************************************************************************)
EXTENDS Integers

CONSTANTS
    Bucket,     \* keys of the limiters in use
    Burst,      \* Burst[b]: config.Burst
    Period,     \* Period[b]: ticks that earn one token, 1 / config.Rate
    Idle,       \* an entry older than this many ticks is dropped (one hour)
    Request,    \* requests in flight
    Window,     \* length of the longest observation (bound of the history)
    NoBucket

Full(b) == Burst[b] * Period[b]

\* A bucket refills within the hour after which it is dropped: 15 minutes for
\* logins, a minute for orders and messages, exactly the hour for listings
\* (lines 100-158).
RateLimitsAssumption ==
    /\ Burst \in [Bucket -> Nat \ {0}]
    /\ Period \in [Bucket -> Nat \ {0}]
    /\ Idle \in Nat
    /\ \A b \in Bucket : Full(b) \in 1..Idle
    /\ Window \in Nat
    /\ NoBucket \notin Bucket

VARIABLES
    limiters,   \* the keys in the map
    credit,     \* credit[b]: what the limiter of key b holds
    idle,       \* idle[b]: ticks since lastSeen, stopping at Idle + 1
    got,        \* got[r]: the limiter a request has and has not asked yet
    since,      \* history: ticks since the observation began
    passed      \* history: passed[b]: requests let through since then

limitVars == <<limiters, credit, idle, got, since, passed>>

Init ==
    /\ limiters = {}
    /\ credit = [b \in Bucket |-> Full(b)]
    /\ idle = [b \in Bucket |-> Idle + 1]
    /\ got = [r \in Request |-> NoBucket]
    /\ since = 0
    /\ passed = [b \in Bucket |-> 0]

-----------------------------------------------------------------------------
\* getLimiter: a key without an entry gets a new, full bucket.
GetLimiter(r, b) ==
    /\ got[r] = NoBucket
    /\ got' = [got EXCEPT ![r] = b]
    /\ limiters' = limiters \cup {b}
    /\ credit' = IF b \in limiters THEN credit ELSE [credit EXCEPT ![b] = Full(b)]
    /\ idle' = [idle EXCEPT ![b] = 0]
    /\ UNCHANGED <<since, passed>>

\* Mutant: nobody looks whether there is a token.
AllowAlways(r) ==
    LET b == got[r] IN
      /\ b # NoBucket
      /\ credit' = [credit EXCEPT ![b] = @ - Period[b]]
      /\ passed' = [passed EXCEPT ![b] = @ + 1]
      /\ got' = [got EXCEPT ![r] = NoBucket]
      /\ UNCHANGED <<limiters, idle, since>>

\* limiter.Allow() takes a token.
Allow(r) ==
    LET b == got[r] IN
      /\ b # NoBucket
      /\ credit[b] >= Period[b]
      /\ credit' = [credit EXCEPT ![b] = @ - Period[b]]
      /\ passed' = [passed EXCEPT ![b] = @ + 1]
      /\ got' = [got EXCEPT ![r] = NoBucket]
      /\ UNCHANGED <<limiters, idle, since>>

\* limiter.Allow() finds none: 429.
Refuse(r) ==
    LET b == got[r] IN
      /\ b # NoBucket
      /\ credit[b] < Period[b]
      /\ got' = [got EXCEPT ![r] = NoBucket]
      /\ UNCHANGED <<limiters, credit, idle, since, passed>>

\* Mutant: the cutoff is the moment the bucket could be full for one token.
ExpiredEarly(b) == idle[b] >= Period[b]

\* lastSeen.Before(cutoff).
Expired(b) == idle[b] > Idle

\* cleanup: one pass drops every expired entry.
Cleanup ==
    /\ \E b \in limiters : Expired(b)
    /\ limiters' = {b \in limiters : ~Expired(b)}
    /\ UNCHANGED <<credit, idle, got, since, passed>>

\* Time passes; every bucket earns one tick of credit up to its burst.  An
\* observation that has lasted Window ticks gives way to a new one.
Elapse ==
    /\ \A r \in Request : got[r] = NoBucket
    /\ credit' = [b \in Bucket |-> IF credit[b] < Full(b) THEN credit[b] + 1 ELSE Full(b)]
    /\ idle' = [b \in Bucket |-> IF idle[b] <= Idle THEN idle[b] + 1 ELSE idle[b]]
    /\ IF since < Window
         THEN since' = since + 1 /\ UNCHANGED passed
         ELSE since' = 0 /\ passed' = [b \in Bucket |-> 0]
    /\ UNCHANGED <<limiters, got>>

\* History: an observation may begin at any moment.
Observe ==
    /\ since' = 0
    /\ passed' = [b \in Bucket |-> 0]
    /\ UNCHANGED <<limiters, credit, idle, got>>

Next ==
    \/ \E r \in Request :
         \/ \E b \in Bucket : GetLimiter(r, b)
         \/ Allow(r)
         \/ Refuse(r)
    \/ Cleanup
    \/ Elapse
    \/ Observe

Spec == Init /\ [][Next]_limitVars

-----------------------------------------------------------------------------
TypeOK ==
    /\ limiters \subseteq Bucket
    /\ credit \in [Bucket -> Nat]
    /\ \A b \in Bucket : credit[b] <= Full(b)
    /\ idle \in [Bucket -> 0..(Idle + 1)]
    /\ got \in [Request -> Bucket \cup {NoBucket}]
    /\ since \in 0..Window
    /\ passed \in [Bucket -> Nat]

\* What a key gets in a stretch of time, whatever is dropped from the map
\* meanwhile (lines 40-67): its burst and what the stretch earns.  The comments
\* ("10 requests per 15 minutes", line 99) and docs/design.md 133-136 promise
\* the burst alone for the nominal period; a quiet key gets twice that.
RateBound ==
    \A b \in Bucket : passed[b] * Period[b] <= Full(b) + since

\* A dropped entry is as good as a full one: the map that forgets implements
\* the buckets that are never forgotten (getLimiter, cleanup).
Held(b) == IF b \in limiters THEN credit[b] ELSE Full(b)
Buckets == INSTANCE TokenBuckets
             WITH Bucket <- Bucket, Burst <- Burst, Period <- Period,
                  credit <- [b \in Bucket |-> Held(b)]
ImplementsBuckets == Buckets!Spec
=============================================================================
