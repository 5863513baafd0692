----------------------------- MODULE RateLimit -----------------------------
(***************************************************************************)
(* The per-token request limiter: two fixed-window Redis counters, one per *)
(* minute and one per hour, in keys named after the aligned window of the  *)
(* time the request read.  Requests of one token run concurrently; a store *)
(* error lets the request through.  Redis drops a key when its TTL ends.   *)
(***************************************************************************)
EXTENDS Integers, FiniteSets, FiniteSetsExt

CONSTANTS
    Calls,                \* requests of one token that reach the limiter
    Minute, Hour,         \* ticks in a window
    RequestsPerMinute, RequestsPerHour,
    MaxWall,              \* bound on time
    MaxFaults             \* bound on store errors

\* The two windows have different keys, and effectiveLimits lets no limit be zero.
ASSUME WindowAssumption ==
    /\ Minute \in Nat \ {0} /\ Hour \in Nat \ {0} /\ MaxWall \in Nat /\ MaxFaults \in Nat
    /\ RequestsPerMinute \in Nat \ {0} /\ RequestsPerHour \in Nat \ {0}
    /\ Minute < Hour /\ Hour % Minute = 0

VARIABLES
    wall,         \* the limiter's clock
    counters,     \* live Redis keys: <<window, bucket>> -> [count, created, expires]
    stage,        \* where each call's Allow stands
    seen          \* the time read, the counters' keys and values, Retry-After

limitVars == <<wall, counters, stage, seen>>

NoCount == [count |-> 0, created |-> -1]
NoTickets == [now |-> 0, minute |-> NoCount, hour |-> NoCount, retryAfter |-> 0]
Reset(now, window) == (now \div window + 1) * window
Key(now, window) == <<window, now \div window>>

LimitTypeOK ==
    /\ wall \in 0..MaxWall
    /\ \A k \in DOMAIN counters :
          /\ counters[k].count \in 1..Cardinality(Calls)
          /\ counters[k].expires = counters[k].created + k[1]
    /\ stage \in [Calls -> {"start", "minute", "hour", "allowed", "denied", "failed_open"}]
    /\ \A r \in Calls : seen[r].now \in 0..wall /\ seen[r].retryAfter \in 0..Hour

LimitInit ==
    /\ wall = 0
    /\ counters = <<>>
    /\ stage = [r \in Calls |-> "start"]
    /\ seen = [r \in Calls |-> NoTickets]

LimitTick ==
    /\ wall < MaxWall
    /\ wall' = wall + 1
    /\ counters' = [k \in {j \in DOMAIN counters : counters[j].expires > wall + 1} |-> counters[k]]
    /\ UNCHANGED <<stage, seen>>

\* The script: INCR, and PEXPIRE when it created the key.
Increment(k) ==
    IF k \in DOMAIN counters THEN [counters EXCEPT ![k].count = @ + 1]
    ELSE [j \in DOMAIN counters \cup {k} |->
             IF j = k THEN [count |-> 1, created |-> wall, expires |-> wall + k[1]] ELSE counters[j]]

\* Mutation: the counter is read before the window is incremented.
CountBefore(k) ==
    [count |-> IF k \in DOMAIN counters THEN counters[k].count ELSE 0, created |-> Increment(k)[k].created]

CountAfter(k) == [count |-> Increment(k)[k].count, created |-> Increment(k)[k].created]

Advance(r, s) == stage' = [stage EXCEPT ![r] = s]

\* The error comes before the script ran or after it.
StoreError(r, k) ==
    /\ Cardinality({q \in Calls : stage[q] = "failed_open"}) < MaxFaults
    /\ Advance(r, "failed_open")
    /\ counters' \in {counters, Increment(k)}
    /\ UNCHANGED seen

Allow(r) ==
    /\ stage[r] = "start"
    /\ seen' = [seen EXCEPT ![r].now = wall]
    /\ Advance(r, "minute")
    /\ UNCHANGED <<wall, counters>>

IncrementMinute(r) ==
    /\ stage[r] = "minute"
    /\ LET k == Key(seen[r].now, Minute) IN
          \/ StoreError(r, k)
          \/ /\ counters' = Increment(k)
             /\ seen' = [seen EXCEPT ![r].minute = CountAfter(k)]
             /\ Advance(r, "hour")
    /\ UNCHANGED wall

\* Mutation: Retry-After is the minute's reset whichever window is exceeded.
IncrementHourMinuteReset(r) ==
    /\ stage[r] = "hour"
    /\ LET k == Key(seen[r].now, Hour)
           over == \/ seen[r].minute.count > RequestsPerMinute
                   \/ CountAfter(k).count > RequestsPerHour
       IN  \/ StoreError(r, k)
           \/ /\ counters' = Increment(k)
              /\ seen' = [seen EXCEPT ![r].hour = CountAfter(k),
                           ![r].retryAfter = IF over THEN Reset(seen[r].now, Minute) - seen[r].now ELSE 0]
              /\ Advance(r, IF over THEN "denied" ELSE "allowed")
    /\ UNCHANGED wall

\* Both windows must pass.  Retry-After is the hour's reset when the hour is
\* exceeded, the minute's otherwise, and at least one.
IncrementHour(r) ==
    /\ stage[r] = "hour"
    /\ LET k == Key(seen[r].now, Hour)
           overMinute == seen[r].minute.count > RequestsPerMinute
           overHour == CountAfter(k).count > RequestsPerHour
           reset == Reset(seen[r].now, IF overHour THEN Hour ELSE Minute)
       IN  \/ StoreError(r, k)
           \/ /\ counters' = Increment(k)
              /\ seen' = [seen EXCEPT ![r].hour = CountAfter(k),
                           ![r].retryAfter = IF overMinute \/ overHour
                                             THEN Max({1, reset - seen[r].now}) ELSE 0]
              /\ Advance(r, IF overMinute \/ overHour THEN "denied" ELSE "allowed")
    /\ UNCHANGED wall

LimitNext == LimitTick \/ \E r \in Calls : Allow(r) \/ IncrementMinute(r) \/ IncrementHour(r)

LimitSpec == LimitInit /\ [][LimitNext]_limitVars

-----------------------------------------------------------------------------
(* Properties *)

\* Of the requests counted by one key, from its creation to its expiry, no
\* more than the limit pass, however their increments of the two windows
\* interleave; a request let through by a store error is not counted.
WindowHeld ==
    \A r \in Calls : stage[r] = "allowed" =>
        /\ Cardinality({q \in Calls : /\ stage[q] = "allowed"
                                      /\ Key(seen[q].now, Minute) = Key(seen[r].now, Minute)
                                      /\ seen[q].minute.created = seen[r].minute.created})
              <= RequestsPerMinute
        /\ Cardinality({q \in Calls : /\ stage[q] = "allowed"
                                      /\ Key(seen[q].now, Hour) = Key(seen[r].now, Hour)
                                      /\ seen[q].hour.created = seen[r].hour.created})
              <= RequestsPerHour

\* What Retry-After promises: a caller alone on its token that comes back when
\* it says is let in.  The one exception: a minute's denial counts against the
\* hour too, and may be followed by a denial of the hour it helped to fill.
RetryAfterClears ==
    \A r, q \in Calls :
        /\ stage[r] = "denied" /\ stage[q] \in {"allowed", "denied"}
        /\ seen[q].now = seen[r].now + seen[r].retryAfter
        /\ \A o \in Calls \ {q} : stage[o] \in {"start", "allowed", "denied"} /\ seen[o].now <= seen[r].now
        => \/ stage[q] = "allowed"
           \/ seen[r].hour.count <= RequestsPerHour /\ seen[q].hour.count > RequestsPerHour
=============================================================================
