----------------------------- MODULE RateLimits -----------------------------
(***************************************************************************)
(* The fixed-window rate limiter of one caller key (api/limits.py): per     *)
(* instance under a lock, or shared in Redis when REDIS_URL is set.  A       *)
(* request reads its clock before it takes the lock, so a late request may  *)
(* carry an older time than the window it is counted in.                    *)
(***************************************************************************)
EXTENDS Naturals, FiniteSets, FiniteSetsExt

CONSTANTS
  Requests,       \* requests of the one key, numbered as they arrive
  InstanceOf,     \* [Requests -> instance that serves it]
  Limit,          \* rate_limit_per_minute, > 0: 0 disables the limiter
  Window,         \* _WINDOW_SECONDS
  Horizon         \* bound: the last instant of the clock

ASSUME LimitsAssumption ==
  /\ Requests \subseteq Nat /\ IsFiniteSet(Requests)
  /\ Limit \in Nat \ {0} /\ Window \in Nat \ {0} /\ Horizon \in Nat

VARIABLES
  clock,
  backend,        \* "local" or "redis", fixed by the configuration
  windows,        \* per instance: start and count of its window; count 0 when there is none
  redis,          \* the shared counter and the instant it expires
  requests,       \* per request: what it has done
  late            \* history: the clock moved between a reading and its lock

limitVars == <<clock, backend, windows, redis, requests, late>>

Instances == {InstanceOf[r] : r \in Requests}
Later(t) == t > clock

LimitInit ==
  /\ clock = 0
  /\ backend \in {"local", "redis"}
  /\ windows = [i \in Instances |-> [start |-> 0, count |-> 0]]
  /\ redis = [count |-> 0, expires |-> 0]
  /\ requests = [r \in Requests |-> [state |-> "new", at |-> 0]]
  /\ late = FALSE

LimitTick ==
  /\ clock < Horizon
  /\ clock' = clock + 1
  /\ UNCHANGED <<backend, windows, redis, requests, late>>

\* time.monotonic() is read before the lock is taken.
Arrive(r) ==
  /\ requests[r].state = "new"
  /\ \A q \in Requests : q < r => requests[q].state # "new"
  /\ requests' = [requests EXCEPT ![r] = [state |-> "arrived", at |-> clock]]
  /\ UNCHANGED <<clock, backend, windows, redis, late>>

Answer(r, count) ==
  requests' = [requests EXCEPT ![r].state = IF count > Limit THEN "rejected" ELSE "admitted"]

\* Mutant: the window in the wrong unit.
ElapsedTooSoon(at, start) == at > start
Elapsed(at, start) == at >= start + Window

\* A rejected request counts too.
Counted(w, at) ==
  IF w.count = 0 \/ Elapsed(at, w.start)
  THEN [start |-> at, count |-> 1]
  ELSE [w EXCEPT !.count = @ + 1]

CheckLocal(r) ==
  LET i == InstanceOf[r]
      w == Counted(windows[i], requests[r].at)
  IN /\ backend = "local" /\ requests[r].state = "arrived"
     /\ windows' = [windows EXCEPT ![i] = w]
     /\ Answer(r, w.count)
     /\ late' = (late \/ requests[r].at < clock)
     /\ UNCHANGED <<clock, backend, redis>>

\* INCR, EXPIRE NX and TTL in one transaction: the first hit sets the expiry.
CheckRedis(r) ==
  LET live == redis.count > 0 /\ Later(redis.expires)
      next == IF live THEN [redis EXCEPT !.count = @ + 1]
              ELSE [count |-> 1, expires |-> clock + Window]
  IN /\ backend = "redis" /\ requests[r].state = "arrived"
     /\ redis' = next
     /\ requests' = [requests EXCEPT ![r] =
          [state |-> IF next.count > Limit THEN "rejected" ELSE "admitted", at |-> clock]]
     /\ UNCHANGED <<clock, backend, windows, late>>

\* Fail-open: any Redis error admits the request, uncounted.
RedisFault(r) ==
  /\ backend = "redis" /\ requests[r].state = "arrived"
  /\ requests' = [requests EXCEPT ![r].state = "waved through"]
  /\ UNCHANGED <<clock, backend, windows, redis, late>>

LimitNext ==
  \/ LimitTick
  \/ \E r \in Requests : Arrive(r) \/ CheckLocal(r) \/ CheckRedis(r) \/ RedisFault(r)

LimitSpec == LimitInit /\ [][LimitNext]_limitVars

LimitTypeOK ==
  /\ clock \in 0..Horizon
  /\ backend \in {"local", "redis"}
  /\ windows \in [Instances -> [start : Nat, count : Nat]]
  /\ redis \in [count : Nat, expires : Nat]
  /\ requests \in [Requests -> [state : {"new", "arrived", "admitted", "rejected", "waved through"},
                               at : Nat]]
  /\ late \in BOOLEAN

Admitted(rs) == {r \in rs : requests[r].state = "admitted"}
Within(rs, t) == {r \in Admitted(rs) : requests[r].at \in t..(t + Window - 1)}

\* What shares one counter: the requests of an instance, or all with Redis.
Counters == IF backend = "redis" THEN {Requests}
            ELSE {{r \in Requests : InstanceOf[r] = i} : i \in Instances}

\* A window opens with a hit, so a stretch of Window instants admits at most
\* 2 * Limit - 1 requests of a counter, not 2 * Limit.  A request that is held
\* up between its clock reading and the lock breaks this, not the rate in the
\* long run: Limit for each window begun (api/limits.py:76, :80, :101).
WindowAdmits ==
  \A rs \in Counters :
    /\ ~late => \A t \in 0..Horizon : Cardinality(Within(rs, t)) < 2 * Limit
    /\ \E k \in 0..clock : Window * k <= clock /\ Cardinality(Admitted(rs)) <= Limit * (k + 1)
=============================================================================
