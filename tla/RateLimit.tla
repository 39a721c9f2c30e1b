----------------------------- MODULE RateLimit ------------------------------
(***************************************************************************)
(* The sliding-window limiters of cayz_agent/middleware.py: the one        *)
(* APIKeyAuthMiddleware keeps of requests with a bad key, by IP address,   *)
(* and, behind it, the read and write buckets of RateLimitMiddleware, by   *)
(* client id.                                                              *)
(*                                                                         *)
(* Each of the two runs under its own lock and without an await from the   *)
(* reading of the clock to the append, so a verdict is one step.  Requests *)
(* that are not metered (public paths, rate_limit_per_minute <= 0) change  *)
(* nothing here and are stuttering steps.  The wall clock never goes back. *)
(***************************************************************************)
EXTENDS Integers, Sequences, FiniteSets

CONSTANTS
  Client,         \* client ids, of requests with a good key
  Address,        \* IP addresses, of requests with a bad one
  Second,         \* clock ticks in a second
  Window,         \* ticks in the window, 60 seconds in the code
  SweepInterval,  \* _SWEEP_INTERVAL, in ticks
  FailLimit,      \* _ANON_FAIL_LIMIT
  Limit,          \* rate_limit_per_minute, metered: > 0
  WriteLimit,     \* rate_limit_write_per_minute, 0: no write bucket
  MaxClock        \* bound: the last instant of the model

ASSUME RateLimitAssumption ==
  /\ Client \cap Address = {}
  /\ Second \in Nat \ {0}
  /\ Window \in Nat
  /\ SweepInterval \in Nat
  /\ FailLimit \in Nat \ {0}
  /\ Limit \in Nat \ {0}
  /\ WriteLimit \in Nat
  /\ MaxClock \in Nat

VARIABLES
  hits,       \* hits[b][c]: the deque of c; <<>> also when c is no key of bucket b
  lastSweep,  \* lastSweep[m]: _last_sweep of middleware m
  clock,      \* time.time()
  log         \* history: log[b][c], when bucket b let a request of c through

vars == <<hits, lastSweep, clock, log>>
-----------------------------------------------------------------------------
Bucket == {"fail", "read", "write"}
Middleware == {"auth", "rate"}

\* A request with a bad key; any other one; one of _WRITE_PATHS or a DELETE
\* under /knowledge/; DELETE /sessions/{id}.
Operation == {"badkey", "read", "knowledge", "session"}

\* Who may be a key of a bucket.
Key == Client \cup Address

\* A request names its caller as its bucket does.
Caller(op) == IF op = "badkey" THEN Address ELSE Client

MiddlewareOf(b) == IF b = "fail" THEN "auth" ELSE "rate"

BucketOf(op) ==
  CASE op = "badkey" -> "fail"
    [] op = "knowledge" /\ WriteLimit > 0 -> "write"
    [] OTHER -> "read"

LimitOf(b) ==
  CASE b = "fail" -> FailLimit
    [] b = "read" -> Limit
    [] b = "write" -> IF WriteLimit < Limit THEN WriteLimit ELSE Limit

Init ==
  /\ hits = [b \in Bucket |-> [c \in Key |-> <<>>]]
  /\ lastSweep = [m \in Middleware |-> 0]
  /\ clock = 0
  /\ log = [b \in Bucket |-> [c \in Key |-> <<>>]]
-----------------------------------------------------------------------------
\* hits[0] < window_start, the other way round.
InWindow(at) == clock <= at + Window

\* How many hits the popleft loop drops: those before the first in the window.
Dropped(q) ==
  LET Stop == {k \in 0 .. Len(q) : k = Len(q) \/ InWindow(q[k + 1])}
  IN  CHOOSE k \in Stop : \A j \in Stop : k <= j

Fresh(q) == SubSeq(q, Dropped(q) + 1, Len(q))

SweepIsDue(m) == clock - lastSweep[m] > SweepInterval

\* dq[-1] < window_start.
Idle(q) == Len(q) > 0 /\ ~InWindow(q[Len(q)])

Mut_SweepByOldest(b, c) ==
  LET q == hits[b][c]
  IN  IF SweepIsDue(MiddlewareOf(b)) /\ Len(q) > 0 /\ ~InWindow(q[1])
      THEN <<>> ELSE q

Mut_NeverSwept(b, c) == hits[b][c]

\* The deque once a due sweep has removed the idle keys of its middleware.
Kept(b, c) ==
  IF SweepIsDue(MiddlewareOf(b)) /\ Idle(hits[b][c]) THEN <<>> ELSE hits[b][c]

\* hits after middleware m has swept, and bucket b's deque of c has become q.
Count(m, b, c, q) ==
  /\ hits' = [a \in Bucket |-> [d \in Key |->
                IF a = b /\ d = c THEN q
                ELSE IF MiddlewareOf(a) = m THEN Kept(a, d) ELSE hits[a][d]]]
  /\ lastSweep' = [lastSweep EXCEPT ![m] = IF SweepIsDue(m) THEN clock ELSE @]

Mut_AdmitAtLimit(op, c) ==
  LET b == BucketOf(op)
      q == Fresh(Kept(b, c))
  IN  /\ Len(q) <= LimitOf(b)
      /\ Count(MiddlewareOf(b), b, c, Append(q, clock))
      /\ log' = [log EXCEPT ![b][c] = Append(@, clock)]
      /\ UNCHANGED clock

Mut_AppendsWindowStart(op, c) ==
  LET b == BucketOf(op)
      q == Fresh(Kept(b, c))
  IN  /\ Len(q) < LimitOf(b)
      /\ Count(MiddlewareOf(b), b, c, Append(q, clock - Window))
      /\ log' = [log EXCEPT ![b][c] = Append(@, clock)]
      /\ UNCHANGED clock

\* The request is counted and goes on: to the endpoint, or to its 401.
Admit(op, c) ==
  LET b == BucketOf(op)
      q == Fresh(Kept(b, c))
  IN  /\ Len(q) < LimitOf(b)
      /\ Count(MiddlewareOf(b), b, c, Append(q, clock))
      /\ log' = [log EXCEPT ![b][c] = Append(@, clock)]
      /\ UNCHANGED clock

\* 429: the request is not counted.
Refuse(op, c) ==
  LET b == BucketOf(op)
      q == Fresh(Kept(b, c))
  IN  /\ Len(q) >= LimitOf(b)
      /\ Count(MiddlewareOf(b), b, c, q)
      /\ UNCHANGED <<clock, log>>

Mut_RetryAfterFromNewest(q) ==
  LET wait == (Window - (clock - q[Len(q)])) \div Second
  IN  IF wait > 1 THEN wait ELSE 1

\* The Retry-After header of that 429: the oldest hit's remaining whole seconds.
RetryAfter(q) ==
  LET wait == (Window - (clock - q[1])) \div Second
  IN  IF wait > 1 THEN wait ELSE 1

Tick ==
  /\ clock < MaxClock
  /\ clock' = clock + 1
  /\ UNCHANGED <<hits, lastSweep, log>>

Next ==
  \/ \E op \in Operation : \E c \in Caller(op) : Admit(op, c) \/ Refuse(op, c)
  \/ Tick

Spec == Init /\ [][Next]_vars
-----------------------------------------------------------------------------
\* Properties.

\* The deques, logs and sweep times keep the kind of value the code gives them.
TypeOK ==
  /\ hits \in [Bucket -> [Key -> Seq(Nat)]]
  /\ log \in [Bucket -> [Key -> Seq(Nat)]]
  /\ lastSweep \in [Middleware -> Nat]
  /\ clock \in Nat

\* No bucket lets more than its limit of one client's requests through in any
\* window of 60 seconds, whenever keys are swept and however requests to the
\* other buckets fall between.
WindowBound ==
  \A b \in Bucket, c \in Key :
    \A i, j \in DOMAIN log[b][c] :
      j = i + LimitOf(b) => log[b][c][i] + Window < log[b][c][j]

\* What the next verdict goes by is exactly what was let through in the window:
\* popping, sweeping and refusing forget no request and keep no stale one.
CountsTheWindow ==
  \A b \in Bucket, c \in Key :
    Len(Fresh(Kept(b, c))) =
      Cardinality({i \in DOMAIN log[b][c] : InWindow(log[b][c][i])})

\* A client that was idle for a window when its middleware last swept is no key
\* of its buckets any more: they do not grow with every client ever seen.
IdleKeysAreSwept ==
  \A b \in Bucket, c \in Key :
    hits[b][c] # <<>> =>
      lastSweep[MiddlewareOf(b)] <= hits[b][c][Len(hits[b][c])] + Window

\* A client refused with Retry-After: n finds its bucket with room n + 1 seconds
\* later, and the header never asks for a whole second more than that takes.
RetryAfterIsClose ==
  \A b \in {"read", "write"}, c \in Client :
    LET q == Fresh(Kept(b, c))
        n == RetryAfter(q)
    IN  Len(q) > 0 /\ Len(q) >= LimitOf(b) =>
          /\ q[1] + Window < clock + (n + 1) * Second
          /\ n > 1 => clock + n * Second <= q[1] + Window
=============================================================================
