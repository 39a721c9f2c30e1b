-------------------------- MODULE RateLimitProofs ---------------------------
(***************************************************************************)
(* Proofs about module RateLimit, for every set of clients and addresses,  *)
(* every window, sweep interval and limit.                                 *)
(***************************************************************************)
EXTENDS RateLimit, TLAPS, FiniteSetTheorems, SequenceTheorems, WellFoundedInduction

\* q is what is left of the log l once some of its oldest entries, all of them
\* out of the window, are gone.
Tracks(q, l) ==
  \E d \in 0 .. Len(l) :
    /\ Len(q) = Len(l) - d
    /\ \A i \in 1 .. Len(q) : q[i] = l[i + d]
    /\ \A i \in 1 .. d : ~InWindow(l[i])

\* l is in the order of time, and of the past.
Ordered(l) ==
  /\ \A i, j \in 1 .. Len(l) : i <= j => l[i] <= l[j]
  /\ \A i \in 1 .. Len(l) : l[i] <= clock

\* No more than n entries of l are in any one window.
Spaced(l, n) ==
  \A i, j \in DOMAIN l : j = i + n => l[i] + Window < l[j]

\* The newest entry of q was in the window when m last swept.
SweptTo(q, m) == q # <<>> => lastSweep[m] <= q[Len(q)] + Window

\* The inductive invariant.
IInv ==
  /\ TypeOK
  /\ \A b \in Bucket, c \in Key :
       /\ Tracks(hits[b][c], log[b][c])
       /\ Ordered(log[b][c])
       /\ Spaced(log[b][c], LimitOf(b))
       /\ SweptTo(hits[b][c], MiddlewareOf(b))
  /\ \A m \in Middleware : lastSweep[m] <= clock
-----------------------------------------------------------------------------
(* One deque and its log.                                                  *)

\* A set of numbers that is not empty has a least one.
LEMMA LeastNumber ==
  ASSUME NEW S \in SUBSET Nat, S # {}
  PROVE  \E k \in S : \A j \in S : k <= j
<1> DEFINE R == OpToRel(<, Nat)
<1>1. ASSUME NEW a \in Nat, NEW b \in Nat, a < b
      PROVE  <<a, b>> \in R
  BY <1>1 DEF OpToRel
<1>2. IsWellFoundedOn(R, Nat)
  BY NatLessThanWellFounded
<1> HIDE DEF R
<1>3. PICK k \in S : \A j \in S : ~ (<<j, k>> \in R)
  BY <1>2, WFMin
<1>4. ASSUME NEW j \in S
      PROVE  k <= j
  <2>1. j \in Nat /\ k \in Nat
    OBVIOUS
  <2>2. ~ (j < k)
    BY <1>1, <1>3, <2>1
  <2> QED  BY <2>1, <2>2
<1> QED  BY <1>4

\* The popleft loop drops what is out of the window and stops at the first hit
\* that is in it.
LEMMA DroppedStops ==
  ASSUME NEW q \in Seq(Nat)
  PROVE  /\ Dropped(q) \in 0 .. Len(q)
         /\ \A i \in 1 .. Dropped(q) : ~InWindow(q[i])
         /\ Dropped(q) < Len(q) => InWindow(q[Dropped(q) + 1])
<1> DEFINE Stop == {k \in 0 .. Len(q) : k = Len(q) \/ InWindow(q[k + 1])}
<1>1. Len(q) \in Nat
  OBVIOUS
<1>2. Len(q) \in Stop /\ Stop \in SUBSET Nat
  BY <1>1
<1>3. \E k \in Stop : \A j \in Stop : k <= j
  BY <1>2, LeastNumber
<1>4. Dropped(q) \in Stop /\ \A j \in Stop : Dropped(q) <= j
  BY <1>3 DEF Dropped
<1>5. Dropped(q) \in 0 .. Len(q)
  BY <1>4
<1>6. ASSUME NEW i \in 1 .. Dropped(q), InWindow(q[i])
      PROVE  FALSE
  <2>1. i - 1 \in 0 .. Len(q) /\ (i - 1) + 1 = i /\ ~ (Dropped(q) <= i - 1)
    BY <1>1, <1>5
  <2>2. i - 1 \in Stop
    BY <1>6, <2>1
  <2> HIDE DEF Stop
  <2> QED  BY <1>4, <2>1, <2>2
<1> QED  BY <1>1, <1>4, <1>5, <1>6

\* What is left of a sequence without its first d elements.
LEMMA SuffixFrom ==
  ASSUME NEW q \in Seq(Nat), NEW d \in 0 .. Len(q)
  PROVE  /\ SubSeq(q, d + 1, Len(q)) \in Seq(Nat)
         /\ Len(SubSeq(q, d + 1, Len(q))) = Len(q) - d
         /\ \A i \in 1 .. Len(q) - d : SubSeq(q, d + 1, Len(q))[i] = q[i + d]
<1>1. SubSeq(q, d + 1, Len(q)) \in Seq(Nat)
  OBVIOUS
<1>2. Len(SubSeq(q, d + 1, Len(q))) = Len(q) - d
  OBVIOUS
<1>3. ASSUME NEW i \in 1 .. Len(q) - d
      PROVE  SubSeq(q, d + 1, Len(q))[i] = q[i + d]
  OBVIOUS
<1> QED  BY <1>1, <1>2, <1>3

\* What is left of a deque.
LEMMA FreshIsSuffix ==
  ASSUME NEW q \in Seq(Nat)
  PROVE  /\ Fresh(q) \in Seq(Nat)
         /\ Len(Fresh(q)) = Len(q) - Dropped(q)
         /\ \A i \in 1 .. Len(q) - Dropped(q) : Fresh(q)[i] = q[i + Dropped(q)]
<1>1. Dropped(q) \in 0 .. Len(q)
  BY DroppedStops
<1> QED  BY <1>1, SuffixFrom DEF Fresh

\* Popping loses nothing of the window.
LEMMA TracksFresh ==
  ASSUME NEW q \in Seq(Nat), NEW l \in Seq(Nat), Tracks(q, l)
  PROVE  Tracks(Fresh(q), l)
<1>1. PICK d \in 0 .. Len(l) :
        /\ Len(q) = Len(l) - d
        /\ \A i \in 1 .. Len(q) : q[i] = l[i + d]
        /\ \A i \in 1 .. d : ~InWindow(l[i])
  BY DEF Tracks
<1>2. PICK n \in 0 .. Len(q) :
        /\ Len(Fresh(q)) = Len(q) - n
        /\ \A i \in 1 .. Len(q) - n : Fresh(q)[i] = q[i + n]
        /\ \A i \in 1 .. n : ~InWindow(q[i])
  BY DroppedStops, FreshIsSuffix
<1> DEFINE e == d + n
<1>3. Len(q) \in Nat /\ Len(l) \in Nat
  OBVIOUS
<1>4. e \in 0 .. Len(l) /\ Len(Fresh(q)) = Len(l) - e
  BY <1>1, <1>2, <1>3
<1>5. ASSUME NEW i \in 1 .. Len(Fresh(q))
      PROVE  Fresh(q)[i] = l[i + e]
  <2>1. i + n \in 1 .. Len(q) /\ (i + n) + d = i + e /\ i \in 1 .. Len(q) - n
    BY <1>1, <1>2, <1>3
  <2> QED  BY <1>1, <1>2, <2>1
<1>6. ASSUME NEW i \in 1 .. e
      PROVE  ~InWindow(l[i])
  <2>1. CASE i <= d
    BY <1>1, <2>1
  <2>2. CASE i > d
    <3>1. i - d \in 1 .. n /\ (i - d) + d = i /\ i - d \in 1 .. Len(q)
      BY <1>1, <1>2, <1>3, <2>2
    <3>2. q[i - d] = l[(i - d) + d] /\ ~InWindow(q[i - d])
      BY <1>1, <1>2, <3>1
    <3> QED  BY <3>1, <3>2
  <2> QED  BY <1>1, <1>2, <2>1, <2>2
<1> HIDE DEF e
<1> QED  BY <1>4, <1>5, <1>6 DEF Tracks

\* A key whose newest hit is out of the window has nothing to lose.
LEMMA TracksIdle ==
  ASSUME TypeOK, NEW q \in Seq(Nat), NEW l \in Seq(Nat), Tracks(q, l), Ordered(l), Idle(q)
  PROVE  Tracks(<<>>, l)
<1>1. PICK d \in 0 .. Len(l) :
        /\ Len(q) = Len(l) - d
        /\ \A i \in 1 .. Len(q) : q[i] = l[i + d]
  BY DEF Tracks
<1>2. l[Len(l)] = q[Len(q)] /\ Len(l) \in 1 .. Len(l) /\ Len(l) \in Nat
  <2>1. Len(q) \in Nat /\ Len(l) \in Nat /\ Len(q) > 0
    BY DEF Idle
  <2>2. Len(q) \in 1 .. Len(q) /\ Len(q) + d = Len(l) /\ Len(l) \in 1 .. Len(l)
    BY <1>1, <2>1
  <2> QED  BY <1>1, <2>1, <2>2
<1>3. ~InWindow(l[Len(l)])
  BY <1>2 DEF Idle
<1>4. ASSUME NEW i \in 1 .. Len(l)
      PROVE  ~InWindow(l[i])
  <2>1. l[i] <= l[Len(l)] /\ l[i] \in Nat /\ l[Len(l)] \in Nat
    BY <1>2 DEF Ordered
  <2> QED  BY <1>3, <2>1, RateLimitAssumption DEF InWindow, TypeOK
<1>5. Len(<<>>) = Len(l) - Len(l) /\ Len(l) \in 0 .. Len(l)
  BY <1>2
<1>6. \A i \in 1 .. Len(<<>>) : FALSE
  OBVIOUS
<1> QED  BY <1>4, <1>5, <1>6 DEF Tracks

\* A request that is counted is in the deque and in the log.
LEMMA TracksAppend ==
  ASSUME NEW q \in Seq(Nat), NEW l \in Seq(Nat), NEW t \in Nat, Tracks(q, l)
  PROVE  Tracks(Append(q, t), Append(l, t))
<1>1. PICK d \in 0 .. Len(l) :
        /\ Len(q) = Len(l) - d
        /\ \A i \in 1 .. Len(q) : q[i] = l[i + d]
        /\ \A i \in 1 .. d : ~InWindow(l[i])
  BY DEF Tracks
<1>2. /\ Len(Append(q, t)) = Len(q) + 1 /\ Len(Append(l, t)) = Len(l) + 1
      /\ Len(q) \in Nat /\ Len(l) \in Nat
  OBVIOUS
<1>3. ASSUME NEW i \in 1 .. Len(Append(q, t))
      PROVE  Append(q, t)[i] = Append(l, t)[i + d]
  <2>1. CASE i = Len(q) + 1
    <3>1. i + d = Len(l) + 1
      BY <1>1, <1>2, <2>1
    <3> QED  BY <2>1, <3>1
  <2>2. CASE i # Len(q) + 1
    <3>1. i \in 1 .. Len(q) /\ i + d \in 1 .. Len(l)
      BY <1>1, <1>2, <2>2
    <3>2. q[i] = l[i + d]
      BY <1>1, <3>1
    <3> QED  BY <3>1, <3>2
  <2> QED  BY <2>1, <2>2
<1>4. \A i \in 1 .. d : ~InWindow(Append(l, t)[i])
  BY <1>1, <1>2
<1>5. d \in 0 .. Len(Append(l, t)) /\ Len(Append(q, t)) = Len(Append(l, t)) - d
  BY <1>1, <1>2
<1> QED  BY <1>3, <1>4, <1>5 DEF Tracks

\* The log stays in order, and a request let through while fewer than n of the
\* log are tracked leaves no window with more than n.
LEMMA SpacedAppend ==
  ASSUME TypeOK, NEW q \in Seq(Nat), NEW l \in Seq(Nat), NEW n \in Nat,
         Tracks(q, l), Ordered(l), Spaced(l, n), Len(q) < n
  PROVE  Ordered(Append(l, clock)) /\ Spaced(Append(l, clock), n)
<1> DEFINE k == Append(l, clock)
<1>1. PICK d \in 0 .. Len(l) :
        /\ Len(q) = Len(l) - d
        /\ \A i \in 1 .. d : ~InWindow(l[i])
  BY DEF Tracks
<1>2. /\ clock \in Nat /\ Len(q) \in Nat /\ Len(l) \in Nat /\ Len(k) = Len(l) + 1
      /\ k[Len(l) + 1] = clock /\ \A i \in 1 .. Len(l) : k[i] = l[i] /\ l[i] \in Nat
      /\ DOMAIN k = 1 .. Len(l) + 1 /\ DOMAIN l = 1 .. Len(l)
  BY DEF TypeOK
<1> HIDE DEF k
<1>3. Ordered(k)
  <2>1. ASSUME NEW i \in 1 .. Len(k)
        PROVE  k[i] <= clock
    <3>1. CASE i \in 1 .. Len(l)
      BY <1>2, <3>1 DEF Ordered
    <3>2. CASE i = Len(l) + 1
      BY <1>2, <3>2
    <3> QED  BY <1>2, <3>1, <3>2
  <2>2. ASSUME NEW i \in 1 .. Len(k), NEW j \in 1 .. Len(k), i <= j
        PROVE  k[i] <= k[j]
    <3>1. CASE j = Len(l) + 1
      BY <1>2, <2>1, <3>1
    <3>2. CASE j # Len(l) + 1
      <4>1. i \in 1 .. Len(l) /\ j \in 1 .. Len(l)
        BY <1>2, <2>2, <3>2
      <4> QED  BY <1>2, <2>2, <4>1 DEF Ordered
    <3> QED  BY <3>1, <3>2
  <2> QED  BY <2>1, <2>2 DEF Ordered
<1>4. ASSUME NEW i \in 1 .. Len(l) + 1, NEW j \in 1 .. Len(l) + 1, j = i + n
      PROVE  k[i] + Window < k[j]
  <2>1. CASE j <= Len(l)
    <3>1. i \in DOMAIN l /\ j \in DOMAIN l
      BY <1>2, <1>4, <2>1
    <3> QED  BY <1>2, <1>4, <3>1 DEF Spaced
  <2>2. CASE j = Len(l) + 1
    <3>1. i \in 1 .. d
      BY <1>1, <1>2, <1>4, <2>2
    <3>2. ~InWindow(l[i]) /\ k[i] = l[i] /\ l[i] \in Nat /\ k[j] = clock
      BY <1>1, <1>2, <2>2, <3>1
    <3> QED  BY <1>2, <3>2, RateLimitAssumption DEF InWindow
  <2> QED  BY <1>2, <2>1, <2>2
<1> QED  BY <1>2, <1>3, <1>4 DEF Spaced, k
-----------------------------------------------------------------------------
(* Steps.                                                                  *)

\* What IInv says of one bucket and one caller.
Good(b, c) ==
  /\ Tracks(hits[b][c], log[b][c])
  /\ Ordered(log[b][c])
  /\ Spaced(log[b][c], LimitOf(b))
  /\ SweptTo(hits[b][c], MiddlewareOf(b))

\* Every limit is a number and every bucket has a middleware.
LEMMA Limits ==
  ASSUME NEW b \in Bucket
  PROVE  LimitOf(b) \in Nat /\ MiddlewareOf(b) \in Middleware
  BY RateLimitAssumption DEF Bucket, LimitOf, MiddlewareOf, Middleware

\* Every operation is counted in a bucket, under a key.
LEMMA Buckets ==
  ASSUME NEW op \in Operation
  PROVE  BucketOf(op) \in Bucket /\ Caller(op) \subseteq Key
  BY DEF Operation, BucketOf, Bucket, Caller, Key

\* A sweep leaves a deque, and what it stands for, or nothing of an idle key.
LEMMA KeptTracks ==
  ASSUME IInv, NEW b \in Bucket, NEW c \in Key
  PROVE  /\ Kept(b, c) \in Seq(Nat)
         /\ Tracks(Kept(b, c), log[b][c])
         /\ Kept(b, c) # <<>> =>
              /\ Kept(b, c) = hits[b][c]
              /\ SweepIsDue(MiddlewareOf(b)) =>
                   clock <= hits[b][c][Len(hits[b][c])] + Window
<1>1. /\ hits[b][c] \in Seq(Nat) /\ log[b][c] \in Seq(Nat)
      /\ Tracks(hits[b][c], log[b][c]) /\ Ordered(log[b][c])
      /\ TypeOK
  BY DEF IInv, TypeOK
<1>2. CASE SweepIsDue(MiddlewareOf(b)) /\ Idle(hits[b][c])
  <2>1. Kept(b, c) = <<>> /\ <<>> \in Seq(Nat)
    BY <1>2 DEF Kept
  <2> QED  BY <1>1, <1>2, <2>1, TracksIdle
<1>3. CASE ~(SweepIsDue(MiddlewareOf(b)) /\ Idle(hits[b][c]))
  <2>1. Kept(b, c) = hits[b][c]
    BY <1>3 DEF Kept
  <2>2. hits[b][c] # <<>> => Len(hits[b][c]) > 0
    BY <1>1
  <2> QED  BY <1>1, <1>3, <2>1, <2>2 DEF Idle, InWindow
<1> QED  BY <1>2, <1>3

\* The deque a verdict goes by.
LEMMA FreshKept ==
  ASSUME IInv, NEW b \in Bucket, NEW c \in Key
  PROVE  /\ Fresh(Kept(b, c)) \in Seq(Nat)
         /\ Tracks(Fresh(Kept(b, c)), log[b][c])
         /\ LET q == Fresh(Kept(b, c))
            IN  q # <<>> => q[Len(q)] = hits[b][c][Len(hits[b][c])]
                            /\ Kept(b, c) # <<>>
<1>1. log[b][c] \in Seq(Nat)
  BY DEF IInv, TypeOK
<1>2. /\ Kept(b, c) \in Seq(Nat) /\ Tracks(Kept(b, c), log[b][c])
      /\ Kept(b, c) # <<>> => Kept(b, c) = hits[b][c]
  BY KeptTracks
<1>3. ASSUME NEW p \in Seq(Nat), Fresh(p) # <<>>
      PROVE  p # <<>> /\ Fresh(p)[Len(Fresh(p))] = p[Len(p)]
  <2>1. PICK n \in 0 .. Len(p) :
          /\ Fresh(p) \in Seq(Nat) /\ Len(Fresh(p)) = Len(p) - n
          /\ \A i \in 1 .. Len(p) - n : Fresh(p)[i] = p[i + n]
    BY DroppedStops, FreshIsSuffix
  <2>2. Len(Fresh(p)) \in Nat \ {0} /\ Len(p) \in Nat
    BY <1>3, <2>1, EmptySeq
  <2>3. Len(Fresh(p)) \in 1 .. Len(p) - n /\ Len(Fresh(p)) + n = Len(p) /\ Len(p) # 0
    BY <2>1, <2>2
  <2>4. Fresh(p)[Len(Fresh(p))] = p[Len(Fresh(p)) + n]
    BY <2>1, <2>3
  <2> QED  BY <2>3, <2>4
<1>4. Fresh(Kept(b, c)) \in Seq(Nat)
  BY <1>2, FreshIsSuffix
<1>5. Tracks(Fresh(Kept(b, c)), log[b][c])
  BY <1>1, <1>2, TracksFresh
<1> QED  BY <1>2, <1>3, <1>4, <1>5

\* A verdict on one bucket and caller keeps all the others good.
LEMMA CountGood ==
  ASSUME IInv, NEW b \in Bucket, NEW c \in Key, NEW q \in Seq(Nat), NEW k \in Seq(Nat),
         Count(MiddlewareOf(b), b, c, q),
         log' = [log EXCEPT ![b][c] = k], clock' = clock,
         Tracks(q, k), Ordered(k), Spaced(k, LimitOf(b)),
         SweptTo(q, MiddlewareOf(b))'
  PROVE  IInv'
<1> DEFINE m == MiddlewareOf(b)
<1>1. m \in Middleware /\ clock \in Nat
  BY Limits DEF IInv, TypeOK
<1>2. \A a \in Bucket, d \in Key :
        hits'[a][d] = IF a = b /\ d = c THEN q
                      ELSE IF MiddlewareOf(a) = m THEN Kept(a, d) ELSE hits[a][d]
  BY DEF Count
<1>3. \A a \in Bucket, d \in Key :
        log'[a][d] = IF a = b /\ d = c THEN k ELSE log[a][d]
  BY DEF IInv, TypeOK
<1>4. \A n \in Middleware :
        lastSweep'[n] = IF n = m /\ SweepIsDue(m) THEN clock ELSE lastSweep[n]
  BY <1>1 DEF Count, IInv, TypeOK
<1>5. TypeOK'
  <2>1. hits' \in [Bucket -> [Key -> Seq(Nat)]]
    BY KeptTracks DEF Count, IInv, TypeOK
  <2>2. log' \in [Bucket -> [Key -> Seq(Nat)]]
    BY DEF IInv, TypeOK
  <2>3. lastSweep' \in [Middleware -> Nat]
    BY <1>1 DEF Count, IInv, TypeOK
  <2> QED  BY <1>1, <2>1, <2>2, <2>3 DEF TypeOK
<1>6. \A n \in Middleware : lastSweep'[n] <= clock'
  BY <1>1, <1>4 DEF IInv
<1>7. ASSUME NEW a \in Bucket, NEW d \in Key
      PROVE  Good(a, d)'
  <2>1. \A p, l : /\ Tracks(p, l)' <=> Tracks(p, l)
                  /\ Ordered(l)' <=> Ordered(l)
    BY DEF Tracks, Ordered, InWindow
  <2>2. CASE a = b /\ d = c
    BY <1>2, <1>3, <2>1, <2>2 DEF Good
  <2>3. CASE ~(a = b /\ d = c) /\ MiddlewareOf(a) = m
    <3>1. hits'[a][d] = Kept(a, d) /\ log'[a][d] = log[a][d]
      BY <1>2, <1>3, <2>3
    <3>2. Kept(a, d) # <<>> =>
            lastSweep'[m] <= Kept(a, d)[Len(Kept(a, d))] + Window
      <4>1. /\ lastSweep[m] <= clock /\ SweptTo(hits[a][d], m)
            /\ lastSweep'[m] = IF SweepIsDue(m) THEN clock ELSE lastSweep[m]
        BY <1>1, <1>4, <2>3 DEF IInv
      <4>2. Kept(a, d) # <<>> =>
              /\ Kept(a, d) = hits[a][d]
              /\ SweepIsDue(m) => clock <= hits[a][d][Len(hits[a][d])] + Window
        BY <2>3, KeptTracks
      <4> QED  BY <4>1, <4>2 DEF SweptTo
    <3>3. SweptTo(hits[a][d], MiddlewareOf(a))'
      BY <2>3, <3>1, <3>2 DEF SweptTo
    <3>4. Tracks(Kept(a, d), log[a][d]) /\ Ordered(log[a][d])
            /\ Spaced(log[a][d], LimitOf(a))
      BY KeptTracks DEF IInv
    <3> QED  BY <2>1, <3>1, <3>3, <3>4 DEF Good
  <2>4. CASE MiddlewareOf(a) # m
    <3>1. hits'[a][d] = hits[a][d] /\ log'[a][d] = log[a][d]
      BY <1>2, <1>3, <2>4
    <3>2. lastSweep'[MiddlewareOf(a)] = lastSweep[MiddlewareOf(a)]
      BY <1>4, <2>4, Limits
    <3> QED  BY <2>1, <3>1, <3>2 DEF Good, IInv, SweptTo
  <2> QED  BY <2>2, <2>3, <2>4
<1> QED  BY <1>5, <1>6, <1>7 DEF IInv, Good

\* IInv holds of the empty buckets.
LEMMA InitGood == Init => IInv
<1> SUFFICES ASSUME Init PROVE IInv
  OBVIOUS
<1> USE DEF Init
<1>1. TypeOK
  BY DEF TypeOK
<1>2. ASSUME NEW b \in Bucket, NEW c \in Key
      PROVE  Good(b, c)
  <2>1. hits[b][c] = <<>> /\ log[b][c] = <<>>
    OBVIOUS
  <2>2. Tracks(<<>>, <<>>)
    BY DEF Tracks
  <2>3. Ordered(<<>>) /\ Spaced(<<>>, LimitOf(b)) /\ SweptTo(<<>>, MiddlewareOf(b))
    BY DEF Ordered, Spaced, SweptTo
  <2> QED  BY <2>1, <2>2, <2>3 DEF Good
<1> QED  BY <1>1, <1>2 DEF IInv, Good

\* A request that is let through keeps IInv.
LEMMA AdmitGood ==
  ASSUME IInv, NEW op \in Operation, NEW c \in Caller(op), Admit(op, c)
  PROVE  IInv'
<1> DEFINE b == BucketOf(op)
<1>1. b \in Bucket /\ c \in Key /\ LimitOf(b) \in Nat
  BY Buckets, Limits
<1>2. PICK q, l, now : q = Fresh(Kept(b, c)) /\ l = log[b][c] /\ now = clock
  OBVIOUS
<1>3. /\ Len(q) < LimitOf(b)
      /\ Count(MiddlewareOf(b), b, c, Append(q, now))
      /\ log' = [log EXCEPT ![b][c] = Append(l, now)]
      /\ clock' = now
  BY <1>2 DEF Admit
<1>4. /\ TypeOK /\ clock \in Nat /\ now \in Nat /\ l \in Seq(Nat)
      /\ Ordered(l) /\ Spaced(l, LimitOf(b))
      /\ \A m \in Middleware : lastSweep[m] <= clock /\ lastSweep[m] \in Nat
  BY <1>1, <1>2 DEF IInv, TypeOK
<1>5. q \in Seq(Nat) /\ Tracks(q, l)
  BY <1>1, <1>2, FreshKept
<1> HIDE DEF b
<1>6. Tracks(Append(q, now), Append(l, now))
  BY <1>4, <1>5, TracksAppend
<1>7. Ordered(Append(l, now)) /\ Spaced(Append(l, now), LimitOf(b))
  BY <1>1, <1>2, <1>3, <1>4, <1>5, SpacedAppend
<1>8. SweptTo(Append(q, now), MiddlewareOf(b))'
  <2>1. Append(q, now)[Len(Append(q, now))] = now
    BY <1>4, <1>5
  <2>2. lastSweep'[MiddlewareOf(b)] <= now /\ lastSweep'[MiddlewareOf(b)] \in Nat
    BY <1>1, <1>2, <1>3, <1>4, Limits DEF Count, TypeOK
  <2> QED  BY <1>4, <2>1, <2>2, RateLimitAssumption DEF SweptTo
<1>9. Append(q, now) \in Seq(Nat) /\ Append(l, now) \in Seq(Nat)
  BY <1>4, <1>5
<1> QED  BY <1>1, <1>2, <1>3, <1>6, <1>7, <1>8, <1>9, CountGood

\* A refusal keeps IInv.
LEMMA RefuseGood ==
  ASSUME IInv, NEW op \in Operation, NEW c \in Caller(op), Refuse(op, c)
  PROVE  IInv'
<1> DEFINE b == BucketOf(op)
<1>1. b \in Bucket /\ c \in Key
  BY Buckets
<1>2. PICK q, l : q = Fresh(Kept(b, c)) /\ l = log[b][c]
  OBVIOUS
<1>3. Count(MiddlewareOf(b), b, c, q) /\ log' = log /\ clock' = clock
  BY <1>2 DEF Refuse
<1>4. /\ TypeOK /\ l \in Seq(Nat) /\ Ordered(l) /\ Spaced(l, LimitOf(b))
      /\ SweptTo(hits[b][c], MiddlewareOf(b))
  BY <1>1, <1>2 DEF IInv, TypeOK
<1>5. /\ q \in Seq(Nat) /\ Tracks(q, l)
      /\ q # <<>> => q[Len(q)] = hits[b][c][Len(hits[b][c])] /\ Kept(b, c) # <<>>
  BY <1>1, <1>2, FreshKept
<1>6. SweptTo(q, MiddlewareOf(b))'
  <2>1. q # <<>> =>
          /\ hits[b][c] # <<>> /\ q[Len(q)] = hits[b][c][Len(hits[b][c])]
          /\ SweepIsDue(MiddlewareOf(b)) =>
               clock <= hits[b][c][Len(hits[b][c])] + Window
    <3>1. Kept(b, c) # <<>> =>
            /\ Kept(b, c) = hits[b][c]
            /\ SweepIsDue(MiddlewareOf(b)) =>
                 clock <= hits[b][c][Len(hits[b][c])] + Window
      BY <1>1, KeptTracks
    <3> QED  BY <1>5, <3>1, Zenon
  <2>2. lastSweep'[MiddlewareOf(b)] =
          IF SweepIsDue(MiddlewareOf(b)) THEN clock ELSE lastSweep[MiddlewareOf(b)]
    BY <1>1, <1>3, <1>4, Limits DEF Count, TypeOK
  <2>3. q # <<>> => lastSweep'[MiddlewareOf(b)] <= q[Len(q)] + Window
    <3>1. CASE q = <<>>
      BY <3>1
    <3>2. CASE q # <<>>
      <4>1. /\ hits[b][c] # <<>> /\ q[Len(q)] = hits[b][c][Len(hits[b][c])]
            /\ SweepIsDue(MiddlewareOf(b)) =>
                 clock <= hits[b][c][Len(hits[b][c])] + Window
        BY <2>1, <3>2, Zenon
      <4>2. lastSweep[MiddlewareOf(b)] <= hits[b][c][Len(hits[b][c])] + Window
        BY <1>4, <4>1, Zenon DEF SweptTo
      <4> QED  BY <2>2, <4>1, <4>2, Zenon
    <3> QED  BY <3>1, <3>2
  <2> QED  BY <2>3 DEF SweptTo
<1>7. log' = [log EXCEPT ![b][c] = l]
  BY <1>1, <1>2, <1>3, <1>4 DEF TypeOK
<1> HIDE DEF b
<1> QED  BY <1>1, <1>3, <1>4, <1>5, <1>6, <1>7, CountGood

\* The passing of time takes entries out of windows and puts none in.
LEMMA TickGood ==
  ASSUME IInv, Tick
  PROVE  IInv'
<1>1. TypeOK /\ clock \in Nat /\ clock' = clock + 1 /\ UNCHANGED <<hits, lastSweep, log>>
  BY DEF IInv, TypeOK, Tick
<1>2. TypeOK'
  BY <1>1 DEF TypeOK
<1>3. ASSUME NEW b \in Bucket, NEW c \in Key
      PROVE  Good(b, c)'
  <2>1. log[b][c] \in Seq(Nat) /\ Good(b, c)
    BY <1>1 DEF IInv, Good, TypeOK
  <2>2. \A t \in Nat : ~InWindow(t) => ~InWindow(t)'
    BY <1>1, RateLimitAssumption DEF InWindow
  <2>3. Tracks(hits[b][c], log[b][c])'
    <3>1. PICK d \in 0 .. Len(log[b][c]) :
            /\ Len(hits[b][c]) = Len(log[b][c]) - d
            /\ \A i \in 1 .. Len(hits[b][c]) : hits[b][c][i] = log[b][c][i + d]
            /\ \A i \in 1 .. d : ~InWindow(log[b][c][i])
      BY <2>1 DEF Good, Tracks
    <3>2. \A i \in 1 .. d : log[b][c][i] \in Nat
      BY <2>1, <3>1
    <3> QED  BY <1>1, <2>2, <3>1, <3>2 DEF Tracks
  <2>4. Ordered(log[b][c])'
    <3>1. \A i \in 1 .. Len(log[b][c]) : log[b][c][i] \in Nat
      BY <2>1
    <3> QED  BY <1>1, <2>1, <3>1 DEF Good, Ordered
  <2>5. Spaced(log[b][c], LimitOf(b))' /\ SweptTo(hits[b][c], MiddlewareOf(b))'
    BY <1>1, <2>1 DEF Good, Spaced, SweptTo
  <2> QED  BY <2>3, <2>4, <2>5 DEF Good
<1>4. \A m \in Middleware : lastSweep'[m] <= clock'
  BY <1>1 DEF IInv, TypeOK
<1> QED  BY <1>2, <1>3, <1>4 DEF IInv, Good
-----------------------------------------------------------------------------
(* Theorems.                                                               *)

\* IInv holds at first and every step keeps it, for every window, sweep interval
\* and limit.
THEOREM InductiveInvariant == Spec => []IInv
<1>1. Init => IInv
  BY InitGood
<1>2. IInv /\ [Next]_vars => IInv'
  <2> SUFFICES ASSUME IInv, [Next]_vars PROVE IInv'
    OBVIOUS
  <2>1. CASE UNCHANGED vars
    BY <2>1 DEF vars, IInv, TypeOK, Tracks, Ordered, Spaced, SweptTo, InWindow
  <2> QED  BY <2>1, AdmitGood, RefuseGood, TickGood DEF Next
<1> QED  BY <1>1, <1>2, PTL DEF Spec

\* The deques, logs and sweep times keep their types.
THEOREM TypeCorrect == Spec => []TypeOK
<1>1. IInv => TypeOK
  BY DEF IInv
<1> QED  BY <1>1, InductiveInvariant, PTL

\* No limiter of cayz_agent/middleware.py lets more than its limit of a client's
\* requests through in any window, whatever its limit, window and sweep interval.
THEOREM WindowBoundHolds == Spec => []WindowBound
<1>1. IInv => WindowBound
  BY DEF IInv, WindowBound, Spaced
<1> QED  BY <1>1, InductiveInvariant, PTL

\* The sweep leaves no key that was idle for a window, so that the buckets hold
\* the clients of the last window and sweep interval only.
THEOREM SweepHolds == Spec => []IdleKeysAreSwept
<1>1. IInv => IdleKeysAreSwept
  BY DEF IInv, IdleKeysAreSwept, SweptTo
<1> QED  BY <1>1, InductiveInvariant, PTL

\* The number a verdict goes by is the number of requests let through in the
\* window.
THEOREM CountHolds == Spec => []CountsTheWindow
<1>1. ASSUME IInv, NEW b \in Bucket, NEW c \in Key
      PROVE  Len(Fresh(Kept(b, c))) =
               Cardinality({i \in DOMAIN log[b][c] : InWindow(log[b][c][i])})
  <2> DEFINE l == log[b][c]
             q == Kept(b, c)
             S == {i \in DOMAIN l : InWindow(l[i])}
  <2>1. /\ l \in Seq(Nat) /\ Len(l) \in Nat /\ Ordered(l)
        /\ clock \in Nat /\ Window \in Nat
    BY <1>1, RateLimitAssumption DEF IInv, TypeOK
  <2>2. q \in Seq(Nat) /\ Fresh(q) \in Seq(Nat) /\ Tracks(Fresh(q), l)
    BY <1>1, KeptTracks, FreshKept
  <2> HIDE DEF l, q
  <2>3. PICK d \in 0 .. Len(l) :
          /\ Len(Fresh(q)) = Len(l) - d
          /\ \A i \in 1 .. Len(Fresh(q)) : Fresh(q)[i] = l[i + d]
          /\ \A i \in 1 .. d : ~InWindow(l[i])
    BY <2>2 DEF Tracks
  <2>4. d < Len(l) => InWindow(l[d + 1])
    <3>1. PICK n \in 0 .. Len(q) :
            /\ Len(Fresh(q)) = Len(q) - n
            /\ \A i \in 1 .. Len(q) - n : Fresh(q)[i] = q[i + n]
            /\ n < Len(q) => InWindow(q[n + 1])
      BY <2>2, DroppedStops, FreshIsSuffix
    <3> SUFFICES ASSUME d < Len(l) PROVE InWindow(l[d + 1])
      OBVIOUS
    <3>2. Len(l) - d \in Nat \ {0} /\ Len(q) \in Nat
      BY <2>1, <2>2
    <3>3. Len(Fresh(q)) \in Nat \ {0} /\ Len(q) - n = Len(Fresh(q))
      BY <2>3, <3>1, <3>2
    <3>4. 1 \in 1 .. Len(Fresh(q)) /\ 1 \in 1 .. Len(q) - n /\ n < Len(q)
      BY <3>2, <3>3
    <3>5. Fresh(q)[1] = l[1 + d] /\ Fresh(q)[1] = q[1 + n]
      BY <2>3, <3>1, <3>4
    <3>6. d + 1 = 1 + d /\ n + 1 = 1 + n
      BY <2>1
    <3> QED  BY <3>1, <3>4, <3>5, <3>6
  <2>5. ASSUME NEW i \in d + 1 .. Len(l)
        PROVE  InWindow(l[i])
    <3>1. d + 1 \in 1 .. Len(l) /\ i \in 1 .. Len(l) /\ d + 1 <= i /\ d < Len(l)
      BY <2>1
    <3>2. l[d + 1] <= l[i] /\ l[d + 1] \in Nat /\ l[i] \in Nat
      BY <2>1, <3>1 DEF Ordered
    <3>3. InWindow(l[d + 1])
      BY <2>4, <3>1
    <3>4. clock \in Nat /\ Window \in Nat
      BY <2>1
    <3> QED  BY <3>2, <3>3, <3>4 DEF InWindow
  <2>6. S = d + 1 .. Len(l)
    <3>1. DOMAIN l = 1 .. Len(l)
      BY <2>1
    <3>2. \A i \in 1 .. Len(l) : i \in 1 .. d \/ i \in d + 1 .. Len(l)
      BY <2>1
    <3>3. \A i \in d + 1 .. Len(l) : i \in 1 .. Len(l)
      BY <2>1
    <3> QED  BY <2>3, <2>5, <3>1, <3>2, <3>3
  <2>7. Cardinality(d + 1 .. Len(l)) = Len(l) - d
    <3>1. d + 1 \in Int /\ Len(l) \in Int
      BY <2>1
    <3>2. Cardinality(d + 1 .. Len(l)) =
            IF d + 1 > Len(l) THEN 0 ELSE Len(l) - (d + 1) + 1
      BY <3>1, FS_Interval
    <3> QED  BY <2>1, <3>2
  <2> QED  BY <2>3, <2>6, <2>7 DEF l, q
<1>2. IInv => CountsTheWindow
  BY <1>1 DEF CountsTheWindow
<1> QED  BY <1>2, InductiveInvariant, PTL
-----------------------------------------------------------------------------
(* Retry-After.                                                            *)

\* What whole seconds say of a number of ticks.
LEMMA WholeSeconds ==
  ASSUME NEW x \in Nat, NEW s \in Nat \ {0}
  PROVE  /\ x \div s \in Nat
         /\ (x \div s) * s <= x
         /\ x < (x \div s + 1) * s
<1>1. x \div s \in Nat /\ (x \div s) * s <= x
  OBVIOUS
<1>2. x < (x \div s + 1) * s
  OBVIOUS
<1> QED  BY <1>1, <1>2

\* More seconds are no fewer ticks.
LEMMA MoreSeconds ==
  ASSUME NEW v \in Nat, NEW w \in Nat, NEW s \in Nat \ {0}, v <= w
  PROVE  v * s <= w * s /\ v * s \in Nat /\ w * s \in Nat
  OBVIOUS

\* The Retry-After of RateLimitMiddleware is less than a second short of the wait
\* its client is in for, and never a whole second too long, unless it is 1.
THEOREM RetryAfterHolds == Spec => []RetryAfterIsClose
<1>1. ASSUME IInv, NEW b \in {"read", "write"}, NEW c \in Client,
             NEW q \in Seq(Nat), q = Fresh(Kept(b, c)), Len(q) > 0
      PROVE  /\ q[1] + Window < clock + (RetryAfter(q) + 1) * Second
             /\ RetryAfter(q) > 1 => clock + RetryAfter(q) * Second <= q[1] + Window
  <2>1. b \in Bucket /\ c \in Key
    BY DEF Bucket, Key
  <2>2. Kept(b, c) \in Seq(Nat)
    BY <1>1, <2>1, KeptTracks
  <2>3. q[1] \in Nat /\ InWindow(q[1])
    <3>1. PICK p \in Seq(Nat) : p = Kept(b, c)
      BY <2>2
    <3>2. PICK n \in 0 .. Len(p) :
            /\ Len(q) = Len(p) - n
            /\ \A i \in 1 .. Len(p) - n : q[i] = p[i + n]
            /\ n < Len(p) => InWindow(p[n + 1])
      BY <1>1, <3>1, DroppedStops, FreshIsSuffix
    <3>3. 1 \in 1 .. Len(p) - n /\ n < Len(p) /\ 1 + n = n + 1 /\ 1 \in 1 .. Len(q)
      BY <1>1, <3>2
    <3> QED  BY <3>2, <3>3
  <2>4. clock \in Nat /\ Window \in Nat /\ Second \in Nat \ {0}
    BY <1>1, RateLimitAssumption DEF IInv, TypeOK
  <2> DEFINE x == Window - (clock - q[1])
             w == x \div Second
             n == RetryAfter(q)
  <2>5. x \in Nat /\ clock + x = q[1] + Window
    BY <2>3, <2>4 DEF InWindow
  <2>6. n = IF w > 1 THEN w ELSE 1
    BY DEF RetryAfter
  <2> HIDE DEF x, n
  <2>7. w \in Nat /\ w * Second <= x /\ x < (w + 1) * Second
    BY <2>4, <2>5, WholeSeconds
  <2> HIDE DEF w
  <2>8. n \in Nat /\ w <= n /\ (n > 1 => n = w)
    BY <2>6, <2>7
  <2>9. (w + 1) * Second <= (n + 1) * Second /\ (n + 1) * Second \in Nat
        /\ (w + 1) * Second \in Nat
    BY <2>4, <2>7, <2>8, MoreSeconds
  <2>10. x < (n + 1) * Second
    BY <2>5, <2>7, <2>9
  <2>11. n > 1 => n * Second <= x
    BY <2>7, <2>8
  <2>12. n * Second \in Nat
    BY <2>4, <2>8
  <2>13. /\ q[1] + Window < clock + (n + 1) * Second
         /\ n > 1 => clock + n * Second <= q[1] + Window
    BY <2>4, <2>5, <2>9, <2>10, <2>11, <2>12
  <2> QED  BY <2>13 DEF n
<1>2. ASSUME IInv PROVE RetryAfterIsClose
  <2> SUFFICES ASSUME NEW b \in {"read", "write"}, NEW c \in Client,
                      Len(Fresh(Kept(b, c))) > 0
               PROVE  LET q == Fresh(Kept(b, c))
                          n == RetryAfter(q)
                      IN  /\ q[1] + Window < clock + (n + 1) * Second
                          /\ n > 1 => clock + n * Second <= q[1] + Window
    BY DEF RetryAfterIsClose
  <2>1. b \in Bucket /\ c \in Key
    BY DEF Bucket, Key
  <2>2. Fresh(Kept(b, c)) \in Seq(Nat)
    BY <1>2, <2>1, FreshKept
  <2> QED  BY <1>1, <1>2, <2>2
<1> QED  BY <1>2, InductiveInvariant, PTL
=============================================================================
