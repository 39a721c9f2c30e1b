-------------------------- MODULE ShutdownProofs ---------------------------
(***************************************************************************)
(* Proofs about module Shutdown, for every number of hooks and shutdowns   *)
(* and every timeout.                                                      *)
(***************************************************************************)
EXTENDS Shutdown, TLAPS

\* A hook that is new has been taken by no shutdown.
NewInv == \A h \in Hook : at[h] = "new" => taken[h] = 0

\* While hooks are cleaned up: those to come were registered and taken by this
\* shutdown, and before all that it has come to.
BatchInv ==
  pc \in {"cleaning", "joining"} =>
    \A h \in batch :
      /\ at[h] = "registered" /\ taken[h] = shutdowns
      /\ \A k \in Hook \ batch : taken[k] = shutdowns => h < k

\* All that it has come to have ended, but the one it waits for, or time is up.
PastInv ==
  \A k \in Hook \ batch :
    /\ taken[k] = shutdowns
    /\ \/ pc = "cleaning" /\ clock < deadline
       \/ pc = "joining" /\ k # current
    => Ended(k)

\* The hook it waits for was started.
CurrentInv == pc = "joining" => at[current] \in {"running", "done", "failed"}

\* The inductive invariant.
IInv ==
  /\ TypeOK /\ NewInv /\ BatchInv /\ PastInv /\ CurrentInv
  /\ pc \in {"cleaning", "joining"} => shutdowns > 0
  /\ LaterOnesHaveEnded /\ FailureStopsNobody
-----------------------------------------------------------------------------
LEMMA InitInv == Init => IInv
<1> SUFFICES ASSUME Init PROVE IInv
  OBVIOUS
<1>1. MaxTime \in Nat /\ MaxShutdowns \in Nat
  BY ShutdownAssumption
<1>2. \A h \in Hook : at[h] = "new" /\ taken[h] = 0
  BY DEF Init
<1>3. taken \in [Hook -> 0..shutdowns]
  BY DEF Init
<1>4. TypeOK
  <2>1. clock \in 0..MaxTime /\ deadline \in 0..MaxTime /\ shutdowns \in 0..MaxShutdowns
    BY <1>1 DEF Init
  <2>2. at \in [Hook -> {"new", "registered", "running", "done", "failed"}]
    BY DEF Init
  <2> QED
    BY <1>3, <2>1, <2>2 DEF Init, TypeOK
<1>5. NewInv /\ BatchInv /\ CurrentInv /\ LaterOnesHaveEnded /\ FailureStopsNobody
  BY <1>2 DEF Init, NewInv, BatchInv, CurrentInv, LaterOnesHaveEnded, FailureStopsNobody
<1>6. PastInv
  BY DEF Init, PastInv
<1> QED
  BY <1>4, <1>5, <1>6 DEF IInv, Init

LEMMA RegisterStep ==
  ASSUME IInv, NEW h \in Hook, Register(h)
  PROVE  IInv'
<1>1. /\ at[h] = "new" /\ taken[h] = 0
      /\ at' = [at EXCEPT ![h] = "registered"]
      /\ UNCHANGED <<clock, pc, ready, taken, batch, current, deadline, shutdowns, executed>>
  BY DEF Register, IInv, NewInv
<1>2. \A k \in Hook : at'[k] = IF k = h THEN "registered" ELSE at[k]
  BY <1>1 DEF IInv, TypeOK
<1>3. TypeOK'
  BY <1>1 DEF IInv, TypeOK
<1>4. NewInv' /\ BatchInv' /\ CurrentInv' /\ FailureStopsNobody'
  BY <1>1, <1>2 DEF IInv, TypeOK, NewInv, BatchInv, CurrentInv, FailureStopsNobody
<1>5. pc \in {"cleaning", "joining"} => taken[h] # shutdowns
  BY <1>1 DEF IInv, TypeOK
<1>6. PastInv'
  BY <1>1, <1>2, <1>5 DEF IInv, PastInv, Ended
<1>7. LaterOnesHaveEnded'
  BY <1>1, <1>2 DEF IInv, LaterOnesHaveEnded, Ended
<1> QED
  BY <1>1, <1>3, <1>4, <1>6, <1>7 DEF IInv

LEMMA ShutStep ==
  ASSUME IInv, Shut
  PROVE  IInv'
<1>1. /\ batch' = Registered /\ pc' = "cleaning" /\ shutdowns' = shutdowns + 1
      /\ taken' = [h \in Hook |-> IF h \in Registered THEN shutdowns + 1 ELSE taken[h]]
      /\ deadline' = clock + Timeout /\ clock + Timeout <= MaxTime /\ shutdowns < MaxShutdowns
      /\ ready' = FALSE /\ executed' = 0 /\ UNCHANGED <<clock, at, current>>
  BY DEF Shut
<1>2. \A h \in Hook : taken'[h] = IF h \in Registered THEN shutdowns + 1 ELSE taken[h]
  BY <1>1
<1>3. \A h \in Hook : taken[h] \in Nat /\ taken[h] <= shutdowns
  BY ShutdownAssumption DEF IInv, TypeOK
<1>4. shutdowns \in Nat /\ clock \in Nat
  BY ShutdownAssumption DEF IInv, TypeOK
<1>5. TypeOK'
  <2>1. taken' \in [Hook -> 0..shutdowns']
    <3>1. \A h \in Hook : (IF h \in Registered THEN shutdowns + 1 ELSE taken[h]) \in 0..(shutdowns + 1)
      BY <1>3, <1>4
    <3> QED
      BY <1>1, <3>1
  <2>2. batch' \subseteq Hook
    BY <1>1 DEF Registered
  <2>3. deadline' \in 0..MaxTime /\ shutdowns' \in 0..MaxShutdowns
    <3>1. Timeout \in Nat /\ MaxTime \in Nat /\ MaxShutdowns \in Nat
      BY ShutdownAssumption
    <3>2. clock + Timeout \in 0..MaxTime
      BY <1>1, <1>4, <3>1
    <3>3. shutdowns + 1 \in 0..MaxShutdowns
      BY <1>1, <1>4, <3>1
    <3> QED
      BY <1>1, <3>2, <3>3
  <2>4. /\ clock' = clock /\ at' = at /\ current' = current
        /\ pc' = "cleaning" /\ ready' = FALSE /\ executed' = 0
    BY <1>1
  <2> QED
    BY <2>1, <2>2, <2>3, <2>4 DEF IInv, TypeOK
<1>6. NewInv'
  BY <1>1, <1>2 DEF IInv, NewInv, Registered
<1>7. \A k \in Hook \ batch' : taken'[k] # shutdowns'
  BY <1>1, <1>2, <1>3, <1>4
<1>8. BatchInv' /\ PastInv'
  BY <1>1, <1>2, <1>7 DEF BatchInv, PastInv, Registered
<1>9. LaterOnesHaveEnded'
  <2> SUFFICES ASSUME NEW h \in Hook, NEW k \in Hook,
                      taken'[h] # 0, taken'[h] = taken'[k], h < k, at'[h] # "registered"
               PROVE  Ended(k)'
    BY DEF LaterOnesHaveEnded
  <2>1. h \notin Registered
    BY <1>1 DEF Registered
  <2>2. k \notin Registered
    BY <1>2, <1>3, <1>4, <2>1
  <2> QED
    BY <1>1, <1>2, <2>1, <2>2 DEF IInv, LaterOnesHaveEnded, Ended
<1> QED
  BY <1>1, <1>4, <1>5, <1>6, <1>8, <1>9 DEF IInv, CurrentInv, FailureStopsNobody

LEMMA StartHookStep ==
  ASSUME IInv, NEW h \in Hook, StartHook(h)
  PROVE  IInv'
<1>1. /\ pc = "cleaning" /\ h \in batch /\ \A k \in batch : k <= h
      /\ clock < deadline
      /\ at' = [at EXCEPT ![h] = "running"] /\ batch' = batch \ {h}
      /\ current' = h /\ pc' = "joining"
      /\ UNCHANGED <<clock, ready, taken, deadline, shutdowns, executed>>
  BY DEF StartHook
<1>2. \A k \in Hook : at'[k] = IF k = h THEN "running" ELSE at[k]
  BY <1>1 DEF IInv, TypeOK
<1>3. /\ at[h] = "registered" /\ taken[h] = shutdowns
      /\ \A k \in Hook \ batch : taken[k] = shutdowns => h < k /\ Ended(k)
  BY <1>1 DEF IInv, BatchInv, PastInv
<1>4. TypeOK'
  BY <1>1 DEF IInv, TypeOK
<1>5. NewInv'
  BY <1>1, <1>2, <1>3 DEF IInv, NewInv
<1>6. BatchInv'
  <2> SUFFICES ASSUME NEW j \in batch, j # h
               PROVE  /\ at'[j] = "registered" /\ taken[j] = shutdowns
                      /\ \A k \in Hook \ (batch \ {h}) : taken[k] = shutdowns => j < k
    BY <1>1 DEF BatchInv
  <2>1. j \in Hook /\ j \in Nat /\ h \in Nat
    BY DEF IInv, TypeOK, Hook
  <2>2. at[j] = "registered" /\ taken[j] = shutdowns
        /\ \A k \in Hook \ batch : taken[k] = shutdowns => j < k
    BY <1>1 DEF IInv, BatchInv
  <2>3. j < h
    BY <1>1, <2>1
  <2> QED
    BY <1>2, <2>1, <2>2, <2>3
<1>7. PastInv'
  BY <1>1, <1>2, <1>3 DEF PastInv, Ended
<1>8. LaterOnesHaveEnded'
  <2> SUFFICES ASSUME NEW i \in Hook, NEW k \in Hook,
                      taken[i] # 0, taken[i] = taken[k], i < k, at'[i] # "registered"
               PROVE  at'[k] \in {"done", "failed"}
    BY <1>1 DEF LaterOnesHaveEnded, Ended
  <2>1. i \in Nat /\ k \in Nat /\ h \in Nat
    BY DEF Hook
  <2>2. CASE i = h
    <3>1. k \notin batch
      BY <1>1, <2>1, <2>2
    <3>2. k # h /\ Ended(k)
      BY <1>3, <2>1, <2>2, <3>1
    <3> QED
      BY <1>2, <3>2 DEF Ended
  <2>3. CASE i # h
    <3>1. at[i] # "registered" /\ Ended(k)
      BY <1>2, <2>3 DEF IInv, LaterOnesHaveEnded
    <3>2. k # h
      BY <1>3, <3>1 DEF Ended
    <3> QED
      BY <1>2, <3>1, <3>2 DEF Ended
  <2> QED
    BY <2>2, <2>3
<1> QED
  BY <1>1, <1>2, <1>4, <1>5, <1>6, <1>7, <1>8 DEF IInv, CurrentInv, FailureStopsNobody

LEMMA HookEndsStep ==
  ASSUME IInv, NEW h \in Hook, NEW how \in {"done", "failed"}, HookEnds(h, how)
  PROVE  IInv'
<1>1. /\ at[h] = "running" /\ at' = [at EXCEPT ![h] = how]
      /\ UNCHANGED <<clock, pc, ready, taken, batch, current, deadline, shutdowns, executed>>
  BY DEF HookEnds
<1>2. \A k \in Hook : at'[k] = IF k = h THEN how ELSE at[k]
  BY <1>1 DEF IInv, TypeOK
<1>3. TypeOK'
  BY <1>1 DEF IInv, TypeOK
<1>4. NewInv' /\ CurrentInv' /\ FailureStopsNobody'
  BY <1>1, <1>2 DEF IInv, TypeOK, NewInv, CurrentInv, FailureStopsNobody
<1>5. BatchInv'
  <2>1. pc \in {"cleaning", "joining"} => h \notin batch
    BY <1>1 DEF IInv, BatchInv
  <2>2. \A k \in batch : pc \in {"cleaning", "joining"} => at'[k] = at[k]
    BY <1>2, <2>1 DEF IInv, TypeOK
  <2> QED
    BY <1>1, <2>2 DEF IInv, BatchInv
<1>6. PastInv'
  BY <1>1, <1>2 DEF IInv, PastInv, Ended
<1>7. LaterOnesHaveEnded'
  BY <1>1, <1>2 DEF IInv, LaterOnesHaveEnded, Ended
<1> QED
  BY <1>1, <1>3, <1>4, <1>5, <1>6, <1>7 DEF IInv

\* Steps of run_cleanups that neither start nor end a hook, and of the clock.
LEMMA MainStep ==
  ASSUME IInv, Joined \/ Return
  PROVE  IInv'
<1>1. CASE Joined
  <2>1. /\ pc = "joining" /\ pc' = "cleaning" /\ executed' \in Nat
        /\ at[current] # "running" \/ clock >= deadline
        /\ UNCHANGED <<clock, ready, at, taken, batch, current, deadline, shutdowns>>
    BY <1>1 DEF Joined, IInv, TypeOK
  <2>2. /\ TypeOK' /\ NewInv' /\ BatchInv' /\ CurrentInv'
        /\ LaterOnesHaveEnded' /\ FailureStopsNobody'
    BY <2>1 DEF IInv, TypeOK, NewInv, BatchInv, CurrentInv, LaterOnesHaveEnded, Ended, FailureStopsNobody
  <2>3. PastInv'
    <3> SUFFICES ASSUME NEW k \in Hook \ batch, taken[k] = shutdowns, clock < deadline
                 PROVE  Ended(k)
      BY <2>1 DEF PastInv, Ended
    <3>1. CASE k # current
      BY <2>1, <3>1 DEF IInv, PastInv
    <3>2. CASE k = current
      <4>1. clock \in Nat /\ deadline \in Nat
        BY ShutdownAssumption DEF IInv, TypeOK
      <4>2. at[k] # "running"
        BY <2>1, <3>2, <4>1
      <4>3. at[k] \in {"running", "done", "failed"}
        BY <2>1, <3>2 DEF IInv, CurrentInv
      <4> QED
        BY <4>2, <4>3 DEF Ended
    <3> QED
      BY <3>1, <3>2
  <2> QED
    BY <2>1, <2>2, <2>3 DEF IInv
<1>2. CASE Return
  <2>1. /\ pc = "cleaning" /\ pc' = "down"
        /\ batch = {} \/ clock >= deadline
        /\ UNCHANGED <<clock, ready, at, taken, batch, current, deadline, shutdowns, executed>>
    BY <1>2 DEF Return
  <2>2. TypeOK'
    BY <2>1 DEF IInv, TypeOK
  <2>3. NewInv' /\ BatchInv' /\ PastInv' /\ CurrentInv'
    BY <2>1 DEF IInv, NewInv, BatchInv, PastInv, CurrentInv
  <2>4. LaterOnesHaveEnded' /\ FailureStopsNobody'
    BY <2>1 DEF IInv, LaterOnesHaveEnded, Ended, FailureStopsNobody
  <2> QED
    BY <2>1, <2>2, <2>3, <2>4 DEF IInv
<1> QED
  BY <1>1, <1>2

\* Steps that touch no hook: the clock, readiness, and the next start.
LEMMA QuietStep ==
  ASSUME IInv, Tick \/ SetReady \/ StartAgain
  PROVE  IInv'
<1>1. /\ clock \in Nat /\ deadline \in Nat /\ MaxTime \in Nat
  BY ShutdownAssumption DEF IInv, TypeOK
<1>2. CASE Tick
  <2>1. /\ clock < MaxTime /\ clock' = clock + 1
        /\ UNCHANGED <<pc, ready, at, taken, batch, current, deadline, shutdowns, executed>>
    BY <1>2 DEF Tick
  <2>2. clock' \in 0..MaxTime
    BY <1>1, <2>1
  <2>3. clock' < deadline => clock < deadline
    BY <1>1, <2>1
  <2>4. clock >= deadline => clock' >= deadline
    BY <1>1, <2>1
  <2>5. TypeOK'
    BY <2>1, <2>2 DEF IInv, TypeOK
  <2>6. PastInv'
    BY <2>1, <2>3 DEF IInv, PastInv, Ended
  <2>7. FailureStopsNobody'
    BY <2>1, <2>4 DEF IInv, FailureStopsNobody
  <2> QED
    BY <2>1, <2>5, <2>6, <2>7 DEF IInv, NewInv, BatchInv, CurrentInv, LaterOnesHaveEnded, Ended
<1>3. CASE SetReady \/ StartAgain
  <2>1. /\ pc' = "up" /\ ready' \in BOOLEAN
        /\ UNCHANGED <<clock, at, taken, batch, current, deadline, shutdowns, executed>>
    BY <1>3 DEF SetReady, StartAgain, IInv, TypeOK
  <2> QED
    BY <2>1 DEF IInv, TypeOK, NewInv, BatchInv, PastInv, CurrentInv, LaterOnesHaveEnded, Ended,
       FailureStopsNobody
<1> QED
  BY <1>2, <1>3

LEMMA NextInv == IInv /\ [Next]_vars => IInv'
<1> SUFFICES ASSUME IInv, [Next]_vars PROVE IInv'
  OBVIOUS
<1>1. ASSUME NEW h \in Hook, Register(h) PROVE IInv'
  BY <1>1, RegisterStep
<1>2. ASSUME NEW h \in Hook, StartHook(h) PROVE IInv'
  BY <1>2, StartHookStep
<1>3. ASSUME NEW h \in Hook, NEW how \in {"done", "failed"}, HookEnds(h, how) PROVE IInv'
  BY <1>3, HookEndsStep
<1>4. CASE Shut
  BY <1>4, ShutStep
<1>5. CASE Joined \/ Return
  BY <1>5, MainStep
<1>6. CASE Tick \/ SetReady \/ StartAgain
  BY <1>6, QuietStep
<1>7. CASE UNCHANGED vars
  BY <1>7 DEF vars, IInv, TypeOK, NewInv, BatchInv, PastInv, CurrentInv, LaterOnesHaveEnded, Ended,
     FailureStopsNobody
<1> QED
  BY <1>1, <1>2, <1>3, <1>4, <1>5, <1>6, <1>7 DEF Next
-----------------------------------------------------------------------------
\* The invariant that carries the results below holds in every reachable state
\* of Shutdown (run_cleanups and lifespan).
THEOREM InductiveInvariant == Spec => []IInv
  BY InitInv, NextInv, PTL DEF Spec

\* The variables keep their shapes (run_cleanups and lifespan).
THEOREM TypeCorrect == Spec => []TypeOK
<1>1. IInv => TypeOK
  BY DEF IInv
<1> QED
  BY <1>1, InductiveInvariant, PTL

\* No hook of a shutdown starts before all those registered after it have
\* ended, however many hooks hang, fail or are registered meanwhile
\* (run_cleanups).
THEOREM LaterOnes == Spec => []LaterOnesHaveEnded
<1>1. IInv => LaterOnesHaveEnded
  BY DEF IInv
<1> QED
  BY <1>1, InductiveInvariant, PTL

\* A shutdown leaves hooks out only when its time is over, never because
\* another hook failed (run_cleanups).
THEOREM FailureBlocksNobody == Spec => []FailureStopsNobody
<1>1. IInv => FailureStopsNobody
  BY DEF IInv
<1> QED
  BY <1>1, InductiveInvariant, PTL
=============================================================================
