------------------------------ MODULE Shutdown ------------------------------
(***************************************************************************)
(* Ordered shutdown (cayz_agent/app_state.py and lifespan in               *)
(* cayz_agent/api.py): hooks are registered while the application is up;   *)
(* on shutdown run_cleanups runs them, the last one first, each in a       *)
(* thread of its own, until all are done or the time is over.              *)
(***************************************************************************)
EXTENDS Naturals

CONSTANTS
  MaxHooks,  \* bound on the hooks registered
  Timeout,   \* graceful_shutdown_timeout, seconds
  MaxTime,   \* bound on the clock
  MaxShutdowns  \* bound on the shutdowns of one process

ASSUME ShutdownAssumption ==
  MaxHooks \in Nat /\ Timeout \in Nat \ {0} /\ MaxTime \in Nat /\ MaxShutdowns \in Nat

\* Hooks are numbered in the order they were registered.
Hook == 1..MaxHooks

VARIABLES
  clock,     \* seconds
  pc,        \* run_cleanups: "up" until it is called, "down" when it returned
  ready,     \* _ready
  at,        \* at[h]: how far hook h has come
  taken,     \* taken[h]: the shutdown that took h from the list, 0 for none
  batch,     \* hooks run_cleanups has yet to come to
  current,   \* the hook it waits for
  deadline,  \* when it gives up
  shutdowns, \* shutdowns begun
  executed   \* what it will return

vars == <<clock, pc, ready, at, taken, batch, current, deadline, shutdowns, executed>>
-----------------------------------------------------------------------------
Init ==
  /\ clock = 0 /\ pc = "up" /\ ready = FALSE
  /\ at = [h \in Hook |-> "new"]
  /\ taken = [h \in Hook |-> 0]
  /\ batch = {} /\ current = 0 /\ deadline = 0
  /\ shutdowns = 0 /\ executed = 0

Registered == {h \in Hook : at[h] = "registered" /\ taken[h] = 0}

\* register_cleanup, by anybody at any time; one registered while hooks run is
\* left to the next shutdown.
Register(h) ==
  /\ at[h] = "new" /\ \A k \in 1..(h - 1) : at[k] # "new"
  /\ at' = [at EXCEPT ![h] = "registered"]
  /\ UNCHANGED <<clock, pc, ready, taken, batch, current, deadline, shutdowns, executed>>

\* The end of lifespan's startup.
SetReady ==
  /\ pc = "up" /\ ~ready
  /\ ready' = TRUE
  /\ UNCHANGED <<clock, pc, at, taken, batch, current, deadline, shutdowns, executed>>

\* lifespan ends: not ready, the watcher stopped (see Alerts), run_cleanups
\* empties the list and sets its deadline.
Shut ==
  /\ pc = "up" /\ ready
  /\ clock + Timeout <= MaxTime /\ shutdowns < MaxShutdowns
  /\ ready' = FALSE
  /\ batch' = Registered
  /\ taken' = [h \in Hook |-> IF h \in Registered THEN shutdowns + 1 ELSE taken[h]]
  /\ deadline' = clock + Timeout
  /\ shutdowns' = shutdowns + 1
  /\ executed' = 0
  /\ pc' = "cleaning"
  /\ UNCHANGED <<clock, at, current>>

\* lifespan once more in the same process.
StartAgain ==
  /\ pc = "down"
  /\ pc' = "up"
  /\ UNCHANGED <<clock, ready, at, taken, batch, current, deadline, shutdowns, executed>>
-----------------------------------------------------------------------------
Mut_TimeoutPerHook(h) ==
  /\ pc = "cleaning"
  /\ h \in batch /\ \A k \in batch : k <= h
  /\ clock + Timeout <= MaxTime
  /\ deadline' = clock + Timeout
  /\ at' = [at EXCEPT ![h] = "running"]
  /\ batch' = batch \ {h}
  /\ current' = h
  /\ pc' = "joining"
  /\ UNCHANGED <<clock, ready, taken, shutdowns, executed>>

\* The latest of the hooks left starts in a thread, if there is time left.
StartHook(h) ==
  /\ pc = "cleaning"
  /\ h \in batch /\ \A k \in batch : k <= h
  /\ clock < deadline
  /\ at' = [at EXCEPT ![h] = "running"]
  /\ batch' = batch \ {h}
  /\ current' = h
  /\ pc' = "joining"
  /\ UNCHANGED <<clock, ready, taken, deadline, shutdowns, executed>>

\* A hook returns or raises, perhaps long after nobody waits for it.
HookEnds(h, how) ==
  /\ at[h] = "running"
  /\ at' = [at EXCEPT ![h] = how]
  /\ UNCHANGED <<clock, pc, ready, taken, batch, current, deadline, shutdowns, executed>>

Mut_JoinsForGood ==
  /\ pc = "joining"
  /\ at[current] # "running"
  /\ executed' = IF at[current] = "failed" THEN executed ELSE executed + 1
  /\ pc' = "cleaning"
  /\ UNCHANGED <<clock, ready, at, taken, batch, current, deadline, shutdowns>>

Mut_FailureEndsIt ==
  /\ pc = "joining"
  /\ at[current] # "running" \/ clock >= deadline
  /\ executed' = IF at[current] = "failed" THEN executed ELSE executed + 1
  /\ pc' = IF at[current] = "failed" THEN "down" ELSE "cleaning"
  /\ UNCHANGED <<clock, ready, at, taken, batch, current, deadline, shutdowns>>

\* The join is over: the hook has ended, or its time has.  A hook given up
\* counts as executed, one that raised does not.
Joined ==
  /\ pc = "joining"
  /\ at[current] # "running" \/ clock >= deadline
  /\ executed' = IF at[current] = "failed" THEN executed ELSE executed + 1
  /\ pc' = "cleaning"
  /\ UNCHANGED <<clock, ready, at, taken, batch, current, deadline, shutdowns>>

\* All hooks are through, or time is up.
Return ==
  /\ pc = "cleaning"
  /\ batch = {} \/ clock >= deadline
  /\ pc' = "down"
  /\ UNCHANGED <<clock, ready, at, taken, batch, current, deadline, shutdowns, executed>>

Tick ==
  /\ clock < MaxTime
  /\ clock' = clock + 1
  /\ UNCHANGED <<pc, ready, at, taken, batch, current, deadline, shutdowns, executed>>

Main == Joined \/ Return \/ \E h \in Hook : StartHook(h)

Next ==
  \/ \E h \in Hook :
       \/ Register(h)
       \/ StartHook(h)
       \/ \E how \in {"done", "failed"} : HookEnds(h, how)
  \/ SetReady \/ Shut \/ StartAgain
  \/ Joined \/ Return
  \/ Tick

\* The thread that shuts down runs and time passes.  A hook may hang.
Fairness == WF_vars(Main) /\ WF_vars(Tick)

Spec == Init /\ [][Next]_vars /\ Fairness
-----------------------------------------------------------------------------
\* The shapes of the variables; the count never exceeds the hooks.
TypeOK ==
  /\ clock \in 0..MaxTime
  /\ pc \in {"up", "cleaning", "joining", "down"}
  /\ ready \in BOOLEAN
  /\ at \in [Hook -> {"new", "registered", "running", "done", "failed"}]
  /\ taken \in [Hook -> 0..shutdowns]
  /\ batch \subseteq Hook /\ current \in Hook \cup {0}
  /\ deadline \in 0..MaxTime
  /\ shutdowns \in 0..MaxShutdowns /\ executed \in Nat
  /\ pc = "joining" => current \in Hook

Ended(h) == at[h] \in {"done", "failed"}

\* Later hooks use what earlier ones release ("the later one usually depends on
\* the earlier", app_state.py): no hook of a shutdown starts before all that
\* were registered after it have ended, also when one of them hangs.
LaterOnesHaveEnded ==
  \A h, k \in Hook :
    /\ taken[h] # 0 /\ taken[h] = taken[k] /\ h < k
    /\ at[h] # "registered"
    => Ended(k)

\* "A failing cleanup does not block the others" (app_state.py): what a
\* shutdown has left out when it returns, it had no time for.
FailureStopsNobody == pc = "down" /\ batch # {} => clock >= deadline

\* Shutdown comes to its end, whether its hooks do or not (run_cleanups).
CleanupReturns == pc \in {"cleaning", "joining"} ~> pc = "down"
=============================================================================
