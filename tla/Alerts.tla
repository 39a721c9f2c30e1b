------------------------------- MODULE Alerts -------------------------------
(***************************************************************************)
(* Alerts (cayz_agent/alerts.py): the watcher's loop, which checks the     *)
(* metrics every interval, the endpoint /metrics, which checks them when   *)
(* asked, and the manager they find in a global variable, which raises an  *)
(* alert again only after suppress_seconds.                                *)
(*                                                                         *)
(* The endpoint, lifespan's start and its stop of the watcher all run on   *)
(* the server's event loop, one after the other; each loop of a watcher is *)
(* a thread of its own.                                                    *)
(***************************************************************************)
EXTENDS Integers, Sequences

CONSTANTS
  MaxLoops,   \* bound on the watchers started
  NoManager,  \* the global variable before its first use
  LastRule,   \* the rules are 1..LastRule, in the order they are checked
  Rate,       \* rules on rates and averages, which may fall again
  Suppress,   \* suppress_seconds
  Keep,       \* _MAX_ALERTS_HISTORY
  MaxTime,    \* bound on the clock
  MaxFaults   \* bound on the checks that end with an exception

Rule == 1..LastRule

\* The watchers' threads, as they are started, and the event loop's.
Loop == 1..MaxLoops
Server == 0
Checker == Loop \cup {Server}

NoLoop == 0

ASSUME AlertsAssumption ==
  /\ MaxLoops \in Nat /\ NoManager \notin Checker
  /\ LastRule \in Nat /\ Rate \subseteq Rule
  /\ Suppress \in Nat \ {0} /\ Keep \in Nat \ {0}
  /\ MaxTime \in Nat /\ MaxTime >= Suppress /\ MaxFaults \in Nat

VARIABLES
  clock,    \* seconds
  high,     \* the rules whose metric is above its threshold
  pc,       \* pc[c]: where thread c is
  todo,     \* todo[c]: the rules c's check still has to look at
  sensed,   \* sensed[c]: the clock c read before it took the lock
  using,    \* using[c]: the manager c got
  manager,  \* _global_manager; a manager is named for the thread that made it
  last,     \* last[m][n]: _last_alert_time of manager m, 0 for none
  alerts,   \* alerts[m]: _alerts of manager m
  watcher,  \* the loop of the global _watcher
  told,     \* loops whose stop event is set
  faults    \* checks that ended with an exception

vars == <<clock, high, pc, todo, sensed, using, manager, last, alerts, watcher, told, faults>>
-----------------------------------------------------------------------------
Alert == [name : Rule, at : Nat]

\* No instant is as early as 0: time.time() is far beyond suppress_seconds.
Init ==
  /\ clock = Suppress /\ high = {}
  /\ pc = [c \in Checker |-> IF c = Server THEN "home" ELSE "unused"]
  /\ todo = [c \in Checker |-> {}]
  /\ sensed = [c \in Checker |-> 0]
  /\ using = [c \in Checker |-> NoManager]
  /\ manager = NoManager
  /\ last = [m \in Checker |-> [n \in Rule |-> 0]]
  /\ alerts = [m \in Checker |-> <<>>]
  /\ watcher = NoLoop /\ told = {} /\ faults = 0

\* deque(maxlen = Keep).
Push(s, a) == IF Len(s) < Keep THEN Append(s, a) ELSE Append(Tail(s), a)

Goto(c, where) == pc' = [pc EXCEPT ![c] = where]

\* c's check goes on with the rules in left, or is over: a loop waits again, the
\* endpoint answers.
GoesOn(c, m, left) ==
  /\ todo' = [todo EXCEPT ![c] = left]
  /\ using' = [using EXCEPT ![c] = IF left = {} THEN NoManager ELSE m]
  /\ Goto(c, IF left = {} THEN "home" ELSE "checking")
-----------------------------------------------------------------------------
Mut_ReusesWatcher(l) ==
  /\ pc[Server] = "home" /\ watcher = NoLoop
  /\ pc[l] = "unused" /\ \A k \in 1..(l - 1) : pc[k] # "unused"
  /\ Goto(l, "home")
  /\ watcher' = l
  /\ told' = {}
  /\ UNCHANGED <<clock, high, todo, sensed, using, manager, last, alerts, faults>>

\* start_alert_watcher: a new watcher with an event of its own, and its thread.
\* With a watcher at work it does nothing.
Start(l) ==
  /\ pc[Server] = "home" /\ watcher = NoLoop
  /\ pc[l] = "unused" /\ \A k \in 1..(l - 1) : pc[k] # "unused"
  /\ Goto(l, "home")
  /\ watcher' = l
  /\ UNCHANGED <<clock, high, todo, sensed, using, manager, last, alerts, told, faults>>

\* stop_alert_watcher: sets the event and waits for the thread ...
Stop ==
  /\ pc[Server] = "home" /\ watcher # NoLoop
  /\ told' = told \cup {watcher}
  /\ Goto(Server, "joining")
  /\ UNCHANGED <<clock, high, todo, sensed, using, manager, last, alerts, watcher, faults>>

\* ... until the thread has ended or five seconds are over, whatever it does then.
JoinEnds ==
  /\ pc[Server] = "joining"
  /\ watcher' = NoLoop
  /\ Goto(Server, "home")
  /\ UNCHANGED <<clock, high, todo, sensed, using, manager, last, alerts, told, faults>>

\* The loop's wait comes back with the event set.
End(l) ==
  /\ pc[l] = "home" /\ l \in told
  /\ Goto(l, "ended")
  /\ UNCHANGED <<clock, high, todo, sensed, using, manager, last, alerts, watcher, told, faults>>
-----------------------------------------------------------------------------
\* A check begins: the loop's interval is over and its event not set, or
\* somebody asks for /metrics.  get_alert_manager looks, without a lock, ...
Look(c) ==
  /\ pc[c] = "home" /\ c \notin told
  /\ manager = NoManager
  /\ Goto(c, "making")
  /\ UNCHANGED <<clock, high, todo, sensed, using, manager, last, alerts, watcher, told, faults>>

\* ... makes a manager if it saw none, over one made meanwhile ...
Make(c) ==
  /\ pc[c] = "making"
  /\ manager' = c
  /\ Goto(c, "made")
  /\ UNCHANGED <<clock, high, todo, sensed, using, last, alerts, watcher, told, faults>>

\* ... and returns what the variable holds then.  check_and_alert reads the metrics.
Take(c) ==
  /\ \/ pc[c] = "home" /\ c \notin told /\ manager # NoManager
     \/ pc[c] = "made"
  /\ GoesOn(c, manager, high)
  /\ UNCHANGED <<clock, high, sensed, manager, last, alerts, watcher, told, faults>>

\* _maybe_alert reads the clock before it takes the lock.
Sense(c) ==
  /\ pc[c] = "checking"
  /\ sensed' = [sensed EXCEPT ![c] = clock]
  /\ Goto(c, "deciding")
  /\ UNCHANGED <<clock, high, todo, using, manager, last, alerts, watcher, told, faults>>

\* c has done with rule n, the first of those it still had to look at.
Past(c, n) ==
  /\ pc[c] = "deciding"
  /\ n \in todo[c] /\ \A k \in todo[c] : n <= k
  /\ GoesOn(c, using[c], todo[c] \ {n})
  /\ sensed' = [sensed EXCEPT ![c] = 0]
  /\ UNCHANGED <<clock, high, manager, watcher, told, faults>>

Mut_OneSecondShort(c, n) == sensed[c] < last[using[c]][n] + Suppress - 1

Suppressed(c, n) == sensed[c] - last[using[c]][n] < Suppress

\* Under the lock: rule n was alerted less than suppress_seconds ago, ...
Hush(c, n) ==
  /\ Past(c, n)
  /\ Suppressed(c, n)
  /\ UNCHANGED <<last, alerts>>

\* ... or it is alerted.
Raise(c, n) ==
  /\ Past(c, n)
  /\ ~Suppressed(c, n)
  /\ last' = [last EXCEPT ![using[c]][n] = sensed[c]]
  /\ alerts' = [alerts EXCEPT ![using[c]] = Push(@, [name |-> n, at |-> sensed[c]])]

Mut_EndsWithTheError(c) ==
  /\ pc[c] = "checking" /\ faults < MaxFaults
  /\ faults' = faults + 1
  /\ todo' = [todo EXCEPT ![c] = {}]
  /\ using' = [using EXCEPT ![c] = NoManager]
  /\ Goto(c, IF c = Server THEN "home" ELSE "ended")
  /\ UNCHANGED <<clock, high, sensed, manager, last, alerts, watcher, told>>

\* The check raises: the loop logs it and waits again, the endpoint answers 500.
Fault(c) ==
  /\ pc[c] = "checking" /\ faults < MaxFaults
  /\ faults' = faults + 1
  /\ GoesOn(c, NoManager, {})
  /\ UNCHANGED <<clock, high, sensed, manager, last, alerts, watcher, told>>
-----------------------------------------------------------------------------
\* Metrics move: a total only rises.
Rises(n) ==
  /\ high' = high \cup {n}
  /\ UNCHANGED <<clock, pc, todo, sensed, using, manager, last, alerts, watcher, told, faults>>

Falls(n) ==
  /\ high' = high \ {n}
  /\ UNCHANGED <<clock, pc, todo, sensed, using, manager, last, alerts, watcher, told, faults>>

Tick ==
  /\ clock < MaxTime
  /\ clock' = clock + 1
  /\ UNCHANGED <<high, pc, todo, sensed, using, manager, last, alerts, watcher, told, faults>>

Check(c) ==
  \/ Look(c) \/ Make(c) \/ Take(c) \/ Sense(c)
  \/ \E n \in Rule : Hush(c, n) \/ Raise(c, n)

Next ==
  \/ \E l \in Loop : Start(l) \/ End(l)
  \/ Stop \/ JoinEnds
  \/ \E c \in Checker : Check(c) \/ Fault(c)
  \/ \E n \in Rule : Rises(n)
  \/ \E n \in Rate : Falls(n)
  \/ Tick

\* Threads run, the loop's wait ends, and so does the join, which has a timeout.
\* Nobody need ask for /metrics.
Fairness ==
  /\ WF_vars(JoinEnds) /\ WF_vars(Tick)
  /\ \A l \in Loop : WF_vars(Check(l) \/ End(l))
  /\ WF_vars(pc[Server] # "home" /\ Check(Server))

Spec == Init /\ [][Next]_vars /\ Fairness
-----------------------------------------------------------------------------
\* The shapes of the variables; managers in use exist, and a check has rules to
\* decide on.
TypeOK ==
  /\ clock \in Suppress..MaxTime /\ high \subseteq Rule
  /\ pc \in [Checker -> {"unused", "home", "making", "made", "checking", "deciding", "joining", "ended"}]
  /\ todo \in [Checker -> SUBSET Rule]
  /\ sensed \in [Checker -> 0..clock]
  /\ using \in [Checker -> Checker \cup {NoManager}]
  /\ manager \in Checker \cup {NoManager}
  /\ last \in [Checker -> [Rule -> 0..clock]]
  /\ alerts \in [Checker -> Seq(Alert)]
  /\ watcher \in Loop \cup {NoLoop} /\ told \subseteq Loop /\ faults \in 0..MaxFaults
  /\ \A c \in Checker : pc[c] \in {"checking", "deciding"} => using[c] # NoManager /\ todo[c] # {}
  /\ \A c \in Checker : pc[c] = "made" => manager # NoManager
  /\ pc[Server] = "joining" => watcher # NoLoop

\* "The same alert is not triggered again within suppress_seconds"
\* (alerts.py, AlertManager), by the instants the manager decides on, however
\* the loops and the endpoint overlap.
NotRepeated ==
  \A m \in Checker : \A i, j \in 1..Len(alerts[m]) :
    i < j /\ alerts[m][i].name = alerts[m][j].name
      => alerts[m][j].at - alerts[m][i].at >= Suppress

Alive(l) == pc[l] \notin {"unused", "ended"}

\* At most one loop runs that was not told to stop, the watcher's, also when a
\* join timed out and the watcher was started again (stop_alert_watcher).
OneLoop == \A l \in Loop : Alive(l) /\ l \notin told => l = watcher

\* While a metric stays high and a watcher is there, the last alert for it does
\* not grow older than suppress_seconds once time stands still: nothing ends
\* the loop but its event (AlertWatcher._run_loop).
HighIsAlerted ==
  \A n \in Rule :
    <>[](n \in high /\ watcher # NoLoop)
      => <>[](\E m \in Checker : clock - last[m][n] < Suppress)
=============================================================================
