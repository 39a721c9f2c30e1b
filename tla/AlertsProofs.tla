---------------------------- MODULE AlertsProofs ----------------------------
(***************************************************************************)
(* Proofs about module Alerts, for every number of watchers, rules, every  *)
(* suppression and every length of the history.                            *)
(***************************************************************************)
EXTENDS Alerts, TLAPS

\* The stop waits for a watcher it has told.
JoinInv == pc[Server] = "joining" => watcher \in told

\* The instant kept of a rule is that of its newest alert, or newer.
LastInv ==
  \A m \in Checker : \A i \in 1..Len(alerts[m]) :
    alerts[m][i].at <= last[m][alerts[m][i].name]

\* The inductive invariant.
IInv == TypeOK /\ JoinInv /\ LastInv /\ NotRepeated /\ OneLoop

\* The variables no check and no watcher's start or stop concerns.
book == <<last, alerts>>
-----------------------------------------------------------------------------
LEMMA CheckerFacts ==
  /\ Server \in Checker /\ Loop \subseteq Checker
  /\ NoManager \notin Checker /\ NoLoop \notin Loop /\ Server \notin Loop
  /\ Suppress \in Nat /\ Suppress > 0 /\ MaxTime \in Nat /\ MaxTime >= Suppress
  /\ Keep \in Nat /\ Keep > 0 /\ MaxFaults \in Nat
  /\ Checker \subseteq Nat /\ Rule \subseteq Nat
  BY AlertsAssumption DEF Checker, Loop, Server, NoLoop, Rule

\* A history with a new alert: the alert is its last, those before it were in
\* the history, in the same order.
LEMMA PushFacts ==
  ASSUME NEW s \in Seq(Alert), NEW a \in Alert
  PROVE  /\ Push(s, a) \in Seq(Alert)
         /\ \E d \in {0, 1} : \A i \in 1..Len(Push(s, a)) :
              IF i = Len(Push(s, a)) THEN Push(s, a)[i] = a
              ELSE /\ i + d \in 1..Len(s) /\ i < Len(Push(s, a))
                   /\ Push(s, a)[i] = s[i + d]
<1>1. CASE Len(s) < Keep
  <2>1. Push(s, a) = Append(s, a)
    BY <1>1 DEF Push
  <2>2. /\ Append(s, a) \in Seq(Alert) /\ Len(Append(s, a)) = Len(s) + 1
        /\ Append(s, a)[Len(s) + 1] = a
        /\ \A i \in 1..Len(s) : Append(s, a)[i] = s[i]
    OBVIOUS
  <2>3. \A i \in 1..Len(Append(s, a)) :
          IF i = Len(Append(s, a)) THEN Append(s, a)[i] = a
          ELSE /\ i + 0 \in 1..Len(s) /\ i < Len(Append(s, a))
               /\ Append(s, a)[i] = s[i + 0]
    BY <2>2
  <2> QED
    BY <2>1, <2>2, <2>3
<1>2. CASE ~(Len(s) < Keep)
  <2>1. Len(s) \in Nat /\ Len(s) > 0 /\ s # <<>>
    BY <1>2, CheckerFacts
  <2>2. Push(s, a) = Append(Tail(s), a)
    BY <1>2 DEF Push
  <2>3. /\ Tail(s) \in Seq(Alert) /\ Len(Tail(s)) = Len(s) - 1
        /\ \A i \in 1..(Len(s) - 1) : Tail(s)[i] = s[i + 1]
    BY <2>1
  <2>4. /\ Append(Tail(s), a) \in Seq(Alert) /\ Len(Append(Tail(s), a)) = Len(s)
        /\ Append(Tail(s), a)[Len(s)] = a
        /\ \A i \in 1..(Len(s) - 1) : Append(Tail(s), a)[i] = Tail(s)[i]
    BY <2>1, <2>3
  <2>5. \A i \in 1..Len(Append(Tail(s), a)) :
          IF i = Len(Append(Tail(s), a)) THEN Append(Tail(s), a)[i] = a
          ELSE /\ i + 1 \in 1..Len(s) /\ i < Len(Append(Tail(s), a))
               /\ Append(Tail(s), a)[i] = s[i + 1]
    <3> SUFFICES ASSUME NEW i \in 1..Len(s), i # Len(s)
                 PROVE  /\ i + 1 \in 1..Len(s) /\ i < Len(s)
                        /\ Append(Tail(s), a)[i] = s[i + 1]
      BY <2>4
    <3>1. i \in 1..(Len(s) - 1)
      BY <2>1
    <3>2. Append(Tail(s), a)[i] = Tail(s)[i] /\ Tail(s)[i] = s[i + 1]
      BY <2>3, <2>4, <3>1
    <3> QED
      BY <2>1, <3>1, <3>2
  <2> QED
    BY <2>2, <2>4, <2>5
<1> QED
  BY <1>1, <1>2

\* What the two invariants about loops need of a step of thread c that starts
\* no watcher.
LEMMA LoopsStay ==
  ASSUME OneLoop, JoinInv,
         \A l \in Loop : Alive(l)' => Alive(l),
         pc'[Server] = "joining" => pc[Server] = "joining",
         UNCHANGED <<watcher, told>>
  PROVE  OneLoop' /\ JoinInv'
  BY DEF OneLoop, JoinInv

\* What GoesOn does to the thread's own variables.
LEMMA GoesOnFacts ==
  ASSUME TypeOK, NEW c \in Checker, NEW m \in Checker \cup {NoManager}, NEW left \in SUBSET Rule,
         left # {} => m # NoManager,
         pc[c] \notin {"unused", "ended"},
         GoesOn(c, m, left)
  PROVE  /\ pc' \in [Checker -> {"unused", "home", "making", "made", "checking", "deciding",
                                 "joining", "ended"}]
         /\ todo' \in [Checker -> SUBSET Rule]
         /\ using' \in [Checker -> Checker \cup {NoManager}]
         /\ \A d \in Checker : pc'[d] \in {"checking", "deciding"} =>
              using'[d] # NoManager /\ todo'[d] # {}
         /\ \A d \in Checker : pc'[d] = "made" => pc[d] = "made"
         /\ pc'[Server] = "joining" => pc[Server] = "joining"
         /\ \A l \in Loop : Alive(l)' => Alive(l)
<1>1. /\ todo' = [todo EXCEPT ![c] = left]
      /\ using' = [using EXCEPT ![c] = IF left = {} THEN NoManager ELSE m]
      /\ pc' = [pc EXCEPT ![c] = IF left = {} THEN "home" ELSE "checking"]
  BY DEF GoesOn, Goto
<1>2. \A d \in Checker :
        /\ todo'[d] = IF d = c THEN left ELSE todo[d]
        /\ using'[d] = IF d = c THEN (IF left = {} THEN NoManager ELSE m) ELSE using[d]
        /\ pc'[d] = IF d = c THEN (IF left = {} THEN "home" ELSE "checking") ELSE pc[d]
  BY <1>1 DEF TypeOK
<1>3. /\ pc' \in [Checker -> {"unused", "home", "making", "made", "checking", "deciding",
                              "joining", "ended"}]
      /\ todo' \in [Checker -> SUBSET Rule]
      /\ using' \in [Checker -> Checker \cup {NoManager}]
  BY <1>1 DEF TypeOK
<1>4. \A d \in Checker : pc'[d] \in {"checking", "deciding"} =>
        using'[d] # NoManager /\ todo'[d] # {}
  BY <1>2 DEF TypeOK
<1> QED
  BY <1>2, <1>3, <1>4, CheckerFacts DEF Alive

\* What Goto does to the thread's own variables.
LEMMA GotoFacts ==
  ASSUME TypeOK, NEW c \in Checker, NEW where \in {"home", "making", "made", "deciding", "joining", "ended"},
         Goto(c, where)
  PROVE  /\ pc' \in [Checker -> {"unused", "home", "making", "made", "checking", "deciding",
                                 "joining", "ended"}]
         /\ \A d \in Checker : pc'[d] = IF d = c THEN where ELSE pc[d]
  BY DEF TypeOK, Goto
-----------------------------------------------------------------------------
LEMMA InitInv == Init => IInv
<1> SUFFICES ASSUME Init PROVE IInv
  OBVIOUS
<1>1. clock \in Suppress..MaxTime /\ faults \in 0..MaxFaults /\ watcher = NoLoop
  BY CheckerFacts DEF Init
<1>2. \A c \in Checker : pc[c] \in {"home", "unused"}
  BY DEF Init
<1>3. /\ last \in [Checker -> [Rule -> 0..clock]] /\ alerts \in [Checker -> Seq(Alert)]
      /\ sensed \in [Checker -> 0..clock]
  <2>1. 0 \in 0..clock
    BY <1>1, CheckerFacts
  <2> QED
    BY <2>1 DEF Init
<1>4. /\ pc \in [Checker -> {"unused", "home", "making", "made", "checking", "deciding",
                              "joining", "ended"}]
      /\ todo \in [Checker -> SUBSET Rule] /\ using \in [Checker -> Checker \cup {NoManager}]
      /\ high \subseteq Rule /\ told \subseteq Loop /\ manager = NoManager
  BY DEF Init
<1>5. TypeOK
  BY <1>1, <1>2, <1>3, <1>4, CheckerFacts DEF TypeOK
<1>6. \A m \in Checker : Len(alerts[m]) = 0
  BY DEF Init
<1>7. LastInv /\ NotRepeated
  BY <1>6 DEF LastInv, NotRepeated
<1>8. \A l \in Loop : pc[l] = "unused"
  BY CheckerFacts DEF Init
<1> QED
  BY <1>2, <1>5, <1>7, <1>8, CheckerFacts DEF IInv, JoinInv, OneLoop, Alive

LEMMA BookStays ==
  ASSUME LastInv, NotRepeated, UNCHANGED book
  PROVE  LastInv' /\ NotRepeated'
  BY DEF LastInv, NotRepeated, book

\* start_alert_watcher: every loop still alive was told to stop.
LEMMA StartStep ==
  ASSUME IInv, NEW l \in Loop, Start(l)
  PROVE  IInv'
<1>1. /\ pc[Server] = "home" /\ watcher = NoLoop /\ watcher' = l /\ Goto(l, "home")
      /\ UNCHANGED <<clock, high, todo, sensed, using, manager, last, alerts, told, faults>>
  BY DEF Start
<1>2. /\ pc' \in [Checker -> {"unused", "home", "making", "made", "checking", "deciding",
                               "joining", "ended"}]
      /\ \A d \in Checker : pc'[d] = IF d = l THEN "home" ELSE pc[d]
  BY <1>1, GotoFacts, CheckerFacts DEF IInv
<1>3. TypeOK'
  BY <1>1, <1>2, CheckerFacts DEF IInv, TypeOK
<1>4. OneLoop'
  BY <1>1, <1>2, CheckerFacts DEF IInv, OneLoop, Alive
<1>5. JoinInv'
  BY <1>1, <1>2, CheckerFacts DEF IInv, JoinInv
<1> QED
  BY <1>1, <1>3, <1>4, <1>5, BookStays DEF IInv, book

\* stop_alert_watcher.
LEMMA StopStep ==
  ASSUME IInv, Stop \/ JoinEnds
  PROVE  IInv'
<1>1. CASE Stop
  <2>1. /\ watcher # NoLoop /\ told' = told \cup {watcher} /\ Goto(Server, "joining")
        /\ UNCHANGED <<clock, high, todo, sensed, using, manager, last, alerts, watcher, faults>>
    BY <1>1 DEF Stop
  <2>2. /\ pc' \in [Checker -> {"unused", "home", "making", "made", "checking", "deciding",
                                 "joining", "ended"}]
        /\ \A d \in Checker : pc'[d] = IF d = Server THEN "joining" ELSE pc[d]
    BY <2>1, GotoFacts, CheckerFacts DEF IInv
  <2>3. TypeOK'
    BY <2>1, <2>2, CheckerFacts DEF IInv, TypeOK
  <2>4. OneLoop' /\ JoinInv'
    BY <2>1, <2>2, CheckerFacts DEF IInv, OneLoop, JoinInv, Alive
  <2> QED
    BY <2>1, <2>3, <2>4, BookStays DEF IInv, book
<1>2. CASE JoinEnds
  <2>1. /\ pc[Server] = "joining" /\ watcher' = NoLoop /\ Goto(Server, "home")
        /\ UNCHANGED <<clock, high, todo, sensed, using, manager, last, alerts, told, faults>>
    BY <1>2 DEF JoinEnds
  <2>2. /\ pc' \in [Checker -> {"unused", "home", "making", "made", "checking", "deciding",
                                 "joining", "ended"}]
        /\ \A d \in Checker : pc'[d] = IF d = Server THEN "home" ELSE pc[d]
    BY <2>1, GotoFacts, CheckerFacts DEF IInv
  <2>3. TypeOK'
    BY <2>1, <2>2, CheckerFacts DEF IInv, TypeOK
  <2>4. OneLoop' /\ JoinInv'
    BY <2>1, <2>2, CheckerFacts DEF IInv, OneLoop, JoinInv, Alive
  <2> QED
    BY <2>1, <2>3, <2>4, BookStays DEF IInv, book
<1> QED
  BY <1>1, <1>2

LEMMA EndStep ==
  ASSUME IInv, NEW l \in Loop, End(l)
  PROVE  IInv'
<1>1. /\ Goto(l, "ended")
      /\ UNCHANGED <<clock, high, todo, sensed, using, manager, last, alerts, watcher, told, faults>>
  BY DEF End
<1>2. /\ pc' \in [Checker -> {"unused", "home", "making", "made", "checking", "deciding",
                               "joining", "ended"}]
      /\ \A d \in Checker : pc'[d] = IF d = l THEN "ended" ELSE pc[d]
  BY <1>1, GotoFacts, CheckerFacts DEF IInv
<1>3. TypeOK'
  BY <1>1, <1>2, CheckerFacts DEF IInv, TypeOK
<1>4. OneLoop' /\ JoinInv'
  BY <1>1, <1>2, CheckerFacts, LoopsStay DEF IInv, Alive
<1> QED
  BY <1>1, <1>3, <1>4, BookStays DEF IInv, book

\* get_alert_manager up to the manager it makes, and the reading of the clock.
LEMMA SearchStep ==
  ASSUME IInv, NEW c \in Checker, Look(c) \/ Make(c) \/ Sense(c)
  PROVE  IInv'
<1>1. CASE Look(c)
  <2>1. /\ pc[c] = "home" /\ Goto(c, "making")
        /\ UNCHANGED <<clock, high, todo, sensed, using, manager, last, alerts, watcher, told, faults>>
    BY <1>1 DEF Look
  <2>2. /\ pc' \in [Checker -> {"unused", "home", "making", "made", "checking", "deciding",
                                 "joining", "ended"}]
        /\ \A d \in Checker : pc'[d] = IF d = c THEN "making" ELSE pc[d]
    BY <2>1, GotoFacts DEF IInv
  <2>3. TypeOK'
    BY <2>1, <2>2, CheckerFacts DEF IInv, TypeOK
  <2>4. OneLoop' /\ JoinInv'
    BY <2>1, <2>2, CheckerFacts, LoopsStay DEF IInv, Alive
  <2> QED
    BY <2>1, <2>3, <2>4, BookStays DEF IInv, book
<1>2. CASE Make(c)
  <2>1. /\ pc[c] = "making" /\ manager' = c /\ Goto(c, "made")
        /\ UNCHANGED <<clock, high, todo, sensed, using, last, alerts, watcher, told, faults>>
    BY <1>2 DEF Make
  <2>2. /\ pc' \in [Checker -> {"unused", "home", "making", "made", "checking", "deciding",
                                 "joining", "ended"}]
        /\ \A d \in Checker : pc'[d] = IF d = c THEN "made" ELSE pc[d]
    BY <2>1, GotoFacts DEF IInv
  <2>3. TypeOK'
    BY <2>1, <2>2, CheckerFacts DEF IInv, TypeOK
  <2>4. OneLoop' /\ JoinInv'
    BY <2>1, <2>2, CheckerFacts, LoopsStay DEF IInv, Alive
  <2> QED
    BY <2>1, <2>3, <2>4, BookStays DEF IInv, book
<1>3. CASE Sense(c)
  <2>1. /\ pc[c] = "checking" /\ sensed' = [sensed EXCEPT ![c] = clock] /\ Goto(c, "deciding")
        /\ UNCHANGED <<clock, high, todo, using, manager, last, alerts, watcher, told, faults>>
    BY <1>3 DEF Sense
  <2>2. /\ pc' \in [Checker -> {"unused", "home", "making", "made", "checking", "deciding",
                                 "joining", "ended"}]
        /\ \A d \in Checker : pc'[d] = IF d = c THEN "deciding" ELSE pc[d]
    BY <2>1, GotoFacts DEF IInv
  <2>3. sensed' \in [Checker -> 0..clock]
    <3>1. clock \in 0..clock
      BY CheckerFacts DEF IInv, TypeOK
    <3> QED
      BY <2>1, <3>1 DEF IInv, TypeOK
  <2>4. TypeOK'
    BY <2>1, <2>2, <2>3, CheckerFacts DEF IInv, TypeOK
  <2>5. OneLoop' /\ JoinInv'
    BY <2>1, <2>2, CheckerFacts, LoopsStay DEF IInv, Alive
  <2> QED
    BY <2>1, <2>4, <2>5, BookStays DEF IInv, book
<1> QED
  BY <1>1, <1>2, <1>3

\* A check takes its manager, or ends with an exception.
LEMMA TakeStep ==
  ASSUME IInv, NEW c \in Checker, Take(c) \/ Fault(c)
  PROVE  IInv'
<1>1. PICK m \in Checker \cup {NoManager}, left \in SUBSET Rule :
        /\ left # {} => m # NoManager
        /\ GoesOn(c, m, left)
        /\ pc[c] \notin {"unused", "ended"}
        /\ faults' \in 0..MaxFaults
        /\ UNCHANGED <<clock, high, sensed, manager, last, alerts, watcher, told>>
  <2>1. CASE Take(c)
    <3>1. /\ manager \in Checker /\ high \in SUBSET Rule
          /\ faults \in 0..MaxFaults
      BY <2>1 DEF Take, IInv, TypeOK
    <3> QED
      BY <2>1, <3>1, CheckerFacts DEF Take
  <2>2. CASE Fault(c)
    <3>1. faults + 1 \in 0..MaxFaults
      BY <2>2, CheckerFacts DEF Fault, IInv, TypeOK
    <3> QED
      BY <2>2, <3>1 DEF Fault
  <2> QED
    BY <2>1, <2>2
<1>2. /\ pc' \in [Checker -> {"unused", "home", "making", "made", "checking", "deciding",
                               "joining", "ended"}]
      /\ todo' \in [Checker -> SUBSET Rule]
      /\ using' \in [Checker -> Checker \cup {NoManager}]
      /\ \A d \in Checker : pc'[d] \in {"checking", "deciding"} =>
           using'[d] # NoManager /\ todo'[d] # {}
      /\ \A d \in Checker : pc'[d] = "made" => pc[d] = "made"
      /\ pc'[Server] = "joining" => pc[Server] = "joining"
      /\ \A l \in Loop : Alive(l)' => Alive(l)
  BY <1>1, GoesOnFacts DEF IInv
<1>3. TypeOK'
  BY <1>1, <1>2, CheckerFacts DEF IInv, TypeOK
<1>4. OneLoop' /\ JoinInv'
  BY <1>1, <1>2, LoopsStay DEF IInv
<1> QED
  BY <1>1, <1>3, <1>4, BookStays DEF IInv, book

\* What Hush and Raise have in common.
LEMMA PastFacts ==
  ASSUME IInv, NEW c \in Checker, NEW n \in Rule, Past(c, n)
  PROVE  /\ pc[c] = "deciding" /\ using[c] \in Checker
         /\ sensed[c] \in 0..clock /\ sensed' \in [Checker -> 0..clock]
         /\ pc' \in [Checker -> {"unused", "home", "making", "made", "checking", "deciding",
                                 "joining", "ended"}]
         /\ todo' \in [Checker -> SUBSET Rule]
         /\ using' \in [Checker -> Checker \cup {NoManager}]
         /\ \A d \in Checker : pc'[d] \in {"checking", "deciding"} =>
              using'[d] # NoManager /\ todo'[d] # {}
         /\ \A d \in Checker : pc'[d] = "made" => pc[d] = "made"
         /\ OneLoop' /\ JoinInv'
         /\ UNCHANGED <<clock, high, manager, watcher, told, faults>>
<1>1. /\ pc[c] = "deciding" /\ GoesOn(c, using[c], todo[c] \ {n})
      /\ sensed' = [sensed EXCEPT ![c] = 0]
      /\ UNCHANGED <<clock, high, manager, watcher, told, faults>>
  BY DEF Past
<1>2. using[c] \in Checker
  BY <1>1 DEF IInv, TypeOK
<1>3. todo[c] \ {n} \in SUBSET Rule
  BY DEF IInv, TypeOK
<1>4. using[c] \in Checker \cup {NoManager} /\ using[c] # NoManager
  BY <1>2, CheckerFacts
<1>5. TypeOK /\ pc[c] \notin {"unused", "ended"}
  BY <1>1 DEF IInv
<1>6. /\ pc' \in [Checker -> {"unused", "home", "making", "made", "checking", "deciding",
                               "joining", "ended"}]
      /\ todo' \in [Checker -> SUBSET Rule]
      /\ using' \in [Checker -> Checker \cup {NoManager}]
      /\ \A d \in Checker : pc'[d] \in {"checking", "deciding"} =>
           using'[d] # NoManager /\ todo'[d] # {}
      /\ \A d \in Checker : pc'[d] = "made" => pc[d] = "made"
      /\ pc'[Server] = "joining" => pc[Server] = "joining"
      /\ \A l \in Loop : Alive(l)' => Alive(l)
  BY <1>1, <1>3, <1>4, <1>5, GoesOnFacts
<1>7. OneLoop' /\ JoinInv'
  BY <1>1, <1>6, LoopsStay DEF IInv
<1>8. clock \in Nat /\ sensed[c] \in 0..clock
  BY CheckerFacts DEF IInv, TypeOK
<1>9. sensed' \in [Checker -> 0..clock]
  <2>1. 0 \in 0..clock
    BY <1>8
  <2> QED
    BY <1>1, <2>1 DEF IInv, TypeOK
<1> QED
  BY <1>1, <1>2, <1>6, <1>7, <1>8, <1>9

\* What is left of type correctness after a decision.
LEMMA PastType ==
  ASSUME IInv, NEW c \in Checker, NEW n \in Rule, Past(c, n),
         last' \in [Checker -> [Rule -> 0..clock]], alerts' \in [Checker -> Seq(Alert)]
  PROVE  TypeOK'
<1>1. /\ sensed' \in [Checker -> 0..clock]
      /\ pc' \in [Checker -> {"unused", "home", "making", "made", "checking", "deciding",
                              "joining", "ended"}]
      /\ todo' \in [Checker -> SUBSET Rule]
      /\ using' \in [Checker -> Checker \cup {NoManager}]
      /\ \A d \in Checker : pc'[d] \in {"checking", "deciding"} =>
           using'[d] # NoManager /\ todo'[d] # {}
      /\ \A d \in Checker : pc'[d] = "made" => pc[d] = "made"
  BY PastFacts
<1>2. clock' = clock /\ high' = high /\ manager' = manager /\ watcher' = watcher
      /\ told' = told /\ faults' = faults
  BY PastFacts
<1>3. pc'[Server] = "joining" => pc[Server] = "joining"
  <2>1. todo[c] \ {n} \in SUBSET Rule /\ GoesOn(c, using[c], todo[c] \ {n}) /\ pc[c] = "deciding"
    BY DEF Past, IInv, TypeOK
  <2>2. using[c] \in Checker \cup {NoManager} /\ using[c] # NoManager /\ TypeOK
    BY PastFacts, CheckerFacts DEF IInv
  <2> QED
    BY <2>1, <2>2, GoesOnFacts
<1>4. \A d \in Checker : pc'[d] = "made" => manager' # NoManager
  BY <1>1, <1>2 DEF IInv, TypeOK
<1>5. pc'[Server] = "joining" => watcher' # NoLoop
  BY <1>2, <1>3 DEF IInv, TypeOK
<1>6. /\ clock \in Suppress..MaxTime /\ high \subseteq Rule /\ manager \in Checker \cup {NoManager}
      /\ watcher \in Loop \cup {NoLoop} /\ told \subseteq Loop /\ faults \in 0..MaxFaults
  BY DEF IInv, TypeOK
<1> QED
  BY <1>1, <1>2, <1>4, <1>5, <1>6 DEF TypeOK

LEMMA HushStep ==
  ASSUME IInv, NEW c \in Checker, NEW n \in Rule, Hush(c, n)
  PROVE  IInv'
<1>1. Past(c, n) /\ UNCHANGED <<last, alerts>>
  BY DEF Hush
<1>2. last \in [Checker -> [Rule -> 0..clock]] /\ alerts \in [Checker -> Seq(Alert)]
  BY DEF IInv, TypeOK
<1>3. TypeOK'
  BY <1>1, <1>2, PastType
<1>4. LastInv' /\ NotRepeated'
  BY <1>1, BookStays DEF IInv, book
<1>5. OneLoop' /\ JoinInv'
  BY <1>1, PastFacts
<1> QED
  BY <1>3, <1>4, <1>5 DEF IInv

\* The new alert comes suppress_seconds after the last one of its rule.
LEMMA RaiseStep ==
  ASSUME IInv, NEW c \in Checker, NEW n \in Rule, Raise(c, n)
  PROVE  IInv'
<1> DEFINE m == using[c]
           t == sensed[c]
           a == [name |-> n, at |-> t]
<1>1. /\ Past(c, n) /\ ~(t - last[m][n] < Suppress)
      /\ last' = [last EXCEPT ![m][n] = t]
      /\ alerts' = [alerts EXCEPT ![m] = Push(alerts[m], a)]
  BY DEF Raise, Suppressed
<1>2. m \in Checker /\ t \in 0..clock /\ clock \in Nat /\ t \in Nat
  <2>1. using[c] \in Checker /\ sensed[c] \in 0..clock
    BY <1>1, PastFacts
  <2>2. clock \in Nat
    BY CheckerFacts DEF IInv, TypeOK
  <2> QED
    BY <2>1, <2>2
<1>3. a \in Alert /\ a.name = n /\ a.at = t
  BY <1>2 DEF Alert
<1>4. alerts[m] \in Seq(Alert) /\ last[m] \in [Rule -> 0..clock]
  BY <1>2 DEF IInv, TypeOK
<1> HIDE DEF m, t, a
<1>5. /\ last' \in [Checker -> [Rule -> 0..clock]]
      /\ \A k \in Checker, r \in Rule : last'[k][r] = IF k = m /\ r = n THEN t ELSE last[k][r]
  BY <1>1, <1>2 DEF IInv, TypeOK
<1>6. /\ alerts' \in [Checker -> Seq(Alert)]
      /\ \A k \in Checker : alerts'[k] = IF k = m THEN Push(alerts[m], a) ELSE alerts[k]
  BY <1>1, <1>2, <1>3, <1>4, PushFacts DEF IInv, TypeOK
<1>7. TypeOK'
  BY <1>1, <1>5, <1>6, PastType
<1>8. PICK d \in {0, 1} : \A i \in 1..Len(alerts'[m]) :
        IF i = Len(alerts'[m]) THEN alerts'[m][i] = a
        ELSE /\ i + d \in 1..Len(alerts[m]) /\ i < Len(alerts'[m])
             /\ alerts'[m][i] = alerts[m][i + d]
  <2>1. alerts'[m] = Push(alerts[m], a)
    BY <1>2, <1>6
  <2>2. \E d \in {0, 1} : \A i \in 1..Len(Push(alerts[m], a)) :
              IF i = Len(Push(alerts[m], a)) THEN Push(alerts[m], a)[i] = a
              ELSE /\ i + d \in 1..Len(alerts[m]) /\ i < Len(Push(alerts[m], a))
                   /\ Push(alerts[m], a)[i] = alerts[m][i + d]
    BY <1>3, <1>4, PushFacts
  <2> QED
    BY <2>1, <2>2
<1>9. \A i \in 1..Len(alerts[m]) :
        /\ alerts[m][i].name \in Rule /\ alerts[m][i].at \in Nat
        /\ alerts[m][i].at <= last[m][alerts[m][i].name]
  <2>1. \A i \in 1..Len(alerts[m]) : alerts[m][i] \in Alert
    BY <1>4
  <2>2. \A i \in 1..Len(alerts[m]) : alerts[m][i].at <= last[m][alerts[m][i].name]
    BY <1>2 DEF IInv, LastInv
  <2> QED
    BY <2>1, <2>2 DEF Alert
<1>10. last[m][n] \in Nat /\ Suppress \in Nat /\ Suppress > 0 /\ t >= last[m][n] + Suppress
  <2>1. last[m][n] \in 0..clock
    BY <1>4
  <2> QED
    BY <1>1, <1>2, <2>1, CheckerFacts
<1>11. LastInv'
  <2> SUFFICES ASSUME NEW k \in Checker, NEW i \in 1..Len(alerts'[k])
               PROVE  alerts'[k][i].at <= last'[k][alerts'[k][i].name]
    BY DEF LastInv
  <2>1. CASE k # m
    <3>1. alerts'[k] = alerts[k] /\ alerts[k] \in Seq(Alert)
      BY <1>6, <2>1 DEF IInv, TypeOK
    <3>2. alerts[k][i] \in Alert
      BY <3>1
    <3>3. alerts[k][i].name \in Rule
      BY <3>2 DEF Alert
    <3>4. last'[k][alerts[k][i].name] = last[k][alerts[k][i].name]
      BY <1>5, <2>1, <3>3
    <3> QED
      BY <3>1, <3>4 DEF IInv, LastInv
  <2>2. CASE k = m /\ i = Len(alerts'[m])
    <3>1. alerts'[k][i] = a
      BY <1>8, <2>2
    <3>2. last'[k][n] = t
      BY <1>2, <1>5, <2>2
    <3>3. t <= t
      BY <1>2
    <3> QED
      BY <1>3, <3>1, <3>2, <3>3
  <2>3. CASE k = m /\ i # Len(alerts'[m])
    <3>1. i + d \in 1..Len(alerts[m]) /\ alerts'[m][i] = alerts[m][i + d]
      BY <1>8, <2>3
    <3>2. /\ alerts'[m][i].name \in Rule /\ alerts'[m][i].at \in Nat
          /\ alerts'[m][i].at <= last[m][alerts'[m][i].name]
      BY <1>9, <3>1
    <3>3. CASE alerts'[m][i].name = n
      BY <1>2, <1>5, <1>10, <2>3, <3>2, <3>3
    <3>4. CASE alerts'[m][i].name # n
      BY <1>2, <1>5, <2>3, <3>2, <3>4
    <3> QED
      BY <3>3, <3>4
  <2> QED
    BY <2>1, <2>2, <2>3
<1>12. NotRepeated'
  <2> SUFFICES ASSUME NEW k \in Checker, NEW i \in 1..Len(alerts'[k]), NEW j \in 1..Len(alerts'[k]),
                      i < j, alerts'[k][i].name = alerts'[k][j].name
               PROVE  alerts'[k][j].at - alerts'[k][i].at >= Suppress
    BY DEF NotRepeated
  <2>1. CASE k # m
    BY <1>6, <2>1 DEF IInv, NotRepeated
  <2>2. CASE k = m
    <3>1. i \in Nat /\ j \in Nat /\ Len(alerts'[m]) \in Nat /\ d \in Nat
      BY <1>2, <1>6, <2>2
    <3>2. i # Len(alerts'[m])
      BY <2>2, <3>1
    <3>3. i + d \in 1..Len(alerts[m]) /\ alerts'[m][i] = alerts[m][i + d]
      BY <1>8, <2>2, <3>2
    <3>4. CASE j = Len(alerts'[m])
      <4>1. alerts'[m][j] = a
        BY <1>8, <2>2, <3>4
      <4>2. alerts'[m][i].at \in Nat /\ alerts'[m][i].at <= last[m][n]
        BY <1>3, <1>9, <2>2, <3>3, <4>1
      <4> QED
        BY <1>2, <1>3, <1>10, <2>2, <4>1, <4>2
    <3>5. CASE j # Len(alerts'[m])
      <4>1. j + d \in 1..Len(alerts[m]) /\ alerts'[m][j] = alerts[m][j + d]
        BY <1>8, <2>2, <3>5
      <4>2. i + d < j + d
        BY <3>1
      <4> QED
        BY <1>2, <2>2, <3>3, <4>1, <4>2 DEF IInv, NotRepeated
    <3> QED
      BY <3>4, <3>5
  <2> QED
    BY <2>1, <2>2
<1> QED
  <2>1. OneLoop' /\ JoinInv'
    BY <1>1, PastFacts
  <2> QED
    BY <1>7, <1>11, <1>12, <2>1 DEF IInv

\* Metrics and the clock.
LEMMA WorldStep ==
  ASSUME IInv, Tick \/ \E n \in Rule : Rises(n) \/ Falls(n)
  PROVE  IInv'
<1>1. /\ high' \subseteq Rule /\ clock' \in Suppress..MaxTime /\ clock' >= clock /\ clock \in Nat
      /\ UNCHANGED <<pc, todo, sensed, using, manager, last, alerts, watcher, told, faults>>
  <2>1. high \subseteq Rule /\ clock \in Suppress..MaxTime /\ clock \in Nat
    BY CheckerFacts DEF IInv, TypeOK
  <2>2. CASE Tick
    BY <2>1, <2>2, CheckerFacts DEF Tick
  <2>3. CASE \E n \in Rule : Rises(n) \/ Falls(n)
    BY <2>1, <2>3 DEF Rises, Falls
  <2> QED
    BY <2>2, <2>3
<1>2. 0..clock \subseteq 0..clock'
  BY <1>1, CheckerFacts
<1>3. sensed' \in [Checker -> 0..clock'] /\ last' \in [Checker -> [Rule -> 0..clock']]
  BY <1>1, <1>2 DEF IInv, TypeOK
<1>4. TypeOK'
  BY <1>1, <1>3 DEF IInv, TypeOK
<1>5. OneLoop' /\ JoinInv'
  BY <1>1, LoopsStay DEF IInv, Alive
<1> QED
  BY <1>1, <1>4, <1>5, BookStays DEF IInv, book

LEMMA NextInv == IInv /\ [Next]_vars => IInv'
<1> SUFFICES ASSUME IInv, [Next]_vars PROVE IInv'
  OBVIOUS
<1>1. ASSUME NEW l \in Loop, Start(l) PROVE IInv'
  BY <1>1, StartStep
<1>2. ASSUME NEW l \in Loop, End(l) PROVE IInv'
  BY <1>2, EndStep
<1>3. CASE Stop \/ JoinEnds
  BY <1>3, StopStep
<1>4. ASSUME NEW c \in Checker, Check(c) \/ Fault(c) PROVE IInv'
  <2>1. CASE Look(c) \/ Make(c) \/ Sense(c)
    BY <2>1, SearchStep
  <2>2. CASE Take(c) \/ Fault(c)
    BY <2>2, TakeStep
  <2>3. ASSUME NEW n \in Rule, Hush(c, n) PROVE IInv'
    BY <2>3, HushStep
  <2>4. ASSUME NEW n \in Rule, Raise(c, n) PROVE IInv'
    BY <2>4, RaiseStep
  <2> QED
    BY <1>4, <2>1, <2>2, <2>3, <2>4 DEF Check
<1>5. CASE Tick \/ \E n \in Rule : Rises(n) \/ Falls(n)
  BY <1>5, WorldStep
<1>6. CASE UNCHANGED vars
  <2>1. TypeOK'
    BY <1>6 DEF IInv, TypeOK, vars
  <2>2. OneLoop' /\ JoinInv'
    BY <1>6, LoopsStay DEF IInv, Alive, vars
  <2> QED
    BY <1>6, <2>1, <2>2, BookStays DEF IInv, book, vars
<1>7. Rate \subseteq Rule
  BY AlertsAssumption
<1> QED
  BY <1>1, <1>2, <1>3, <1>4, <1>5, <1>6, <1>7 DEF Next
-----------------------------------------------------------------------------
\* The invariant that carries the results below holds in every reachable state
\* of Alerts (AlertManager and AlertWatcher).
THEOREM InductiveInvariant == Spec => []IInv
  BY InitInv, NextInv, PTL DEF Spec

\* The variables keep their shapes; a check has a manager and rules to decide
\* on (AlertManager.check_and_alert).
THEOREM TypeCorrect == Spec => []TypeOK
<1>1. IInv => TypeOK
  BY DEF IInv
<1> QED
  BY <1>1, InductiveInvariant, PTL

\* A manager never repeats an alert within suppress_seconds, however many loops
\* and requests check at once (AlertManager._maybe_alert).
THEOREM NeverRepeated == Spec => []NotRepeated
<1>1. IInv => NotRepeated
  BY DEF IInv
<1> QED
  BY <1>1, InductiveInvariant, PTL

\* However often a watcher is stopped and started, and however many joins time
\* out, one loop at most has not been told to stop (stop_alert_watcher).
THEOREM OneLoopOnly == Spec => []OneLoop
<1>1. IInv => OneLoop
  BY DEF IInv
<1> QED
  BY <1>1, InductiveInvariant, PTL
=============================================================================
