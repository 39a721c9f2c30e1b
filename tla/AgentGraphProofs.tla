-------------------------- MODULE AgentGraphProofs --------------------------
(***************************************************************************)
(* Proofs about module AgentGraph, for any threads, scopes, questions,     *)
(* answers, tools, routes and limits.                                      *)
(***************************************************************************)
EXTENDS AgentGraph, TLAPS, FiniteSetTheorems, SequenceTheorems

Kind == {"human", "call", "result", "reply"}
Text == Question \cup Answer \cup Tool \cup {Refusal, Degraded, Silent}

\* What prompts and keys are, and <<>> where a message has none.
Line == Kind \X Text
Keys == {<<>>} \cup ((Scope \cup {None}) \X Seq(Line))

Message ==
  [kind : Kind, text : Text, id : Nat, by : Route \cup {"agent", None},
   calls : SUBSET Tool, key : Keys]

Ending ==
  [how : {"none", "done", "failed"}, scope : Scope \cup {None},
   graph : {"single", "multi", None}, hit : BOOLEAN]

\* A message that exists once n calls of LLMs have been made.
Fits(m, n) ==
  /\ m \in Message /\ m.id <= n
  /\ (m.kind = "call") = (m.calls # {})
  /\ m.kind = "call" => m.id # 0
  /\ m.kind = "human" => m.id = 0 /\ m.text \in Question

\* The kind of the last message tells a run's next node.
LastFits(msgs, node) ==
  /\ msgs # <<>>
  /\ node \in {"validate", "router"} => Last(msgs).kind = "human"
  /\ node \in Route \cup {"agent"} => Last(msgs).kind \in {"human", "result"}
  /\ node = "tools" => Last(msgs).kind = "call"

\* Which nodes a graph has, and when a run of it knows its route.
NodeFits(r) ==
  /\ r.graph = "single" => r.scope \in Scope /\ r.node \in {"validate", "agent", "tools"}
  /\ r.graph = "multi" =>
       /\ r.scope = None /\ r.node # "agent"
       /\ r.node \in Route \cup {"tools"} => r.route \in Route

\* CallsAreAnswered and AnswerFitsView of one thread: its messages, its run, and
\* how the last one ended.
CallsFit(msgs, r, e) ==
  \A i \in DOMAIN msgs :
    msgs[i].kind = "call" =>
      \/ AnsweredAt(msgs, i)
      \/ i < Len(msgs) /\ msgs[i + 1].kind = "human"
      \/ i = Len(msgs) /\ IF r = None THEN e.how = "failed" ELSE r.node = "tools"

AnswerFits(msgs, r, e) ==
  LET m == Last(msgs) IN
  r = None /\ e.how = "done" /\ e.graph = "single" /\ m.text \notin {Refusal, Degraded} =>
    /\ m.kind = "reply"
    /\ m.key = Prompt(e.scope, Front(msgs))

\* Wherever an answer of agent_node stands in a history, it was made for what
\* stands before it, in the scope of some key.
AnswersFit(msgs) ==
  \A i \in 1..Len(msgs) :
    msgs[i].key # <<>> => \E s \in Scope : msgs[i].key = Prompt(s, SubSeq(msgs, 1, i - 1))

\* The state of one thread, once n calls of LLMs have been made.
ThreadFits(msgs, r, e, n) ==
  /\ \A i \in 1..Len(msgs) : Fits(msgs[i], n)
  /\ r # None => NodeFits(r) /\ LastFits(msgs, r.node)
  /\ CallsFit(msgs, r, e)
  /\ AnswerFits(msgs, r, e)
  /\ AnswersFit(msgs)

ThreadsInv ==
  /\ history \in [Thread -> Seq(Message)]
  /\ run \in [Thread -> Running \cup {None}]
  /\ ended \in [Thread -> Ending]
  /\ \A t \in Thread : ThreadFits(history[t], run[t], ended[t], made)

CountsInv == asked \in 0..MaxAsked /\ made \in 0..MaxMade

RoutesInv == DOMAIN routes \subseteq Question /\ \A q \in DOMAIN routes : routes[q] \in Route

\* What is cached under a key was answered to that prompt.
CacheInv ==
  \A k \in DOMAIN cache :
    /\ Fits(cache[k], made) /\ cache[k].kind = "reply" /\ cache[k].text \in Answer
    /\ cache[k].key = k

AtTools == {t \in Thread : run[t] # None /\ run[t].node = "tools"}

\* The calls a run is about to carry out are its own and have not been.
ExecutedInv ==
  /\ executed \in [1..MaxMade -> {0, 1}]
  /\ \A id \in 1..MaxMade : id > made => executed[id] = 0
  /\ \A t \in AtTools : executed[Last(history[t]).id] = 0
  /\ \A t, u \in AtTools : Last(history[t]).id = Last(history[u]).id => t = u

\* The inductive invariant.
IInv == CountsInv /\ ThreadsInv /\ RoutesInv /\ CacheInv /\ ExecutedInv
-----------------------------------------------------------------------------
(* Sequences. *)

\* The last element of a sequence and what stands before it.
LEMMA AppendFacts ==
  ASSUME NEW S, NEW s \in Seq(S), NEW e \in S
  PROVE  /\ Append(s, e) \in Seq(S) /\ Append(s, e) # <<>>
         /\ Len(Append(s, e)) = Len(s) + 1
         /\ \A i \in 1..Len(s) : Append(s, e)[i] = s[i]
         /\ Append(s, e)[Len(s) + 1] = e
         /\ Last(Append(s, e)) = e
         /\ Front(Append(s, e)) = s
<1>1. /\ Append(s, e) \in Seq(S) /\ Append(s, e) # <<>>
      /\ Len(Append(s, e)) = Len(s) + 1
      /\ \A i \in 1..Len(s) : Append(s, e)[i] = s[i]
      /\ Append(s, e)[Len(s) + 1] = e
  BY AppendProperties
<1>2. Len(s) \in Nat
  BY LenProperties
<1>3. Last(Append(s, e)) = e
  BY <1>1 DEF Last
<1>4. Front(Append(s, e)) = SubSeq(Append(s, e), 1, Len(s))
  BY <1>1, <1>2 DEF Front
<1>5. /\ SubSeq(Append(s, e), 1, Len(s)) \in Seq(S)
      /\ Len(SubSeq(Append(s, e), 1, Len(s))) = Len(s)
      /\ \A i \in 1..Len(s) : SubSeq(Append(s, e), 1, Len(s))[i] = s[i]
  BY <1>1, <1>2, SubSeqProperties, ElementOfSeq
<1>6. SubSeq(Append(s, e), 1, Len(s)) = s
  BY <1>5, SeqEqual
<1> QED
  BY <1>1, <1>3, <1>4, <1>6

\* s lists the elements of S, each once.
Lists(s, S) ==
  /\ s \in Seq(S) /\ Len(s) = Cardinality(S)
  /\ \A x \in S : \E i \in 1..Len(s) : s[i] = x

\* A finite set as a sequence.
LEMMA SetToSeqFacts ==
  ASSUME NEW S, IsFiniteSet(S)
  PROVE  Lists(SetToSeq(S), S)
<1> DEFINE n == Cardinality(S)
           s == SetToSeq(S)
<1>1. n \in Nat /\ ExistsBijection(1..n, S)
  BY FS_CardinalityType
<1>2. \E g \in [1..n -> S] : IsInjective(g)
  BY <1>1 DEF ExistsBijection, Bijection, Injection
<1>3. s \in [1..n -> S] /\ IsInjective(s)
  BY <1>2 DEF SetToSeq
<1> HIDE DEF s
<1>4. s \in Injection(1..n, S)
  BY <1>3 DEF Injection
<1>5. Cardinality(1..n) = n
  BY <1>1, FS_Interval
<1>6. s \in Surjection(1..n, S)
  BY <1>4, <1>5, FS_Injection
<1>7. s \in Seq(S) /\ Len(s) = n
  BY <1>1, <1>3, SeqDef, LenProperties
<1>8. Lists(s, S)
  BY <1>6, <1>7 DEF Surjection, Lists
<1> QED
  BY <1>8 DEF s

\* r answers the calls S of message id, one by one.
Answers(r, S, id) ==
  /\ r \in Seq(Message) /\ Len(r) = Cardinality(S)
  /\ \A i \in 1..Len(r) :
       /\ r[i].kind = "result" /\ r[i].id = id
       /\ r[i].calls = {} /\ r[i].text \in S /\ r[i].key = <<>>
  /\ \A tool \in S : \E i \in 1..Len(r) : r[i].text = tool

\* What ToolNode returns.
LEMMA ResultFacts ==
  ASSUME NEW S, S \in SUBSET Tool, NEW id, id \in Nat, NEW R,
         \A tool \in S : Result(tool, id) \in R,
         \A x \in R : \E tool \in S : x = Result(tool, id),
         NEW r, r = SetToSeq(R)
  PROVE  Answers(r, S, id)
<1> DEFINE g == [tool \in S |-> Result(tool, id)]
<1>1. IsFiniteSet(S)
  BY AgentGraphAssumption, FS_Subset
<1>2. g \in Injection(S, R) /\ g \in Surjection(S, R)
  BY DEF Injection, Surjection, IsInjective, Result
<1>3. IsFiniteSet(R) /\ Cardinality(R) = Cardinality(S)
  BY <1>1, <1>2, FS_Surjection
<1>4. R \subseteq Message
  BY DEF Result, Message, Kind, Text, Keys
<1>5. /\ r \in Seq(R) /\ Len(r) = Cardinality(S)
      /\ \A x \in R : \E i \in 1..Len(r) : r[i] = x
  <2>1. Lists(r, R)
    BY <1>3, SetToSeqFacts
  <2> QED
    BY <1>3, <2>1 DEF Lists
<1>6. r \in Seq(Message)
  BY <1>4, <1>5, SeqMonotonic
<1>7. \A i \in 1..Len(r) : \E tool \in S : r[i] = Result(tool, id)
  BY <1>5, ElementOfSeq
<1>8. \A tool \in S : \E i \in 1..Len(r) : r[i] = Result(tool, id)
  BY <1>5
<1>9. \A tool \in S :
        /\ Result(tool, id).kind = "result" /\ Result(tool, id).id = id
        /\ Result(tool, id).calls = {} /\ Result(tool, id).text = tool
        /\ Result(tool, id).key = <<>>
  BY DEF Result
<1>10. \A i \in 1..Len(r) :
         /\ r[i].kind = "result" /\ r[i].id = id
         /\ r[i].calls = {} /\ r[i].text \in S /\ r[i].key = <<>>
  BY <1>7, <1>9
<1>11. \A tool \in S : \E i \in 1..Len(r) : r[i].text = tool
  BY <1>8, <1>9
<1>12. Len(r) = Cardinality(S)
  BY <1>5
<1> QED
  BY <1>6, <1>10, <1>11, <1>12 DEF Answers

\* Prompts have their type, and are the keys of the cache.
LEMMA PromptFacts ==
  ASSUME NEW scope \in Scope \cup {None}, NEW msgs \in Seq(Message)
  PROVE  Prompt(scope, msgs) \in Keys /\ Key(scope, msgs) = Prompt(scope, msgs)
<1> DEFINE from == IF Len(msgs) > Window THEN Len(msgs) - Window + 1 ELSE 1
           view == View(msgs)
           lines == [i \in DOMAIN view |-> <<view[i].kind, view[i].text>>]
<1>1. Len(msgs) \in Nat /\ from \in 1..Len(msgs) + 1
  BY LenProperties, AgentGraphAssumption
<1>2. view \in Seq(Message)
  BY <1>1, SubSeqProperties, ElementOfSeq DEF View
<1> HIDE DEF view
<1>3. /\ Len(view) \in Nat /\ DOMAIN view = 1..Len(view)
      /\ \A i \in DOMAIN view : view[i] \in Message
  BY <1>2, LenProperties, ElementOfSeq
<1>4. lines \in [1..Len(view) -> Line]
  BY <1>3 DEF Message, Line
<1>5. lines \in Seq(Line)
  BY <1>3, <1>4, SeqDef
<1>6. Prompt(scope, msgs) = <<scope, lines>>
  BY DEF Prompt, view
<1> HIDE DEF lines
<1> QED
  BY <1>5, <1>6 DEF Key, Keys
-----------------------------------------------------------------------------
(* One thread. *)

\* Messages stay when more calls are made.
LEMMA FitsLater ==
  ASSUME NEW m, NEW n \in Nat, NEW k \in Nat, n <= k, Fits(m, n)
  PROVE  Fits(m, k)
  BY DEF Fits, Message

\* longer begins with msgs.
Extends(msgs, longer) ==
  Len(msgs) <= Len(longer) /\ \A i \in 1..Len(msgs) : longer[i] = msgs[i]

\* No step changes a message that a history holds, or takes one away.
Grows == \A t \in Thread : Extends(history[t], history'[t])

\* The call at place i is answered, or given up for the next question.
Settled(msgs, i) ==
  \/ AnsweredAt(msgs, i)
  \/ i < Len(msgs) /\ msgs[i + 1].kind = "human"

\* What is settled stays so, whatever comes behind it.
LEMMA SettledStays ==
  ASSUME NEW msgs \in Seq(Message), NEW longer \in Seq(Message), Extends(msgs, longer),
         NEW i \in 1..Len(msgs), Settled(msgs, i)
  PROVE  Settled(longer, i)
<1>1. Len(msgs) \in Nat /\ Len(longer) \in Nat
  BY LenProperties
<1>2. longer[i] = msgs[i]
  BY DEF Extends
<1>3. CASE AnsweredAt(msgs, i)
  <2> DEFINE n == Cardinality(msgs[i].calls)
  <2>0. msgs[i] \in Message
    BY ElementOfSeq
  <2>1. msgs[i].calls \in SUBSET Tool
    BY <2>0 DEF Message
  <2>2. IsFiniteSet(msgs[i].calls)
    BY <2>1, AgentGraphAssumption, FS_Subset
  <2>3. n \in Nat
    BY <2>2, FS_CardinalityType
  <2>4. /\ i + n <= Len(msgs)
        /\ {msgs[j].text : j \in (i + 1)..(i + n)} = msgs[i].calls
        /\ \A j \in (i + 1)..(i + n) : msgs[j].kind = "result" /\ msgs[j].id = msgs[i].id
    BY <1>3 DEF AnsweredAt
  <2> HIDE DEF n
  <2>5. \A j \in (i + 1)..(i + n) : longer[j] = msgs[j]
    <3>1. i + n <= Len(msgs)
      BY <2>4
    <3>2. \A j \in (i + 1)..(i + n) : j \in 1..Len(msgs)
      BY <1>1, <2>3, <3>1
    <3> QED
      BY <3>2 DEF Extends
  <2>6. {longer[j].text : j \in (i + 1)..(i + n)} = {msgs[j].text : j \in (i + 1)..(i + n)}
    BY <2>5
  <2>7. i + n <= Len(longer)
    BY <1>1, <2>3, <2>4 DEF Extends
  <2>8. AnsweredAt(longer, i)
    BY <1>2, <2>4, <2>5, <2>6, <2>7 DEF AnsweredAt, n
  <2> QED
    BY <2>8 DEF Settled
<1>4. CASE i < Len(msgs) /\ msgs[i + 1].kind = "human"
  BY <1>1, <1>4 DEF Extends, Settled
<1> QED
  BY <1>3, <1>4 DEF Settled

\* An answer fits for good when it fits where it comes to stand.
LEMMA AnswersStay ==
  ASSUME NEW msgs \in Seq(Message), NEW longer \in Seq(Message), Extends(msgs, longer),
         AnswersFit(msgs),
         \A i \in (Len(msgs) + 1)..Len(longer) :
           longer[i].key # <<>> =>
             \E s \in Scope : longer[i].key = Prompt(s, SubSeq(longer, 1, i - 1))
  PROVE  AnswersFit(longer)
<1>1. Len(msgs) \in Nat /\ Len(longer) \in Nat
  BY LenProperties
<1>2. ASSUME NEW i \in 1..Len(msgs)
      PROVE  longer[i] = msgs[i] /\ SubSeq(longer, 1, i - 1) = SubSeq(msgs, 1, i - 1)
  <2> DEFINE old == SubSeq(msgs, 1, i - 1)
             new == SubSeq(longer, 1, i - 1)
  <2>1. \A j \in 1..(i - 1) : longer[j] = msgs[j] /\ msgs[j] \in Message
    BY <1>1, ElementOfSeq DEF Extends
  <2>2. \A j \in 1..(i - 1) : longer[j] \in Message
    BY <2>1
  <2>3. i - 1 \in Nat
    BY <1>1
  <2>4. /\ old \in Seq(Message) /\ Len(old) = i - 1
        /\ \A j \in 1..(i - 1) : old[j] = msgs[j]
    BY <2>1, <2>3, SubSeqProperties
  <2>5. /\ new \in Seq(Message) /\ Len(new) = i - 1
        /\ \A j \in 1..(i - 1) : new[j] = longer[j]
    BY <2>2, <2>3, SubSeqProperties
  <2> HIDE DEF old, new
  <2>6. old = new
    BY <2>1, <2>4, <2>5, SeqEqual
  <2> QED
    BY <2>6 DEF Extends, old, new
<1>3. \A i \in 1..Len(longer) : i \in 1..Len(msgs) \/ i \in (Len(msgs) + 1)..Len(longer)
  BY <1>1
<1> QED
  BY <1>2, <1>3 DEF AnswersFit

\* A call that is not settled is the last message, and its run waits for it or
\* was cut off.
LEMMA CallsAreSettled ==
  ASSUME NEW msgs \in Seq(Message), NEW r, NEW e
  PROVE  CallsFit(msgs, r, e) <=>
           \A i \in 1..Len(msgs) :
             msgs[i].kind = "call" =>
               \/ Settled(msgs, i)
               \/ i = Len(msgs) /\ IF r = None THEN e.how = "failed" ELSE r.node = "tools"
  BY LenProperties DEF CallsFit, Settled

\* Nothing has changed but thread t.
LEMMA ThreadStep ==
  ASSUME ThreadsInv, CountsInv, NEW t \in Thread,
         NEW msgs \in Seq(Message), NEW r \in Running \cup {None}, NEW e \in Ending,
         history' = [history EXCEPT ![t] = msgs],
         run' = [run EXCEPT ![t] = r],
         ended' = [ended EXCEPT ![t] = e],
         made' \in Nat, made <= made',
         ThreadFits(msgs, r, e, made')
  PROVE  ThreadsInv'
<1>1. /\ history' \in [Thread -> Seq(Message)]
      /\ run' \in [Thread -> Running \cup {None}]
      /\ ended' \in [Thread -> Ending]
  BY DEF ThreadsInv
<1>2. ASSUME NEW u \in Thread
      PROVE  ThreadFits(history'[u], run'[u], ended'[u], made')
  <2>1. CASE u = t
    BY <2>1 DEF ThreadsInv
  <2>2. CASE u # t
    <3>1. history'[u] = history[u] /\ run'[u] = run[u] /\ ended'[u] = ended[u]
      BY <2>2 DEF ThreadsInv
    <3>2. ThreadFits(history[u], run[u], ended[u], made)
      BY DEF ThreadsInv
    <3>3. \A i \in 1..Len(history[u]) : Fits(history[u][i], made')
      BY <3>2, FitsLater DEF ThreadFits, CountsInv
    <3> QED
      BY <3>1, <3>2, <3>3 DEF ThreadFits
  <2> QED
    BY <2>1, <2>2
<1> QED
  BY <1>1, <1>2 DEF ThreadsInv

\* What is known of a thread that has a run.
LEMMA RunFacts ==
  ASSUME ThreadsInv, NEW t \in Thread, run[t] # None
  PROVE  /\ run[t] \in Running /\ run[t].left \in 1..Limit
         /\ run[t].scope \in Scope \cup {None} /\ run[t].graph \in {"single", "multi"}
         /\ history[t] \in Seq(Message) /\ Len(history[t]) \in Nat \ {0}
         /\ Last(history[t]) = history[t][Len(history[t])]
         /\ Fits(Last(history[t]), made)
         /\ NodeFits(run[t]) /\ LastFits(history[t], run[t].node)
         /\ CallsFit(history[t], run[t], ended[t])
         /\ AnswersFit(history[t])
<1>1. run[t] \in Running /\ history[t] \in Seq(Message)
  BY DEF ThreadsInv
<1>2. ThreadFits(history[t], run[t], ended[t], made)
  BY DEF ThreadsInv
<1>3. NodeFits(run[t]) /\ LastFits(history[t], run[t].node)
  BY <1>2 DEF ThreadFits
<1>4. Len(history[t]) \in Nat \ {0}
  BY <1>1, <1>3, EmptySeq DEF LastFits
<1>5. Last(history[t]) = history[t][Len(history[t])]
  BY DEF Last
<1>6. Fits(Last(history[t]), made)
  BY <1>2, <1>4, <1>5 DEF ThreadFits
<1> QED
  BY <1>1, <1>2, <1>3, <1>4, <1>5, <1>6 DEF Running, ThreadFits

\* The run of t is cut off, or its last step failed: nothing is saved.
LEMMA EndFails ==
  ASSUME ThreadsInv, CountsInv, NEW t \in Thread, run[t] # None, NEW hit \in BOOLEAN,
         End(t, "failed", hit), history' = history, made' \in Nat, made <= made'
  PROVE  ThreadsInv'
<1> DEFINE e == [how |-> "failed", scope |-> run[t].scope, graph |-> run[t].graph, hit |-> hit]
<1>1. e \in Ending /\ e.how = "failed"
  BY RunFacts DEF Ending
<1>2. run' = [run EXCEPT ![t] = None] /\ ended' = [ended EXCEPT ![t] = e]
  BY DEF End
<1> HIDE DEF e
<1>3. history[t] \in Seq(Message) /\ history' = [history EXCEPT ![t] = history[t]]
  BY DEF ThreadsInv
<1>4. \A i \in 1..Len(history[t]) : Fits(history[t][i], made')
  BY FitsLater DEF ThreadsInv, ThreadFits, CountsInv
<1>5. CallsFit(history[t], None, e)
  <2>1. CallsFit(history[t], run[t], ended[t])
    BY RunFacts
  <2> QED
    BY <1>1, <1>3, <2>1, CallsAreSettled
<1>6. AnswerFits(history[t], None, e)
  BY <1>1 DEF AnswerFits
<1>7. ThreadFits(history[t], None, e, made')
  BY <1>4, <1>5, <1>6, RunFacts DEF ThreadFits
<1> QED
  BY <1>1, <1>2, <1>3, <1>7, ThreadStep

\* A run that goes on has a step less.
LEMMA OneLess == \A left \in 1..Limit : left # 1 => left - 1 \in 1..Limit
<1>1. Limit \in Nat
  BY AgentGraphAssumption
<1> QED
  BY <1>1

\* A step is saved: what was settled, or the call that is to be answered next.
LEMMA GoToFits ==
  ASSUME ThreadsInv, CountsInv, NEW t \in Thread, run[t] # None, NEW msgs \in Seq(Message),
         history' = [history EXCEPT ![t] = msgs], made' \in Nat, made <= made',
         NEW node, NEW route, NEW hit \in BOOLEAN, GoTo(t, node, route, hit),
         \A i \in 1..Len(msgs) : Fits(msgs[i], made'), AnswersFit(msgs),
         \A i \in 1..Len(msgs) :
           msgs[i].kind = "call" => Settled(msgs, i) \/ (i = Len(msgs) /\ node = "tools"),
         node = "end" =>
           \/ run[t].graph = "multi"
           \/ Last(msgs).text \in {Refusal, Degraded}
           \/ Last(msgs).kind = "reply" /\ Last(msgs).key = Prompt(run[t].scope, Front(msgs)),
         node # "end" =>
           /\ node \in {"router", "agent", "tools"} \cup Route /\ route \in Route \cup {None}
           /\ NodeFits([run[t] EXCEPT !.node = node, !.route = route])
           /\ LastFits(msgs, node)
  PROVE  ThreadsInv'
<1> DEFINE e(how, h) == [how |-> how, scope |-> run[t].scope, graph |-> run[t].graph, hit |-> h]
           r == [run[t] EXCEPT !.node = node, !.route = route, !.left = @ - 1]
<1>1. ASSUME NEW how \in {"done", "failed"}, NEW h \in BOOLEAN
      PROVE  /\ e(how, h) \in Ending
             /\ e(how, h).how = how /\ e(how, h).scope = run[t].scope
             /\ e(how, h).graph = run[t].graph
  BY RunFacts DEF Ending
<1>2. CASE node = "end"
  <2>1. run' = [run EXCEPT ![t] = None] /\ ended' = [ended EXCEPT ![t] = e("done", hit)]
    BY <1>2 DEF GoTo, End
  <2>2. CallsFit(msgs, None, e("done", hit))
    BY <1>2, CallsAreSettled
  <2>3. AnswerFits(msgs, None, e("done", hit))
    BY <1>1, <1>2 DEF AnswerFits
  <2>4. ThreadFits(msgs, None, e("done", hit), made')
    BY <2>2, <2>3 DEF ThreadFits
  <2> QED
    BY <1>1, <2>1, <2>4, ThreadStep
<1>3. CASE node # "end" /\ run[t].left = 1
  <2>1. run' = [run EXCEPT ![t] = None] /\ ended' = [ended EXCEPT ![t] = e("failed", FALSE)]
    BY <1>3 DEF GoTo, End
  <2>2. e("failed", FALSE).how = "failed" /\ e("failed", FALSE) \in Ending
    BY <1>1
  <2>3. CallsFit(msgs, None, e("failed", FALSE))
    BY <2>2, CallsAreSettled
  <2>4. AnswerFits(msgs, None, e("failed", FALSE))
    BY <2>2 DEF AnswerFits
  <2>5. ThreadFits(msgs, None, e("failed", FALSE), made')
    BY <2>3, <2>4 DEF ThreadFits
  <2> QED
    BY <2>1, <2>2, <2>5, ThreadStep
<1>4. CASE node # "end" /\ run[t].left # 1
  <2>1. run' = [run EXCEPT ![t] = r] /\ ended' = ended
    BY <1>4 DEF GoTo, ThreadsInv
  <2>2. /\ r \in Running /\ r.node = node /\ r.route = route
        /\ r.graph = run[t].graph /\ r.scope = run[t].scope
    <3>1. run[t] \in Running /\ run[t].left \in 1..Limit
      BY RunFacts
    <3>2. run[t].left - 1 \in 1..Limit
      BY <1>4, <3>1, OneLess
    <3> QED
      BY <1>4, <3>1, <3>2 DEF Running
  <2>3. NodeFits(r)
    BY <1>4, <2>2, RunFacts DEF NodeFits, Running
  <2>4. r # None
    BY <2>2, NoneAssumption
  <2> HIDE DEF r
  <2>5. CallsFit(msgs, r, ended[t])
    BY <2>2, <2>4, CallsAreSettled
  <2>6. AnswerFits(msgs, r, ended[t])
    BY <2>4 DEF AnswerFits
  <2>7. ThreadFits(msgs, r, ended[t], made')
    BY <1>4, <2>2, <2>3, <2>5, <2>6 DEF ThreadFits
  <2>8. ended[t] \in Ending /\ ended' = [ended EXCEPT ![t] = ended[t]]
    BY <2>1 DEF ThreadsInv
  <2> QED
    BY <2>1, <2>2, <2>7, <2>8, ThreadStep
<1> QED
  BY <1>2, <1>3, <1>4

\* Histories that change by what comes behind them.
LEMMA GrowsFacts ==
  ASSUME ThreadsInv
  PROVE  /\ history' = history => Grows
         /\ \A t \in Thread, msgs \in Seq(Message) :
              history' = [history EXCEPT ![t] = msgs] /\ Extends(history[t], msgs) => Grows
<1>1. \A t \in Thread : Extends(history[t], history[t])
  BY LenProperties DEF ThreadsInv, Extends
<1> QED
  BY <1>1 DEF ThreadsInv, Grows

\* A run is at its tools when its step led there.
LEMMA GoToTools ==
  ASSUME ThreadsInv, NEW t \in Thread, run[t] # None, NEW node, NEW route, NEW hit,
         GoTo(t, node, route, hit)
  PROVE  /\ \A u \in Thread \ {t} : run'[u] = run[u]
         /\ t \in AtTools' => node = "tools"
<1>1. run \in [Thread -> Running \cup {None}]
  BY DEF ThreadsInv
<1>2. node = "end" \/ run[t].left = 1 => run'[t] = None
  BY <1>1 DEF GoTo, End
<1>3. node # "end" /\ run[t].left # 1 => run'[t].node = node
  <2> DEFINE r == [run[t] EXCEPT !.node = node, !.route = route, !.left = run[t].left - 1]
  <2>1. r.node = node
    <3>1. run[t] \in Running
      BY RunFacts
    <3> QED
      BY <3>1 DEF Running
  <2>2. node # "end" /\ run[t].left # 1 => run' = [run EXCEPT ![t] = r]
    BY DEF GoTo
  <2> HIDE DEF r
  <2> QED
    BY <1>1, <2>1, <2>2
<1>4. \A u \in Thread \ {t} : run'[u] = run[u]
  BY <1>1 DEF GoTo, End
<1> QED
  BY <1>2, <1>3, <1>4 DEF AtTools
-----------------------------------------------------------------------------
(* The steps, and what they make of the threads. *)

\* The history holds a message of that id, which is not a call's result.
Repeats(msgs, m) ==
  m.id # 0 /\ \E i \in DOMAIN msgs : msgs[i].id = m.id /\ msgs[i].kind # "result"

\* The edge behind an agent takes only what came to stand last: a message that
\* replaces an older one is not saved.
LEMMA AddedFacts ==
  ASSUME NEW msgs \in Seq(Message), msgs # <<>>, NEW m \in Message,
         Last(msgs).kind = "result" \/ (Last(msgs).kind = "human" /\ Last(msgs).id = 0)
  PROVE  /\ Repeats(msgs, m) => AfterAgent(Added(msgs, m)) = "raises"
         /\ ~Repeats(msgs, m) => Added(msgs, m) = Append(msgs, m)
<1> DEFINE f == [i \in DOMAIN msgs |->
                   IF msgs[i].id = m.id /\ msgs[i].kind # "result" THEN m ELSE msgs[i]]
<1>1. Len(msgs) \in Nat \ {0} /\ DOMAIN msgs = 1..Len(msgs)
  BY LenProperties, EmptySeq
<1>2. CASE Repeats(msgs, m)
  <2>1. Added(msgs, m) = f
    BY <1>2 DEF Added, Repeats
  <2>2. f \in [1..Len(msgs) -> Message]
    BY <1>1, ElementOfSeq
  <2>3. f \in Seq(Message) /\ Len(f) = Len(msgs)
    BY <1>1, <2>2, SeqDef, LenProperties
  <2>4. f[Len(msgs)] = msgs[Len(msgs)]
    BY <1>1, <1>2 DEF Last, Repeats
  <2> HIDE DEF f
  <2>5. Last(f).kind \in {"human", "result"}
    BY <2>3, <2>4 DEF Last
  <2>6. AfterAgent(f) = "raises"
    BY <2>5 DEF AfterAgent
  <2> QED
    BY <1>2, <2>1, <2>6
<1>3. CASE ~Repeats(msgs, m)
  BY <1>3 DEF Added, Repeats
<1> QED
  BY <1>2, <1>3

\* A message is put at the end of a history.
LEMMA AppendFits ==
  ASSUME ThreadsInv, CountsInv, NEW t \in Thread, NEW m, made' \in Nat, made <= made', Fits(m, made'),
         m.key # <<>> => \E s \in Scope : m.key = Prompt(s, history[t])
  PROVE  LET msgs == Append(history[t], m) IN
         /\ msgs \in Seq(Message) /\ msgs # <<>> /\ Last(msgs) = m /\ Front(msgs) = history[t]
         /\ Len(msgs) = Len(history[t]) + 1 /\ msgs[Len(history[t]) + 1] = m
         /\ Extends(history[t], msgs) /\ AnswersFit(msgs)
         /\ \A i \in 1..Len(msgs) : Fits(msgs[i], made')
<1> DEFINE msgs == Append(history[t], m)
<1>1. history[t] \in Seq(Message) /\ Len(history[t]) \in Nat /\ m \in Message
  BY LenProperties DEF ThreadsInv, Fits
<1>2. /\ msgs \in Seq(Message) /\ msgs # <<>> /\ Len(msgs) = Len(history[t]) + 1
      /\ \A i \in 1..Len(history[t]) : msgs[i] = history[t][i]
      /\ msgs[Len(history[t]) + 1] = m /\ Last(msgs) = m /\ Front(msgs) = history[t]
  BY <1>1, AppendFacts
<1> HIDE DEF msgs
<1>3. ASSUME NEW i \in 1..Len(msgs)
      PROVE  Fits(msgs[i], made')
  <2>1. CASE i = Len(history[t]) + 1
    BY <1>2, <2>1
  <2>2. CASE i # Len(history[t]) + 1
    <3>1. i \in 1..Len(history[t])
      BY <1>1, <1>2, <2>2
    <3>2. Fits(history[t][i], made)
      BY <3>1 DEF ThreadsInv, ThreadFits
    <3>3. Fits(history[t][i], made')
      BY <3>2, FitsLater DEF CountsInv
    <3> QED
      BY <1>2, <3>1, <3>3
  <2> QED
    BY <2>1, <2>2
<1>4. Extends(history[t], msgs)
  BY <1>1, <1>2 DEF Extends
<1>5. AnswersFit(msgs)
  <2>1. Front(msgs) = SubSeq(msgs, 1, Len(history[t]))
    BY <1>1, <1>2 DEF Front
  <2>2. SubSeq(msgs, 1, Len(history[t])) = history[t]
    BY <1>2, <2>1
  <2>3. AnswersFit(history[t])
    BY DEF ThreadsInv, ThreadFits
  <2>4. \A i \in (Len(history[t]) + 1)..Len(msgs) :
          msgs[i] = m /\ SubSeq(msgs, 1, i - 1) = history[t]
    <3>1. ASSUME NEW i \in (Len(history[t]) + 1)..Len(msgs)
          PROVE  i = Len(history[t]) + 1 /\ i - 1 = Len(history[t])
      BY <1>1, <1>2
    <3> QED
      BY <1>2, <2>2, <3>1
  <2> QED
    BY <1>1, <1>2, <1>4, <2>3, <2>4, AnswersStay
<1> QED
  BY <1>2, <1>3, <1>4, <1>5 DEF msgs

\* What an agent returned is put at the end of the history, or its step fails.
LEMMA ReturnedFits ==
  ASSUME ThreadsInv, CountsInv, NEW t \in Thread, run[t] # None,
         run[t].node \in Route \cup {"agent"}, made' \in Nat, made <= made',
         NEW m, Fits(m, made'), m.kind \in {"call", "reply"},
         run[t].graph = "single" /\ m.kind = "reply" =>
           m.text = Degraded \/ m.key = Prompt(run[t].scope, history[t]),
         m.key # <<>> => run[t].scope \in Scope /\ m.key = Prompt(run[t].scope, history[t]),
         NEW hit \in BOOLEAN, Returned(t, m, hit)
  PROVE  /\ ThreadsInv' /\ Grows
         /\ AtTools' \subseteq AtTools \cup {t}
         /\ \A u \in Thread \ {t} : history'[u] = history[u]
         /\ t \in AtTools' => m.kind = "call" /\ Last(history'[t]) = m
<1> DEFINE old == history[t]
           msgs == Append(old, m)
<1>1. /\ old \in Seq(Message) /\ old # <<>> /\ Len(old) \in Nat \ {0}
      /\ Last(old) = old[Len(old)]
      /\ Last(old).kind = "result" \/ (Last(old).kind = "human" /\ Last(old).id = 0)
  <2>1. LastFits(old, run[t].node) /\ Fits(Last(old), made)
    BY RunFacts
  <2>2. old \in Seq(Message) /\ Len(old) \in Nat \ {0} /\ Last(old) = old[Len(old)]
    BY RunFacts
  <2> QED
    BY <2>1, <2>2 DEF LastFits, Fits
<1>2. m \in Message
  BY DEF Fits
<1>3. CASE AfterAgent(Added(old, m)) = "raises"
  <2>1. End(t, "failed", hit) /\ history' = history
    BY <1>3 DEF Returned
  <2>2. ThreadsInv'
    BY <2>1, EndFails
  <2>4. Grows
    BY <2>1, GrowsFacts
  <2>3. run' = [run EXCEPT ![t] = None]
    BY <2>1 DEF End
  <2> QED
    BY <2>1, <2>2, <2>3, <2>4 DEF AtTools, ThreadsInv
<1>4. CASE AfterAgent(Added(old, m)) # "raises"
  <2> DEFINE node == AfterAgent(msgs)
  <2>1. Added(old, m) = msgs
    BY <1>1, <1>2, <1>4, AddedFacts
  <2>2. /\ history' = [history EXCEPT ![t] = msgs]
        /\ GoTo(t, node, run[t].route, hit)
    BY <1>4, <2>1 DEF Returned
  <2>3. /\ msgs \in Seq(Message) /\ msgs # <<>> /\ Last(msgs) = m /\ Front(msgs) = old
        /\ Len(msgs) = Len(old) + 1 /\ msgs[Len(old) + 1] = m
        /\ Extends(old, msgs) /\ AnswersFit(msgs)
        /\ \A i \in 1..Len(msgs) : Fits(msgs[i], made')
    BY AppendFits
  <2>4. node = IF m.kind = "call" THEN "tools" ELSE "end"
    BY <2>3 DEF AfterAgent
  <2> HIDE DEF msgs, node
  <2>5. ASSUME NEW i \in 1..Len(msgs), msgs[i].kind = "call"
        PROVE  Settled(msgs, i) \/ (i = Len(msgs) /\ node = "tools")
    <3>1. CASE i = Len(msgs)
      BY <1>1, <2>3, <2>4, <2>5, <3>1
    <3>2. CASE i # Len(msgs)
      <4>1. i \in 1..Len(old) /\ msgs[i] = old[i]
        BY <1>1, <2>3, <3>2 DEF Extends
      <4>2. i # Len(old)
        BY <1>1, <2>5, <4>1
      <4>3. CallsFit(old, run[t], ended[t])
        BY RunFacts
      <4>4. Settled(old, i)
        BY <1>1, <2>5, <4>1, <4>2, <4>3, CallsAreSettled
      <4> QED
        BY <1>1, <2>3, <4>1, <4>4, SettledStays
    <3> QED
      BY <3>1, <3>2
  <2>6. node = "end" =>
          \/ run[t].graph = "multi"
          \/ Last(msgs).text \in {Refusal, Degraded}
          \/ Last(msgs).kind = "reply" /\ Last(msgs).key = Prompt(run[t].scope, Front(msgs))
    BY <2>3, <2>4, RunFacts
  <2>7. node # "end" => 
          /\ node \in {"router", "agent", "tools"} \cup Route /\ run[t].route \in Route \cup {None}
          /\ NodeFits([run[t] EXCEPT !.node = node, !.route = run[t].route])
          /\ LastFits(msgs, node)
    <3> SUFFICES ASSUME node # "end"
                 PROVE  /\ run[t].route \in Route \cup {None}
                        /\ NodeFits([run[t] EXCEPT !.node = "tools", !.route = run[t].route])
                        /\ LastFits(msgs, "tools")
      BY <2>4
    <3>1. run[t] \in Running /\ NodeFits(run[t])
      BY RunFacts
    <3>2. NodeFits([run[t] EXCEPT !.node = "tools", !.route = run[t].route])
      BY <3>1, AgentGraphAssumption DEF NodeFits, Running
    <3>3. LastFits(msgs, "tools")
      BY <2>3, <2>4, AgentGraphAssumption DEF LastFits
    <3> QED
      BY <3>1, <3>2, <3>3 DEF Running
  <2>8. ThreadsInv'
    BY <2>2, <2>3, <2>5, <2>6, <2>7, GoToFits
  <2>9. \A u \in Thread \ {t} : history'[u] = history[u] /\ run'[u] = run[u]
    BY <2>2, GoToTools DEF ThreadsInv
  <2>10. t \in AtTools' => node = "tools"
    BY <2>2, GoToTools
  <2>11. history'[t] = msgs
    BY <2>2 DEF ThreadsInv
  <2>12. Grows
    BY <2>2, <2>3, GrowsFacts
  <2> QED
    BY <2>3, <2>4, <2>8, <2>9, <2>10, <2>11, <2>12 DEF AtTools
<1> QED
  BY <1>3, <1>4

\* A question is asked where no run is; a call left over from a run that was cut
\* off is settled by it.
LEMMA AskFits ==
  ASSUME ThreadsInv, CountsInv, NEW t \in Thread, NEW graph \in {"single", "multi"},
         NEW scope \in Scope \cup {None}, NEW q \in Question, Ask(t, graph, scope, q)
  PROVE  /\ ThreadsInv' /\ Grows
         /\ AtTools' = AtTools
         /\ \A u \in AtTools' : history'[u] = history[u]
<1> DEFINE old == history[t]
           msgs == Append(old, Human(q))
           r == [graph |-> graph, scope |-> scope, node |-> "validate", route |-> None,
                 left |-> Limit]
<1>1. /\ run[t] = None /\ made' = made
      /\ history' = [history EXCEPT ![t] = msgs]
      /\ run' = [run EXCEPT ![t] = r] /\ ended' = [ended EXCEPT ![t] = NotEnded]
  BY DEF Ask, ThreadsInv
<1>2. Fits(Human(q), made') /\ Human(q).kind = "human" /\ Human(q).key = <<>>
  BY <1>1 DEF Human, Fits, Message, Kind, Text, Keys, CountsInv
<1>3. made' \in Nat /\ made <= made'
  BY <1>1 DEF CountsInv
<1>4. /\ msgs \in Seq(Message) /\ msgs # <<>> /\ Last(msgs) = Human(q)
      /\ Len(msgs) = Len(old) + 1 /\ msgs[Len(old) + 1] = Human(q)
      /\ Extends(old, msgs) /\ AnswersFit(msgs)
      /\ \A i \in 1..Len(msgs) : Fits(msgs[i], made')
  BY <1>2, <1>3, AppendFits
<1>5. r \in Running /\ r.node = "validate" /\ NodeFits(r)
  <2>1. graph = "single" => scope \in Scope
    BY DEF Ask
  <2>2. graph = "multi" => scope = None
    BY DEF Ask
  <2> QED
    BY <2>1, <2>2, AgentGraphAssumption DEF Running, NodeFits
<1>6. NotEnded \in Ending /\ NotEnded.how = "none"
  BY DEF NotEnded, Ending
<1>7. r # None
  BY <1>5, NoneAssumption
<1> HIDE DEF msgs, r
<1>8. old \in Seq(Message) /\ Len(old) \in Nat
  BY LenProperties DEF ThreadsInv
<1>9. ASSUME NEW i \in 1..Len(msgs), msgs[i].kind = "call"
      PROVE  Settled(msgs, i)
  <2>1. i \in 1..Len(old) /\ msgs[i] = old[i]
    BY <1>2, <1>4, <1>8, <1>9 DEF Extends
  <2>2. CASE i = Len(old)
    BY <1>2, <1>4, <1>8, <2>2 DEF Settled
  <2>3. CASE i # Len(old)
    <3>1. CallsFit(old, None, ended[t])
      BY <1>1 DEF ThreadsInv, ThreadFits
    <3>2. Settled(old, i)
      BY <1>8, <1>9, <2>1, <2>3, <3>1, CallsAreSettled
    <3> QED
      BY <1>4, <1>8, <2>1, <3>2, SettledStays
  <2> QED
    BY <2>2, <2>3
<1>10. CallsFit(msgs, r, NotEnded)
  BY <1>4, <1>9, CallsAreSettled
<1>11. AnswerFits(msgs, r, NotEnded)
  BY <1>7 DEF AnswerFits
<1>12. LastFits(msgs, r.node)
  BY <1>2, <1>4, <1>5, AgentGraphAssumption DEF LastFits
<1>13. ThreadFits(msgs, r, NotEnded, made')
  BY <1>4, <1>5, <1>10, <1>11, <1>12 DEF ThreadFits
<1>14. ThreadsInv'
  BY <1>1, <1>3, <1>4, <1>5, <1>6, <1>13, ThreadStep
<1>15. AtTools' = AtTools /\ t \notin AtTools
  BY <1>1, <1>5 DEF AtTools, ThreadsInv
<1>16. Grows
  BY <1>1, <1>4, GrowsFacts
<1> QED
  BY <1>1, <1>14, <1>15, <1>16 DEF ThreadsInv, AtTools

\* A refused question ends its run; any other goes on unanswered.
LEMMA ValidateFits ==
  ASSUME ThreadsInv, CountsInv, NEW t \in Thread, Validate(t)
  PROVE  /\ ThreadsInv' /\ Grows
         /\ AtTools' \subseteq AtTools
         /\ \A u \in AtTools' : history'[u] = history[u]
<1> DEFINE old == history[t]
           m == Reply(Refusal, 0, None, <<>>)
           next == IF run[t].graph = "multi" THEN "router" ELSE "agent"
<1>1. run[t] # None /\ run[t].node = "validate" /\ made' = made
  BY DEF Validate
<1>2. made' \in Nat /\ made <= made'
  BY <1>1 DEF CountsInv
<1>3. /\ run[t] \in Running /\ NodeFits(run[t]) /\ LastFits(old, "validate")
      /\ CallsFit(old, run[t], ended[t]) /\ AnswersFit(old)
      /\ old \in Seq(Message) /\ Len(old) \in Nat \ {0} /\ Last(old) = old[Len(old)]
  BY <1>1, RunFacts
<1>4. Last(old).kind = "human"
  BY <1>3 DEF LastFits
<1>5. \A i \in 1..Len(old) : old[i].kind = "call" => Settled(old, i)
  BY <1>1, <1>3, <1>4, CallsAreSettled
<1>6. CASE Last(old).text \in Refused
  <2> DEFINE msgs == Append(old, m)
  <2>1. history' = [history EXCEPT ![t] = msgs] /\ GoTo(t, "end", None, FALSE)
    BY <1>6 DEF Validate, ThreadsInv
  <2>2. Fits(m, made') /\ m.kind = "reply" /\ m.text = Refusal /\ m.key = <<>>
    BY <1>2 DEF Reply, Fits, Message, Kind, Text, Keys
  <2>3. /\ msgs \in Seq(Message) /\ Last(msgs) = m
        /\ Len(msgs) = Len(old) + 1 /\ msgs[Len(old) + 1] = m
        /\ Extends(old, msgs) /\ AnswersFit(msgs)
        /\ \A i \in 1..Len(msgs) : Fits(msgs[i], made')
    BY <1>2, <2>2, AppendFits
  <2> HIDE DEF msgs, m
  <2>4. ASSUME NEW i \in 1..Len(msgs), msgs[i].kind = "call"
        PROVE  Settled(msgs, i)
    <3>1. i \in 1..Len(old) /\ msgs[i] = old[i]
      BY <1>3, <2>2, <2>3, <2>4 DEF Extends
    <3> QED
      BY <1>3, <1>5, <2>3, <2>4, <3>1, SettledStays
  <2>5. ThreadsInv'
    BY <1>1, <1>2, <2>1, <2>2, <2>3, <2>4, GoToFits
  <2>6. AtTools' \subseteq AtTools \ {t}
    <3>1. GoTo(t, "end", None, FALSE)
      BY <2>1
    <3>2. /\ \A u \in Thread \ {t} : run'[u] = run[u]
          /\ t \in AtTools' => "end" = "tools"
      BY <1>1, <3>1, GoToTools, Zenon
    <3> QED
      BY <3>2 DEF AtTools
  <2> QED
    BY <2>1, <2>3, <2>5, <2>6, GrowsFacts DEF ThreadsInv, AtTools
<1>7. CASE Last(old).text \notin Refused
  <2>1. history' = [history EXCEPT ![t] = old] /\ GoTo(t, next, None, FALSE)
    BY <1>7 DEF Validate, ThreadsInv
  <2>2. \A i \in 1..Len(old) : Fits(old[i], made')
    BY <1>1 DEF ThreadsInv, ThreadFits
  <2>3. /\ next \in {"router", "agent"} /\ LastFits(old, next)
        /\ NodeFits([run[t] EXCEPT !.node = next, !.route = None])
    BY <1>3, <1>4, AgentGraphAssumption DEF LastFits, NodeFits, Running
  <2> HIDE DEF next
  <2>4. ThreadsInv'
    BY <1>1, <1>2, <1>3, <1>5, <2>1, <2>2, <2>3, GoToFits
  <2>5. AtTools' \subseteq AtTools \ {t}
    <3>1. next # "tools"
      BY <2>3
    <3>2. t \notin AtTools' /\ \A u \in Thread \ {t} : run'[u] = run[u]
      BY <1>1, <2>1, <3>1, GoToTools
    <3> QED
      BY <3>2 DEF AtTools
  <2>6. history' = history /\ Grows
    BY <1>7, GrowsFacts DEF Validate
  <2> QED
    BY <2>1, <2>4, <2>5, <2>6 DEF ThreadsInv, AtTools
<1> QED
  BY <1>6, <1>7

\* A cached answer was made for the prompt it is returned to.
LEMMA AgentHitFits ==
  ASSUME ThreadsInv, CountsInv, CacheInv, NEW t \in Thread, AgentHit(t)
  PROVE  /\ ThreadsInv' /\ Grows
         /\ AtTools' \subseteq AtTools
         /\ \A u \in AtTools' : history'[u] = history[u]
<1> DEFINE key == Key(run[t].scope, history[t])
           m == cache[key]
<1>1. /\ run[t] # None /\ run[t].node = "agent" /\ made' = made
      /\ key \in DOMAIN cache /\ Returned(t, m, TRUE)
  BY DEF AgentHit
<1>2. made' \in Nat /\ made <= made'
  BY <1>1 DEF CountsInv
<1>3. Fits(m, made') /\ m.kind = "reply" /\ m.key = key
  BY <1>1 DEF CacheInv
<1>4. key = Prompt(run[t].scope, history[t]) /\ run[t].scope \in Scope
  BY <1>1, RunFacts, PromptFacts, AgentGraphAssumption DEF NodeFits
<1> HIDE DEF m, key
<1>5. /\ ThreadsInv' /\ Grows /\ AtTools' \subseteq AtTools \cup {t}
      /\ \A u \in Thread \ {t} : history'[u] = history[u]
      /\ t \in AtTools' => m.kind = "call"
  BY <1>1, <1>2, <1>3, <1>4, ReturnedFits
<1>6. t \notin AtTools'
  BY <1>3, <1>5
<1> QED
  BY <1>5, <1>6 DEF AtTools

\* What an LLM makes is new, and knows what it was made for.
LEMMA MadeFacts ==
  ASSUME NEW id \in Nat \ {0}, NEW by \in Route \cup {"agent"}, NEW key \in Keys,
         NEW m \in Made(id, by, key)
  PROVE  /\ Fits(m, id) /\ m.id = id /\ m.kind \in {"call", "reply"}
         /\ m.kind = "reply" => m.text \in Answer /\ m.key = key
         /\ m.key \in {<<>>, key}
<1>1. CASE \E a \in Answer : m = Reply(a, id, by, key)
  BY <1>1 DEF Reply, Fits, Message, Kind, Text
<1>2. CASE \E S \in CallSets : m = Call(S, id, by)
  BY <1>2, AgentGraphAssumption DEF Call, Fits, Message, Kind, Text, Keys
<1> QED
  BY <1>1, <1>2 DEF Made

\* An apology.
LEMMA DegradedFacts ==
  ASSUME NEW n \in Nat, NEW by \in Route \cup {"agent"}
  PROVE  LET m == Reply(Degraded, 0, by, <<>>) IN
         Fits(m, n) /\ m.kind = "reply" /\ m.text = Degraded /\ m.key = <<>>
  BY DEF Reply, Fits, Message, Kind, Text, Keys

\* A new answer or new calls, from the LLM of either graph.
LEMMA NewMessageFits ==
  ASSUME ThreadsInv, CountsInv, NEW t \in Thread, run[t] # None,
         run[t].node \in Route \cup {"agent"}, made < MaxMade, made' = made + 1,
         NEW key \in Keys,
         run[t].graph = "single" => key = Prompt(run[t].scope, history[t]),
         key # <<>> => run[t].scope \in Scope /\ key = Prompt(run[t].scope, history[t]),
         NEW m, m \in Made(made', run[t].node, key) \/ m = Reply(Degraded, 0, run[t].node, <<>>),
         Returned(t, m, FALSE)
  PROVE  /\ ThreadsInv' /\ Grows
         /\ AtTools' \subseteq AtTools \cup {t}
         /\ \A u \in Thread \ {t} : history'[u] = history[u]
         /\ t \in AtTools' => Last(history'[t]).id = made'
<1>1. made' \in Nat \ {0} /\ made <= made'
  BY DEF CountsInv
<1>2. /\ Fits(m, made') /\ m.kind \in {"call", "reply"}
      /\ m.kind = "reply" => m.text = Degraded \/ m.key = key
      /\ m.kind = "call" => m.id = made'
      /\ m.key \in {<<>>, key}
  <2>1. CASE m \in Made(made', run[t].node, key)
    BY <1>1, <2>1, MadeFacts
  <2>2. CASE m = Reply(Degraded, 0, run[t].node, <<>>)
    BY <1>1, <2>2, DegradedFacts
  <2> QED
    BY <2>1, <2>2
<1>3. /\ ThreadsInv' /\ Grows /\ AtTools' \subseteq AtTools \cup {t}
      /\ \A u \in Thread \ {t} : history'[u] = history[u]
      /\ t \in AtTools' => m.kind = "call" /\ Last(history'[t]) = m
  BY <1>1, <1>2, ReturnedFits
<1> QED
  BY <1>2, <1>3

\* The single graph asks its LLM.
LEMMA AgentMissFits ==
  ASSUME ThreadsInv, CountsInv, NEW t \in Thread, AgentMiss(t)
  PROVE  /\ ThreadsInv' /\ Grows
         /\ AtTools' \subseteq AtTools \cup {t}
         /\ \A u \in Thread \ {t} : history'[u] = history[u]
         /\ t \in AtTools' => Last(history'[t]).id = made'
<1> DEFINE key == Prompt(run[t].scope, history[t])
<1>1. run[t] # None /\ run[t].node = "agent" /\ made < MaxMade /\ made' = made + 1
  BY DEF AgentMiss
<1>2. key \in Keys
  BY <1>1, RunFacts, PromptFacts
<1>3. PICK m : /\ m \in Made(made', "agent", key) \/ m = Reply(Degraded, 0, "agent", <<>>)
               /\ Returned(t, m, FALSE)
  BY <1>1 DEF AgentMiss
<1>4. run[t].scope \in Scope
  BY <1>1, RunFacts, AgentGraphAssumption DEF NodeFits
<1> HIDE DEF key
<1> QED
  BY <1>1, <1>2, <1>3, <1>4, NewMessageFits DEF key

\* The multi graph asks its LLM.
LEMMA SubAgentFits ==
  ASSUME ThreadsInv, CountsInv, NEW t \in Thread, SubAgent(t)
  PROVE  /\ ThreadsInv' /\ Grows
         /\ AtTools' \subseteq AtTools \cup {t}
         /\ \A u \in Thread \ {t} : history'[u] = history[u]
         /\ t \in AtTools' => Last(history'[t]).id = made'
<1>1. run[t] # None /\ run[t].node \in Route /\ made < MaxMade /\ made' = made + 1
  BY DEF SubAgent
<1>2. run[t].graph # "single"
  BY <1>1, RunFacts, AgentGraphAssumption DEF NodeFits
<1>3. <<>> \in Keys
  BY DEF Keys
<1>4. PICK m : /\ m \in Made(made', run[t].node, <<>>) \/ m = Reply(Degraded, 0, run[t].node, <<>>)
               /\ Returned(t, m, FALSE)
  BY <1>1 DEF SubAgent
<1> QED
  BY <1>1, <1>2, <1>3, <1>4, NewMessageFits

\* The router leads on to an agent.
LEMMA RouterFits ==
  ASSUME ThreadsInv, CountsInv, RoutesInv, NEW t \in Thread, Router(t)
  PROVE  /\ ThreadsInv' /\ RoutesInv'
         /\ AtTools' \subseteq AtTools
         /\ history' = history
<1> DEFINE old == history[t]
           q == Last(old).text
<1>1. run[t] # None /\ run[t].node = "router" /\ made' = made /\ history' = history
  BY DEF Router
<1>2. made' \in Nat /\ made <= made'
  BY <1>1 DEF CountsInv
<1>3. /\ run[t] \in Running /\ NodeFits(run[t]) /\ LastFits(old, "router")
      /\ CallsFit(old, run[t], ended[t]) /\ Fits(Last(old), made) /\ AnswersFit(old)
      /\ old \in Seq(Message) /\ Len(old) \in Nat \ {0} /\ Last(old) = old[Len(old)]
  BY <1>1, RunFacts
<1>4. Last(old).kind = "human" /\ q \in Question /\ old # <<>>
  BY <1>3 DEF LastFits, Fits
<1>5. \A i \in 1..Len(old) : old[i].kind = "call" => Settled(old, i)
  BY <1>1, <1>3, <1>4, CallsAreSettled
<1>6. PICK r \in Route : GoTo(t, r, r, FALSE)
  BY <1>1, AgentGraphAssumption DEF Router, RoutesInv
<1>7. \A i \in 1..Len(old) : Fits(old[i], made')
  BY <1>1 DEF ThreadsInv, ThreadFits
<1>8. r # "end" /\ r \notin {"validate", "router", "agent", "tools"}
  BY AgentGraphAssumption
<1>9. LastFits(old, r)
  BY <1>4, <1>8 DEF LastFits
<1>10. NodeFits([run[t] EXCEPT !.node = r, !.route = r])
  BY <1>1, <1>3, <1>8 DEF NodeFits, Running
<1>11. history' = [history EXCEPT ![t] = old]
  BY <1>1 DEF ThreadsInv
<1>12. ThreadsInv'
  BY <1>1, <1>2, <1>3, <1>5, <1>6, <1>7, <1>8, <1>9, <1>10, <1>11, GoToFits
<1>13. t \notin AtTools' /\ \A u \in Thread \ {t} : run'[u] = run[u]
  BY <1>1, <1>6, <1>8, GoToTools
<1>14. AtTools' \subseteq AtTools
  BY <1>13 DEF AtTools
<1>15. RoutesInv'
  BY <1>4 DEF Router, RoutesInv
<1> QED
  BY <1>1, <1>12, <1>14, <1>15

\* The tools answer every call of the last message, right behind it.
LEMMA ToolsFits ==
  ASSUME ThreadsInv, CountsInv, NEW t \in Thread, Tools(t)
  PROVE  /\ ThreadsInv' /\ Grows
         /\ AtTools' = AtTools \ {t}
         /\ \A u \in AtTools' : history'[u] = history[u]
<1> DEFINE old == history[t]
           m == Last(old)
           res == SetToSeq({Result(tool, m.id) : tool \in m.calls})
           msgs == old \o res
           next == AfterTools(t)
<1>1. /\ run[t] # None /\ run[t].node = "tools" /\ made' = made
      /\ history' = [history EXCEPT ![t] = msgs]
      /\ GoTo(t, next, run[t].route, FALSE)
  BY DEF Tools, ThreadsInv
<1>2. made' \in Nat /\ made <= made'
  BY <1>1 DEF CountsInv
<1>3. /\ run[t] \in Running /\ NodeFits(run[t]) /\ LastFits(old, "tools")
      /\ CallsFit(old, run[t], ended[t]) /\ Fits(m, made) /\ AnswersFit(old)
      /\ old \in Seq(Message) /\ Len(old) \in Nat \ {0} /\ m = old[Len(old)]
  BY <1>1, RunFacts
<1>4. m \in Message /\ m.kind = "call" /\ m.calls # {} /\ m.id <= made
  BY <1>3 DEF LastFits, Fits
<1>5. m.calls \in SUBSET Tool /\ m.id \in Nat
  BY <1>4 DEF Message
<1> HIDE DEF m
<1>6. /\ res \in Seq(Message) /\ Len(res) = Cardinality(m.calls)
      /\ \A i \in 1..Len(res) :
           /\ res[i].kind = "result" /\ res[i].id = m.id
           /\ res[i].calls = {} /\ res[i].text \in m.calls /\ res[i].key = <<>>
      /\ \A tool \in m.calls : \E i \in 1..Len(res) : res[i].text = tool
  <2> DEFINE R == {Result(tool, m.id) : tool \in m.calls}
  <2>1. \A tool \in m.calls : Result(tool, m.id) \in R
    OBVIOUS
  <2>2. \A x \in R : \E tool \in m.calls : x = Result(tool, m.id)
    OBVIOUS
  <2>3. res = SetToSeq(R)
    OBVIOUS
  <2> HIDE DEF R, res
  <2> QED
    <3>1. Answers(res, m.calls, m.id)
      BY <1>5, <2>1, <2>2, <2>3, ResultFacts
    <3> QED
      BY <3>1 DEF Answers
<1> HIDE DEF res
<1>7. Len(res) \in Nat \ {0}
  BY <1>4, <1>6, EmptySeq, LenProperties
<1>8. /\ msgs \in Seq(Message) /\ Len(msgs) = Len(old) + Len(res)
      /\ \A i \in 1..Len(old) + Len(res) :
           msgs[i] = IF i <= Len(old) THEN old[i] ELSE res[i - Len(old)]
  <2>1. old \in Seq(Message) /\ res \in Seq(Message)
    BY <1>3, <1>6
  <2> HIDE DEF old
  <2> QED
    BY <2>1, ConcatProperties
<1> HIDE DEF msgs
<1>9. Extends(old, msgs)
  <2>1. Len(old) \in Nat
    BY <1>3
  <2> HIDE DEF old
  <2>2. \A i \in 1..Len(old) : i \in 1..Len(old) + Len(res) /\ i <= Len(old)
    BY <1>7, <2>1
  <2> QED
    BY <1>7, <1>8, <2>1, <2>2 DEF Extends
<1>10. ASSUME NEW j \in 1..Len(res)
       PROVE  Len(old) + j \in 1..Len(old) + Len(res) /\ msgs[Len(old) + j] = res[j]
  <2>1. Len(old) \in Nat
    BY <1>3
  <2> HIDE DEF old
  <2>2. /\ Len(old) + j \in 1..Len(old) + Len(res) /\ ~(Len(old) + j <= Len(old))
        /\ Len(old) + j - Len(old) = j
    BY <1>7, <2>1
  <2> QED
    BY <1>8, <2>2
<1>11. \A i \in (Len(old) + 1)..(Len(old) + Len(res)) :
         i - Len(old) \in 1..Len(res) /\ msgs[i] = res[i - Len(old)]
  BY <1>3, <1>7, <1>8
<1>12. AnswersFit(msgs)
  <2>1. \A i \in (Len(old) + 1)..Len(msgs) : msgs[i].key = <<>>
    BY <1>6, <1>8, <1>11
  <2> QED
    BY <1>3, <1>8, <1>9, <2>1, AnswersStay
<1>13. Grows
  BY <1>1, <1>8, <1>9, GrowsFacts
<1>14. ASSUME NEW i \in 1..Len(msgs)
       PROVE  Fits(msgs[i], made')
  <2>1. CASE i <= Len(old)
    BY <1>1, <1>3, <1>7, <1>8, <2>1 DEF ThreadsInv, ThreadFits
  <2>2. CASE ~(i <= Len(old))
    <3>1. i \in (Len(old) + 1)..(Len(old) + Len(res))
      BY <1>3, <1>7, <1>8, <2>2
    <3>2. PICK j \in 1..Len(res) : msgs[i] = res[j]
      BY <1>11, <3>1
    <3>3. res[j] \in Message /\ res[j].kind = "result" /\ res[j].id = m.id /\ res[j].calls = {}
      BY <1>6, ElementOfSeq
    <3> QED
      BY <1>1, <1>4, <3>2, <3>3 DEF Fits
  <2> QED
    BY <2>1, <2>2
<1>15. AnsweredAt(msgs, Len(old))
  <2>1. msgs[Len(old)] = m
    BY <1>3, <1>9 DEF Extends
  <2>2. {msgs[j].text : j \in (Len(old) + 1)..(Len(old) + Len(res))} = m.calls
    <3>1. \A j \in (Len(old) + 1)..(Len(old) + Len(res)) : msgs[j].text \in m.calls
      BY <1>6, <1>11
    <3>2. \A j \in 1..Len(res) : Len(old) + j \in (Len(old) + 1)..(Len(old) + Len(res))
      BY <1>3, <1>7
    <3>3. ASSUME NEW tool \in m.calls
          PROVE  \E j \in (Len(old) + 1)..(Len(old) + Len(res)) : msgs[j].text = tool
      <4>1. PICK i \in 1..Len(res) : res[i].text = tool
        BY <1>6
      <4> QED
        BY <1>10, <3>2, <4>1
    <3> QED
      BY <3>1, <3>3
  <2>3. \A j \in (Len(old) + 1)..(Len(old) + Len(res)) :
          msgs[j].kind = "result" /\ msgs[j].id = m.id
    BY <1>6, <1>11
  <2>4. Len(old) + Len(res) <= Len(msgs)
    BY <1>3, <1>7, <1>8
  <2> QED
    BY <1>6, <2>1, <2>2, <2>3, <2>4 DEF AnsweredAt
<1>16. ASSUME NEW i \in 1..Len(msgs), msgs[i].kind = "call"
       PROVE  Settled(msgs, i)
  <2>1. CASE i = Len(old)
    BY <1>15, <2>1 DEF Settled
  <2>2. CASE i \in 1..Len(old) /\ i # Len(old)
    <3>1. msgs[i] = old[i]
      BY <1>9, <2>2 DEF Extends
    <3>2. Settled(old, i)
      BY <1>3, <1>16, <2>2, <3>1, CallsAreSettled
    <3> QED
      BY <1>3, <1>8, <1>9, <2>2, <3>2, SettledStays
  <2>3. CASE ~(i <= Len(old))
    <3>1. i \in (Len(old) + 1)..(Len(old) + Len(res))
      BY <1>3, <1>7, <1>8, <2>3
    <3> QED
      BY <1>6, <1>11, <1>16, <3>1
  <2> QED
    BY <1>3, <2>1, <2>2, <2>3
<1>17. Last(msgs).kind = "result" /\ msgs # <<>>
  <2>1. Len(old) + Len(res) \in (Len(old) + 1)..(Len(old) + Len(res))
    BY <1>3, <1>7
  <2>2. msgs[Len(msgs)].kind = "result"
    BY <1>6, <1>8, <1>11, <2>1
  <2>3. Len(msgs) # 0
    BY <1>3, <1>7, <1>8
  <2> QED
    BY <2>2, <2>3, EmptySeq DEF Last
<1>18. next \in Route \cup {"agent"} /\ NodeFits([run[t] EXCEPT !.node = next, !.route = run[t].route])
  <2>1. run[t].graph \in {"single", "multi"}
    BY <1>3 DEF Running
  <2> QED
    BY <1>1, <1>3, <2>1, AgentGraphAssumption DEF AfterTools, NodeFits, Running
<1>19. run[t].route \in Route \cup {None}
  BY <1>3 DEF Running
<1> HIDE DEF next
<1>20. next \notin {"validate", "router", "tools", "end"}
  BY <1>18, AgentGraphAssumption
<1>21. LastFits(msgs, next)
  BY <1>17, <1>20 DEF LastFits
<1>22. ThreadsInv'
  BY <1>1, <1>2, <1>8, <1>14, <1>16, <1>18, <1>19, <1>20, <1>21, <1>12, GoToFits
<1>23. t \notin AtTools' /\ \A u \in Thread \ {t} : run'[u] = run[u]
  BY <1>1, <1>20, GoToTools
<1>24. AtTools' = AtTools \ {t}
  BY <1>23 DEF AtTools
<1> QED
  BY <1>1, <1>22, <1>24, <1>13 DEF ThreadsInv, AtTools

\* A run that is cut off leaves its history as it is.
LEMMA AbandonFits ==
  ASSUME ThreadsInv, CountsInv, NEW t \in Thread, Abandon(t)
  PROVE  ThreadsInv' /\ AtTools' = AtTools \ {t} /\ history' = history
<1>1. /\ run[t] # None /\ End(t, "failed", FALSE)
      /\ history' = history /\ made' = made
  BY DEF Abandon
<1>2. made' \in Nat /\ made <= made'
  BY <1>1 DEF CountsInv
<1>3. ThreadsInv'
  BY <1>1, <1>2, EndFails
<1>4. run' = [run EXCEPT ![t] = None]
  BY <1>1 DEF End
<1>5. AtTools' = AtTools \ {t}
  BY <1>4 DEF AtTools, ThreadsInv
<1> QED
  BY <1>1, <1>3, <1>5

\* A restart cuts off all runs.
LEMMA RestartFits ==
  ASSUME ThreadsInv, CountsInv, Restart
  PROVE  ThreadsInv' /\ AtTools' = {}
<1> DEFINE e(t) == [how |-> "failed", scope |-> run[t].scope, graph |-> run[t].graph, hit |-> FALSE]
<1>1. /\ history' = history /\ made' = made
      /\ run' = [t \in Thread |-> None]
      /\ ended' = [t \in Thread |-> IF run[t] = None THEN ended[t] ELSE e(t)]
  BY DEF Restart
<1>2. ASSUME NEW t \in Thread, run[t] # None
      PROVE  e(t) \in Ending /\ e(t).how = "failed"
  BY <1>2, RunFacts DEF Ending
<1> HIDE DEF e
<1>3. ASSUME NEW t \in Thread
      PROVE  ended'[t] \in Ending /\ ThreadFits(history'[t], run'[t], ended'[t], made')
  <2>1. CASE run[t] = None
    BY <1>1, <2>1 DEF ThreadsInv
  <2>2. CASE run[t] # None
    <3>1. ended'[t] = e(t) /\ run'[t] = None /\ history'[t] = history[t]
      BY <1>1, <2>2
    <3>2. /\ history[t] \in Seq(Message) /\ CallsFit(history[t], run[t], ended[t])
          /\ \A i \in 1..Len(history[t]) : Fits(history[t][i], made')
      BY <1>1 DEF ThreadsInv, ThreadFits
    <3>3. CallsFit(history[t], None, e(t))
      BY <1>2, <2>2, <3>2, CallsAreSettled
    <3>4. AnswerFits(history[t], None, e(t))
      BY <1>2, <2>2 DEF AnswerFits
    <3> QED
      BY <1>2, <2>2, <3>1, <3>2, <3>3, <3>4, RunFacts DEF ThreadFits
  <2> QED
    BY <2>1, <2>2
<1>4. run' \in [Thread -> Running \cup {None}] /\ ended' \in [Thread -> Ending]
  BY <1>1, <1>3
<1> QED
  BY <1>1, <1>3, <1>4 DEF ThreadsInv, AtTools
-----------------------------------------------------------------------------
(* What is carried out. *)

\* Runs at their tools wait for calls that are numbered.
LEMMA AtToolsFacts ==
  ASSUME ThreadsInv, CountsInv, NEW t \in AtTools
  PROVE  t \in Thread /\ run[t] # None /\ Last(history[t]).id \in 1..made
<1>1. t \in Thread /\ run[t] # None /\ run[t].node = "tools"
  BY DEF AtTools
<1>2. LastFits(history[t], "tools") /\ Fits(Last(history[t]), made)
  BY <1>1, RunFacts
<1>3. Last(history[t]).id \in Nat /\ Last(history[t]).id # 0 /\ Last(history[t]).id <= made
  BY <1>2 DEF LastFits, Fits, Message
<1> QED
  BY <1>1, <1>3 DEF CountsInv

\* A step that carries out nothing and sends no run to its tools.
LEMMA NothingExecuted ==
  ASSUME ExecutedInv, CountsInv, made' \in Nat, made <= made', executed' = executed,
         AtTools' \subseteq AtTools, \A u \in AtTools' : history'[u] = history[u]
  PROVE  ExecutedInv'
<1>1. \A id \in 1..MaxMade : id > made' => executed'[id] = 0
  BY DEF ExecutedInv, CountsInv
<1>2. \A u \in AtTools' : u \in AtTools /\ Last(history'[u]) = Last(history[u])
  BY DEF Last
<1> QED
  BY <1>1, <1>2 DEF ExecutedInv

\* A step that may have made new calls, under a new number.
LEMMA CallsMade ==
  ASSUME ThreadsInv, ExecutedInv, CountsInv, NEW t \in Thread, t \notin AtTools,
         made < MaxMade, made' = made + 1, executed' = executed,
         AtTools' \subseteq AtTools \cup {t}, \A u \in Thread \ {t} : history'[u] = history[u],
         t \in AtTools' => Last(history'[t]).id = made'
  PROVE  ExecutedInv'
<1>1. made \in Nat /\ made' \in 1..MaxMade
  BY AgentGraphAssumption DEF CountsInv
<1>2. executed[made'] = 0 /\ \A id \in 1..MaxMade : id > made' => executed'[id] = 0
  BY <1>1 DEF ExecutedInv
<1>3. ASSUME NEW u \in AtTools', u # t
      PROVE  u \in AtTools /\ Last(history'[u]) = Last(history[u]) /\ Last(history[u]).id # made'
  <2>1. u \in AtTools
    BY <1>3
  <2>2. u \in Thread /\ Last(history[u]).id \in 1..made
    BY <2>1, AtToolsFacts
  <2>3. history'[u] = history[u]
    BY <1>3, <2>2
  <2> QED
    BY <1>1, <2>1, <2>2, <2>3
<1>4. \A u \in AtTools' : executed'[Last(history'[u]).id] = 0
  BY <1>2, <1>3 DEF ExecutedInv
<1>5. \A u, v \in AtTools' : Last(history'[u]).id = Last(history'[v]).id => u = v
  BY <1>3 DEF ExecutedInv
<1> QED
  BY <1>2, <1>4, <1>5 DEF ExecutedInv

\* A step that carries out calls of a run, which leaves its tools with it.
LEMMA CallsCarried ==
  ASSUME ThreadsInv, ExecutedInv, CountsInv, NEW t \in AtTools, NEW S, Carry(t, S),
         made' = made, AtTools' = AtTools \ {t}, \A u \in AtTools' : history'[u] = history[u]
  PROVE  ExecutedInv'
<1> DEFINE id == Last(history[t]).id
<1>1. id \in 1..made /\ made \in 0..MaxMade /\ id \in 1..MaxMade
  BY AtToolsFacts, AgentGraphAssumption DEF CountsInv
<1>2. executed[id] = 0
  BY DEF ExecutedInv
<1>3. executed' = executed \/ executed' = [executed EXCEPT ![id] = executed[id] + 1]
  BY DEF Carry
<1>4. ASSUME NEW u \in AtTools'
      PROVE  u \in AtTools /\ Last(history'[u]) = Last(history[u]) /\ Last(history[u]).id # id
  BY DEF ExecutedInv
<1> HIDE DEF id
<1>5. /\ executed' \in [1..MaxMade -> {0, 1}]
      /\ \A i \in 1..MaxMade : i # id => executed'[i] = executed[i]
  <2>1. executed \in [1..MaxMade -> {0, 1}]
    BY DEF ExecutedInv
  <2>2. CASE executed' = executed
    BY <2>1, <2>2
  <2>3. CASE executed' = [executed EXCEPT ![id] = executed[id] + 1]
    <3>1. executed' = [executed EXCEPT ![id] = 1]
      BY <1>2, <2>3
    <3> QED
      BY <2>1, <3>1
  <2> QED
    BY <1>3, <2>2, <2>3
<1>6. \A i \in 1..MaxMade : i > made' => executed'[i] = 0
  BY <1>1, <1>5 DEF ExecutedInv
<1>7. ASSUME NEW u \in AtTools'
      PROVE  executed'[Last(history'[u]).id] = 0
  <2>1. u \in AtTools
    BY <1>4
  <2>2. Last(history[u]).id \in 1..made
    BY <2>1, AtToolsFacts
  <2>3. Last(history[u]).id \in 1..MaxMade
    BY <1>1, <2>2, AgentGraphAssumption
  <2>4. executed[Last(history[u]).id] = 0
    BY <2>1 DEF ExecutedInv
  <2> QED
    BY <1>4, <1>5, <2>3, <2>4
<1>8. \A u, v \in AtTools' : Last(history'[u]).id = Last(history'[v]).id => u = v
  BY <1>4 DEF ExecutedInv
<1> QED
  BY <1>5, <1>6, <1>7, <1>8 DEF ExecutedInv

\* A restart finds some runs' tools done, each message of one run only.
LEMMA RestartExecuted ==
  ASSUME ThreadsInv, ExecutedInv, CountsInv, Restart, AtTools' = {}
  PROVE  ExecutedInv'
<1> DEFINE Of(id, Done) == {t \in Done : Last(history[t]).id = id}
<1>1. PICK Done \in SUBSET AtTools :
        executed' = [id \in 1..MaxMade |-> executed[id] + Cardinality(Of(id, Done))]
  <2>1. PICK Done \in SUBSET {t \in Thread : /\ run[t] # None /\ run[t].node = "tools"
                                             /\ Last(history[t]).calls \cap Bound(t) # {}} :
          executed' = [id \in DOMAIN executed |-> executed[id] + Cardinality(Of(id, Done))]
    BY DEF Restart
  <2>2. Done \in SUBSET AtTools
    BY DEF AtTools
  <2> QED
    BY <2>1, <2>2 DEF ExecutedInv
<1>2. ASSUME NEW id \in 1..MaxMade
      PROVE  executed'[id] \in {0, 1} /\ (id > made => executed'[id] = 0)
  <2>1. executed'[id] = executed[id] + Cardinality(Of(id, Done)) /\ executed[id] \in {0, 1}
    BY <1>1 DEF ExecutedInv
  <2>2. CASE Of(id, Done) = {}
    <3>1. Cardinality(Of(id, Done)) = 0
      BY <2>2, FS_EmptySet
    <3> QED
      BY <2>1, <3>1 DEF ExecutedInv
  <2>3. CASE Of(id, Done) # {}
    <3>1. PICK t \in AtTools : Last(history[t]).id = id /\ Of(id, Done) = {t}
      BY <2>3 DEF ExecutedInv
    <3>2. Cardinality(Of(id, Done)) = 1
      BY <3>1, FS_Singleton
    <3>3. executed[id] = 0 /\ ~(id > made)
      BY <3>1, AtToolsFacts DEF ExecutedInv, CountsInv
    <3> QED
      BY <2>1, <3>2, <3>3
  <2> QED
    BY <2>2, <2>3
<1>3. executed' \in [1..MaxMade -> {0, 1}] /\ made' = made
  BY <1>1, <1>2 DEF Restart
<1> QED
  BY <1>2, <1>3 DEF ExecutedInv
-----------------------------------------------------------------------------
(* The inductive invariant. *)

\* What was cached stays what it is.
LEMMA CacheKept ==
  ASSUME CacheInv, CountsInv, made' \in Nat, made <= made',
         DOMAIN cache' \subseteq DOMAIN cache, \A k \in DOMAIN cache' : cache'[k] = cache[k]
  PROVE  CacheInv'
<1> SUFFICES ASSUME NEW k \in DOMAIN cache'
             PROVE  /\ Fits(cache[k], made') /\ cache[k].kind = "reply" /\ cache[k].text \in Answer
                    /\ cache[k].key = k
  BY DEF CacheInv
<1> QED
  BY FitsLater DEF CacheInv, CountsInv

\* Nothing has been asked.
LEMMA InitInv == Init => IInv
<1> SUFFICES ASSUME Init PROVE IInv
  OBVIOUS
<1>1. DOMAIN <<>> = {} /\ Len(<<>>) = 0 /\ <<>> \in Seq(Message)
  BY EmptySeq, LenProperties
<1>2. CountsInv /\ RoutesInv /\ CacheInv
  BY <1>1, AgentGraphAssumption DEF Init, CountsInv, RoutesInv, CacheInv
<1>3. NotEnded \in Ending /\ NotEnded.how = "none"
  BY DEF NotEnded, Ending
<1>4. ThreadsInv
  <2>1. /\ CallsFit(<<>>, None, NotEnded) /\ AnswerFits(<<>>, None, NotEnded)
        /\ AnswersFit(<<>>)
    BY <1>1, <1>3 DEF CallsFit, AnswerFits, AnswersFit
  <2>2. ThreadFits(<<>>, None, NotEnded, made)
    BY <1>1, <2>1 DEF ThreadFits
  <2> QED
    BY <1>1, <1>3, <2>2 DEF Init, ThreadsInv
<1>5. ExecutedInv
  BY DEF Init, ExecutedInv, AtTools
<1> QED
  BY <1>2, <1>4, <1>5 DEF IInv

\* A cached answer changes nothing but its thread.
LEMMA AgentHitInv ==
  ASSUME IInv, NEW t \in Thread, AgentHit(t)
  PROVE  IInv'
<1>1. ThreadsInv' /\ AtTools' \subseteq AtTools /\ \A u \in AtTools' : history'[u] = history[u]
  BY AgentHitFits DEF IInv
<1>2. UNCHANGED <<cache, routes, asked, made, executed>>
  BY DEF AgentHit
<1>3. CountsInv' /\ RoutesInv' /\ made' \in Nat /\ made <= made'
  BY <1>2 DEF IInv, CountsInv, RoutesInv
<1>4. CacheInv'
  BY <1>2, <1>3, CacheKept DEF IInv
<1>5. ExecutedInv'
  BY <1>1, <1>2, <1>3, NothingExecuted DEF IInv
<1> QED
  BY <1>1, <1>3, <1>4, <1>5 DEF IInv

\* An answer is cached under the prompt it was made for.
LEMMA AgentMissInv ==
  ASSUME IInv, NEW t \in Thread, AgentMiss(t)
  PROVE  IInv'
<1> DEFINE key == Key(run[t].scope, history[t])
           prompt == Prompt(run[t].scope, history[t])
<1>1. /\ run[t] # None /\ run[t].node = "agent"
      /\ made < MaxMade /\ made' = made + 1 /\ UNCHANGED <<routes, asked, executed>>
  BY DEF AgentMiss
<1>2. made \in Nat /\ made' \in Nat \ {0} /\ made <= made' /\ CountsInv' /\ RoutesInv'
  BY <1>1, AgentGraphAssumption DEF IInv, CountsInv, RoutesInv
<1>3. /\ ThreadsInv' /\ AtTools' \subseteq AtTools \cup {t}
      /\ \A u \in Thread \ {t} : history'[u] = history[u]
      /\ t \in AtTools' => Last(history'[t]).id = made'
  BY AgentMissFits DEF IInv
<1>4. t \notin AtTools
  BY <1>1 DEF AtTools
<1>5. ExecutedInv'
  BY <1>1, <1>3, <1>4, CallsMade DEF IInv
<1>6. key = prompt /\ prompt \in Keys
  BY <1>1, RunFacts, PromptFacts DEF IInv
<1>7. PICK m : \/ m \in Made(made', "agent", prompt) /\ cache' = Cached(cache, key, m)
               \/ cache' = cache
  BY <1>1 DEF AgentMiss
<1> HIDE DEF key, prompt
<1>8. CASE cache' = cache \/ (cache' = Cached(cache, key, m) /\ m.kind = "call")
  <2>1. cache' = cache
    BY <1>8 DEF Cached
  <2>2. CacheInv'
    BY <1>2, <2>1, CacheKept DEF IInv
  <2> QED
    BY <1>2, <1>3, <1>5, <2>2 DEF IInv
<1>9. CASE /\ m \in Made(made', "agent", prompt) /\ m.kind # "call"
           /\ cache' = Cached(cache, key, m)
  <2>1. /\ DOMAIN cache' = DOMAIN cache \cup {key} /\ cache'[key] = m
        /\ \A k \in DOMAIN cache \ {key} : cache'[k] = cache[k]
    BY <1>9 DEF Cached
  <2>2. Fits(m, made') /\ m.kind = "reply" /\ m.text \in Answer /\ m.key = key
    <3>1. made' \in Nat \ {0} /\ "agent" \in Route \cup {"agent"} /\ prompt \in Keys
          /\ m \in Made(made', "agent", prompt)
      BY <1>2, <1>6, <1>9
    <3>2. /\ Fits(m, made') /\ m.kind \in {"call", "reply"}
          /\ m.kind = "reply" => m.text \in Answer /\ m.key = prompt
      BY <3>1, MadeFacts
    <3> QED
      BY <1>6, <1>9, <3>2
  <2>3. ASSUME NEW k \in DOMAIN cache \ {key}
        PROVE  /\ Fits(cache[k], made') /\ cache[k].kind = "reply" /\ cache[k].text \in Answer
               /\ cache[k].key = k
    BY <1>2, FitsLater DEF IInv, CacheInv
  <2>4. CacheInv'
    BY <2>1, <2>2, <2>3 DEF CacheInv
  <2> QED
    BY <1>2, <1>3, <1>5, <2>4 DEF IInv
<1> QED
  BY <1>7, <1>8, <1>9

\* A sub-agent puts nothing in the cache.
LEMMA SubAgentInv ==
  ASSUME IInv, NEW t \in Thread, SubAgent(t)
  PROVE  IInv'
<1>1. /\ run[t] # None /\ run[t].node \in Route /\ made < MaxMade /\ made' = made + 1
      /\ UNCHANGED <<cache, routes, asked, executed>>
  BY DEF SubAgent
<1>2. made' \in Nat /\ made <= made' /\ CountsInv' /\ RoutesInv'
  BY <1>1, AgentGraphAssumption DEF IInv, CountsInv, RoutesInv
<1>3. /\ ThreadsInv' /\ AtTools' \subseteq AtTools \cup {t}
      /\ \A u \in Thread \ {t} : history'[u] = history[u]
      /\ t \in AtTools' => Last(history'[t]).id = made'
  BY SubAgentFits DEF IInv
<1>4. t \notin AtTools
  BY <1>1, AgentGraphAssumption DEF AtTools
<1>5. ExecutedInv'
  BY <1>1, <1>3, <1>4, CallsMade DEF IInv
<1>6. CacheInv'
  BY <1>1, <1>2, CacheKept DEF IInv
<1> QED
  BY <1>2, <1>3, <1>5, <1>6 DEF IInv

\* A question changes nothing but its thread.
LEMMA AskInv ==
  ASSUME IInv, NEW t \in Thread, NEW graph \in {"single", "multi"},
         NEW scope \in Scope \cup {None}, NEW q \in Question, Ask(t, graph, scope, q)
  PROVE  IInv'
<1>1. ThreadsInv' /\ AtTools' = AtTools /\ \A u \in AtTools' : history'[u] = history[u]
  BY AskFits DEF IInv
<1>2. asked < MaxAsked /\ asked' = asked + 1 /\ UNCHANGED <<cache, routes, made, executed>>
  BY DEF Ask
<1>3. made' \in Nat /\ made <= made' /\ CountsInv' /\ RoutesInv'
  BY <1>2, AgentGraphAssumption DEF IInv, CountsInv, RoutesInv
<1>4. CacheInv' /\ ExecutedInv'
  BY <1>1, <1>2, <1>3, CacheKept, NothingExecuted DEF IInv
<1> QED
  BY <1>1, <1>3, <1>4 DEF IInv

\* Nor does its validation change more.
LEMMA ValidateInv ==
  ASSUME IInv, NEW t \in Thread, Validate(t)
  PROVE  IInv'
<1>1. ThreadsInv' /\ AtTools' \subseteq AtTools /\ \A u \in AtTools' : history'[u] = history[u]
  BY ValidateFits DEF IInv
<1>2. UNCHANGED <<cache, routes, asked, made, executed>>
  BY DEF Validate
<1>3. made' \in Nat /\ made <= made' /\ CountsInv' /\ RoutesInv'
  BY <1>2 DEF IInv, CountsInv, RoutesInv
<1>4. CacheInv' /\ ExecutedInv'
  BY <1>1, <1>2, <1>3, CacheKept, NothingExecuted DEF IInv
<1> QED
  BY <1>1, <1>3, <1>4 DEF IInv

\* What the router learns is a route.
LEMMA RouterInv ==
  ASSUME IInv, NEW t \in Thread, Router(t)
  PROVE  IInv'
<1>1. ThreadsInv' /\ RoutesInv' /\ AtTools' \subseteq AtTools /\ history' = history
  BY RouterFits DEF IInv
<1>2. UNCHANGED <<cache, asked, made, executed>>
  BY DEF Router
<1>3. made' \in Nat /\ made <= made' /\ CountsInv'
  BY <1>2 DEF IInv, CountsInv
<1>4. CacheInv' /\ ExecutedInv'
  BY <1>1, <1>2, <1>3, CacheKept, NothingExecuted DEF IInv
<1> QED
  BY <1>1, <1>3, <1>4 DEF IInv

\* The calls carried out are those the run has waited with.
LEMMA ToolsInv ==
  ASSUME IInv, NEW t \in Thread, Tools(t)
  PROVE  IInv'
<1>1. ThreadsInv' /\ AtTools' = AtTools \ {t} /\ \A u \in AtTools' : history'[u] = history[u]
  BY ToolsFits DEF IInv
<1>2. /\ UNCHANGED <<cache, routes, asked, made>> /\ t \in AtTools
      /\ Carry(t, Last(history[t]).calls \cap Bound(t))
  BY DEF Tools, AtTools
<1>3. made' \in Nat /\ made <= made' /\ CountsInv' /\ RoutesInv'
  BY <1>2 DEF IInv, CountsInv, RoutesInv
<1>4. CacheInv'
  BY <1>2, <1>3, CacheKept DEF IInv
<1>5. ExecutedInv'
  BY <1>1, <1>2, CallsCarried DEF IInv
<1> QED
  BY <1>1, <1>3, <1>4, <1>5 DEF IInv

\* A run cut off at its tools may have carried out its calls, and never returns to them.
LEMMA AbandonInv ==
  ASSUME IInv, NEW t \in Thread, Abandon(t)
  PROVE  IInv'
<1>1. ThreadsInv' /\ AtTools' = AtTools \ {t} /\ history' = history
  BY AbandonFits DEF IInv
<1>2. UNCHANGED <<cache, routes, asked, made>> /\ run[t] # None
  BY DEF Abandon
<1>3. made' \in Nat /\ made <= made' /\ CountsInv' /\ RoutesInv'
  BY <1>2 DEF IInv, CountsInv, RoutesInv
<1>4. CacheInv'
  BY <1>2, <1>3, CacheKept DEF IInv
<1>5. ExecutedInv'
  <2>1. CASE t \in AtTools
    <3>1. \E S : Carry(t, S)
      BY <2>1 DEF Abandon, AtTools
    <3> QED
      BY <1>1, <1>2, <2>1, <3>1, CallsCarried DEF IInv
  <2>2. CASE t \notin AtTools
    <3>1. executed' = executed
      BY <1>2, <2>2 DEF Abandon, AtTools
    <3> QED
      BY <1>1, <1>3, <3>1, NothingExecuted DEF IInv
  <2> QED
    BY <2>1, <2>2
<1> QED
  BY <1>1, <1>3, <1>4, <1>5 DEF IInv

\* All runs a restart cuts off may have carried out theirs, no two the same ones.
LEMMA RestartInv ==
  ASSUME IInv, Restart
  PROVE  IInv'
<1>1. ThreadsInv' /\ AtTools' = {}
  BY RestartFits DEF IInv
<1>2. cache' = <<>> /\ routes' = <<>> /\ UNCHANGED <<history, asked, made>>
  BY DEF Restart
<1>3. DOMAIN <<>> = {}
  OBVIOUS
<1>4. CountsInv' /\ RoutesInv' /\ CacheInv'
  BY <1>2, <1>3 DEF IInv, CountsInv, RoutesInv, CacheInv
<1>5. ExecutedInv'
  BY <1>1, RestartExecuted DEF IInv
<1> QED
  BY <1>1, <1>4, <1>5 DEF IInv

\* An entry of a cache is gone, or nothing has happened at all.
LEMMA ExpireInv ==
  ASSUME IInv, Expire \/ ExpireRoute \/ UNCHANGED vars
  PROVE  IInv'
<1>1. UNCHANGED <<history, run, asked, made, ended, executed>>
  BY DEF Expire, ExpireRoute, vars
<1>2. made' \in Nat /\ made <= made' /\ CountsInv'
  BY <1>1 DEF IInv, CountsInv
<1>3. ThreadsInv'
  BY <1>1 DEF IInv, ThreadsInv
<1>4. AtTools' = AtTools
  BY <1>1 DEF AtTools
<1>5. DOMAIN cache' \subseteq DOMAIN cache /\ \A k \in DOMAIN cache' : cache'[k] = cache[k]
  BY DEF Expire, ExpireRoute, vars
<1>6. DOMAIN routes' \subseteq DOMAIN routes /\ \A k \in DOMAIN routes' : routes'[k] = routes[k]
  BY DEF Expire, ExpireRoute, vars
<1>7. RoutesInv'
  BY <1>6 DEF IInv, RoutesInv
<1>8. CacheInv' /\ ExecutedInv'
  BY <1>1, <1>2, <1>4, <1>5, CacheKept, NothingExecuted DEF IInv
<1> QED
  BY <1>2, <1>3, <1>7, <1>8 DEF IInv

\* The inductive invariant holds of every reachable state.
THEOREM InductiveInvariant == Spec => []IInv
<1>1. IInv /\ [Next]_vars => IInv'
  <2> SUFFICES ASSUME IInv, [Next]_vars PROVE IInv'
    OBVIOUS
  <2>1. ASSUME NEW t \in Thread, Step(t) PROVE IInv'
    BY <2>1, ValidateInv, AgentHitInv, AgentMissInv, RouterInv, SubAgentInv, ToolsInv DEF Step
  <2> QED
    BY <2>1, AskInv, AbandonInv, RestartInv, ExpireInv DEF Next
<1> QED
  BY InitInv, <1>1, PTL DEF Spec

\* What is so of every reachable state: the type invariant.
LEMMA IInvTypeOK == IInv => TypeOK
<1> SUFFICES ASSUME IInv PROVE TypeOK
  OBVIOUS
<1>1. made \in Nat /\ made \in 0..MaxMade /\ asked \in 0..MaxAsked
  BY AgentGraphAssumption DEF IInv, CountsInv
<1>2. ASSUME NEW t \in Thread, NEW i \in DOMAIN history[t]
      PROVE  LET m == history[t][i] IN
             /\ m.kind \in {"human", "call", "result", "reply"} /\ m.id \in 0..made
             /\ (m.kind = "call") = (m.calls # {}) /\ m.calls \subseteq Tool
             /\ m.by \in Route \cup {"agent", None}
  <2> DEFINE m == history[t][i]
  <2>1. history[t] \in Seq(Message) /\ ThreadFits(history[t], run[t], ended[t], made)
    BY DEF IInv, ThreadsInv
  <2>2. i \in 1..Len(history[t])
    BY <2>1, LenProperties
  <2>3. Fits(m, made)
    BY <2>1, <2>2 DEF ThreadFits
  <2>4. m \in Message /\ m.id <= made /\ (m.kind = "call") = (m.calls # {})
    BY <2>3 DEF Fits
  <2> HIDE DEF m
  <2>5. m.id \in Nat
    BY <2>4 DEF Message
  <2>6. m.id \in 0..made
    BY <1>1, <2>4, <2>5
  <2>7. m.kind \in Kind /\ m.calls \in SUBSET Tool /\ m.by \in Route \cup {"agent", None}
    BY <2>4 DEF Message
  <2> QED
    BY <2>4, <2>6, <2>7 DEF Kind, m
<1>3. \A t \in Thread : run[t] = None \/ run[t] \in Running
  BY DEF IInv, ThreadsInv
<1>4. \A t \in Thread : ended[t].how \in {"none", "done", "failed"} /\ ended[t].hit \in BOOLEAN
  BY DEF IInv, ThreadsInv, Ending
<1>5. executed \in [1..MaxMade -> Nat]
  BY DEF IInv, ExecutedInv
<1>6. \A key \in DOMAIN cache : cache[key].kind = "reply" /\ cache[key].text \in Answer
  BY DEF IInv, CacheInv
<1>7. DOMAIN routes \subseteq Question /\ \A q \in DOMAIN routes : routes[q] \in Route
  BY DEF IInv, RoutesInv
<1> QED
  BY <1>1, <1>2, <1>3, <1>4, <1>5, <1>6, <1>7 DEF TypeOK

\* What is so of every reachable state: calls and answers.
LEMMA IInvAnswers == IInv => CallsAreAnswered /\ ExecutedOnce /\ AnswerFitsView
<1> SUFFICES ASSUME IInv PROVE CallsAreAnswered /\ ExecutedOnce /\ AnswerFitsView
  OBVIOUS
<1>1. ASSUME NEW t \in Thread
      PROVE  CallsFit(history[t], run[t], ended[t]) /\ AnswerFits(history[t], run[t], ended[t])
  BY DEF IInv, ThreadsInv, ThreadFits
<1>2. CallsAreAnswered
  BY <1>1 DEF CallsFit, CallsAreAnswered
<1>3. AnswerFitsView
  BY <1>1 DEF AnswerFits, AnswerFitsView
<1>4. ExecutedOnce
  BY DEF IInv, ExecutedInv, ExecutedOnce
<1> QED
  BY <1>2, <1>3, <1>4

\* Messages, runs, how runs ended, both caches and the counters always have their
\* shapes, for any threads, tools, routes and limits (graph.py, multi_agent.py).
THEOREM TypeCorrect == Spec => []TypeOK
  BY InductiveInvariant, IInvTypeOK, PTL

\* Whatever an LLM answers, and wherever a run is cut off, a history that goes to
\* an LLM answers each tool call in it, or the call is the last thing that was said
\* before a question (graph.py, should_continue; the steps' checkpoints).
THEOREM CallsAnswered == Spec => []CallsAreAnswered
  BY InductiveInvariant, IInvAnswers, PTL

\* No tool call is carried out twice, neither after a hit in the cache of answers
\* nor after a restart (graph.py, _invoke_with_cache).
THEOREM OnceExecuted == Spec => []ExecutedOnce
  BY InductiveInvariant, IInvAnswers, PTL

\* An answer that ends a run of the single graph was made for that run's scope and
\* for what its thread said, from whichever session it came (graph.py, cache_key).
THEOREM AnswersFitTheView == Spec => []AnswerFitsView
  BY InductiveInvariant, IInvAnswers, PTL

\* The same of all answers agent_node ever gave that still stand in a history, not
\* only of the last one: what a later turn puts behind an answer, and the cache
\* that gave it, never make it an answer to something else.
EveryAnswerFits == \A t \in Thread : AnswersFit(history[t])

\* Every answer in a history was made for what stands before it (graph.py,
\* agent_node and cache_key).
THEOREM AnswersStayFitting == Spec => []EveryAnswerFits
<1>1. IInv => EveryAnswerFits
  BY DEF IInv, ThreadsInv, ThreadFits, EveryAnswerFits
<1> QED
  BY <1>1, InductiveInvariant, PTL

\* No step takes anything away from a history.
LEMMA NextGrows ==
  ASSUME IInv, [Next]_vars
  PROVE  Grows
<1>1. history' = history => Grows
  BY GrowsFacts DEF IInv
<1>2. ASSUME NEW t \in Thread, Step(t)
      PROVE  Grows
  <2>1. CASE Router(t)
    BY <1>1, <2>1 DEF Router
  <2> QED
    BY <1>2, <2>1, ValidateFits, AgentHitFits, AgentMissFits, SubAgentFits, ToolsFits DEF Step, IInv
<1>3. ASSUME NEW t \in Thread, NEW graph \in {"single", "multi"},
             NEW scope \in Scope \cup {None}, NEW q \in Question, Ask(t, graph, scope, q)
      PROVE  Grows
  BY <1>3, AskFits DEF IInv
<1>4. ASSUME NEW t \in Thread, Abandon(t)
      PROVE  Grows
  BY <1>1, <1>4 DEF Abandon
<1>5. Restart \/ Expire \/ ExpireRoute \/ UNCHANGED vars => Grows
  BY <1>1 DEF Restart, Expire, ExpireRoute, vars
<1> QED
  BY <1>2, <1>3, <1>4, <1>5 DEF Next

\* No step rewrites or drops a message that a history holds: although add_messages
\* replaces a message by its id, and a cached answer keeps the id of its first use,
\* the edge raises before such a replacement is saved (graph.py, should_continue).
THEOREM HistoriesGrow == Spec => [][\A t \in Thread : Extends(history[t], history'[t])]_vars
<1>1. IInv /\ [Next]_vars => [\A t \in Thread : Extends(history[t], history'[t])]_vars
  BY NextGrows DEF Grows
<1> QED
  BY <1>1, InductiveInvariant, PTL DEF Spec

\* How a run ends whose answer was cached.
LEMMA HitEnds ==
  ASSUME IInv, NEW t \in Thread, AgentHit(t)
  PROVE  (ended'[t].how = "failed") = Repeats(history[t], cache[Key(run[t].scope, history[t])])
<1> DEFINE m == cache[Key(run[t].scope, history[t])]
           old == history[t]
<1>1. run[t] # None /\ run[t].node = "agent" /\ m.kind = "reply" /\ m \in Message
  BY DEF AgentHit, IInv, CacheInv, Fits
<1>2. Returned(t, m, TRUE)
  BY DEF AgentHit
<1>3. old \in Seq(Message) /\ old # <<>> /\ LastFits(old, "agent") /\ Fits(Last(old), made)
  BY <1>1, RunFacts, EmptySeq DEF IInv
<1>4. Last(old).kind = "result" \/ (Last(old).kind = "human" /\ Last(old).id = 0)
  BY <1>3 DEF LastFits, Fits
<1>5. ASSUME NEW how, NEW hit, End(t, how, hit)
      PROVE  ended'[t].how = how
  BY <1>5 DEF End, IInv, ThreadsInv
<1> HIDE DEF m, old
<1>6. CASE Repeats(old, m)
  <2>1. AfterAgent(Added(old, m)) = "raises"
    BY <1>1, <1>3, <1>4, <1>6, AddedFacts
  <2>2. End(t, "failed", TRUE)
    BY <1>2, <2>1 DEF Returned, old
  <2> QED
    BY <1>5, <1>6, <2>2 DEF m, old
<1>7. CASE ~Repeats(old, m)
  <2>1. Added(old, m) = Append(old, m)
    BY <1>1, <1>3, <1>4, <1>7, AddedFacts
  <2>2. Last(Added(old, m)).kind = "reply"
    BY <1>1, <1>3, <2>1, AppendFacts
  <2>3. AfterAgent(Added(old, m)) = "end"
    BY <2>2 DEF AfterAgent
  <2>4. End(t, "done", TRUE)
    BY <1>2, <2>3 DEF Returned, GoTo, old
  <2>5. ended'[t].how # "failed"
    BY <1>5, <2>4
  <2>6. ~Repeats(history[t], cache[Key(run[t].scope, history[t])])
    BY <1>7 DEF m, old
  <2> QED
    BY <2>5, <2>6 DEF Repeats
<1> QED
  BY <1>6, <1>7

\* A run that is answered from the cache fails exactly if its thread holds the
\* cached message already (graph.py, _invoke_with_cache and should_continue): there
\* is no other way, and from a message of another thread it ends well.
THEOREM HitFailsOnRepeat ==
  Spec => [][\A t \in Thread :
               AgentHit(t) =>
                 (ended'[t].how = "failed") =
                   Repeats(history[t], cache[Key(run[t].scope, history[t])])]_vars
<1> DEFINE A == \A t \in Thread :
                  AgentHit(t) =>
                    (ended'[t].how = "failed") =
                      Repeats(history[t], cache[Key(run[t].scope, history[t])])
<1>1. IInv /\ [Next]_vars => [A]_vars
  BY HitEnds
<1> QED
  BY <1>1, InductiveInvariant, PTL DEF Spec
-----------------------------------------------------------------------------
(* How often LLMs are asked. *)

\* How often a run may still ask: in every other of its steps.
Left(r) == IF r.node \in Route \cup {"agent"} THEN (r.left + 1) \div 2 ELSE r.left \div 2

\* The calls of LLMs that the runs under way may still make.
Owed == {p \in Thread \X Nat : run[p[1]] # None /\ p[2] \in 1..Left(run[p[1]])}

\* Each question was worth Limit \div 2 calls: those made, and those still owed.
BudgetInv == IsFiniteSet(Owed) /\ Cardinality(Owed) + made <= asked * (Limit \div 2)

\* Half of a number, of the next one and of the one before.
LEMMA Halves ==
  ASSUME NEW l \in Nat \ {0}
  PROVE  /\ l \div 2 \in Nat /\ (l + 1) \div 2 \in Nat \ {0}
         /\ l - 1 \in Nat /\ (l - 1) \div 2 \in Nat
         /\ (l - 1) \div 2 = ((l + 1) \div 2) - 1
         /\ (l - 1) \div 2 <= l \div 2
         /\ ((l - 1) + 1) \div 2 = l \div 2
  OBVIOUS

\* What is owed, by thread and number.
LEMMA OwedPairs ==
  \A t \in Thread, i \in Nat : <<t, i>> \in Owed <=> run[t] # None /\ i \in 1..Left(run[t])
  BY DEF Owed

\* Only thread t's run has changed, and not to more than i calls.
LEMMA OwedShrinks ==
  ASSUME NEW t \in Thread, \A u \in Thread \ {t} : run'[u] = run[u],
         NEW i, i \in Nat,
         run'[t] # None => Left(run'[t]) \in Nat /\ Left(run'[t]) <= i,
         run[t] # None, Left(run[t]) \in Nat, i <= Left(run[t])
  PROVE  /\ Owed' \subseteq Owed
         /\ \A j \in Nat : i < j => <<t, j>> \notin Owed'
<1>1. ASSUME NEW u \in Thread, NEW j \in Nat, run'[u] # None, j \in 1..Left(run'[u])
      PROVE  run[u] # None /\ j \in 1..Left(run[u]) /\ (u = t => j <= i)
  <2>1. CASE u = t
    BY <1>1, <2>1
  <2>2. CASE u # t
    BY <1>1, <2>2
  <2> QED
    BY <2>1, <2>2
<1>2. \A u \in Thread, j \in Nat :
        <<u, j>> \in Owed' => run'[u] # None /\ j \in 1..Left(run'[u])
  BY DEF Owed
<1>3. \A p \in Owed' : \E u \in Thread, j \in Nat : p = <<u, j>>
  BY DEF Owed
<1> QED
  BY <1>1, <1>2, <1>3, OwedPairs

\* Nothing new is owed.
LEMMA BudgetKept ==
  ASSUME BudgetInv, CountsInv, Owed' \subseteq Owed, made' = made, asked' = asked
  PROVE  BudgetInv'
<1>1. IsFiniteSet(Owed') /\ Cardinality(Owed') <= Cardinality(Owed)
  BY FS_Subset DEF BudgetInv
<1>2. Cardinality(Owed) \in Nat /\ Cardinality(Owed') \in Nat
  BY <1>1, FS_CardinalityType DEF BudgetInv
<1>3. asked * (Limit \div 2) \in Nat /\ made \in Nat
  BY AgentGraphAssumption, Halves DEF CountsInv
<1> QED
  BY <1>1, <1>2, <1>3 DEF BudgetInv

\* A call that was owed is made.
LEMMA BudgetPaid ==
  ASSUME BudgetInv, CountsInv, NEW p \in Owed, Owed' \subseteq Owed \ {p},
         made' = made + 1, asked' = asked
  PROVE  BudgetInv'
<1>1. IsFiniteSet(Owed \ {p}) /\ Cardinality(Owed \ {p}) = Cardinality(Owed) - 1
  BY FS_RemoveElement DEF BudgetInv
<1>2. IsFiniteSet(Owed') /\ Cardinality(Owed') <= Cardinality(Owed \ {p})
  BY <1>1, FS_Subset
<1>3. Cardinality(Owed) \in Nat /\ Cardinality(Owed') \in Nat
  BY <1>2, FS_CardinalityType DEF BudgetInv
<1>4. asked * (Limit \div 2) \in Nat /\ made \in Nat
  BY AgentGraphAssumption, Halves DEF CountsInv
<1> QED
  BY <1>1, <1>2, <1>3, <1>4 DEF BudgetInv

\* A question may take Limit \div 2 calls.
LEMMA BudgetAsked ==
  ASSUME BudgetInv, CountsInv, NEW t \in Thread,
         Owed' \subseteq Owed \cup ({t} \X (1..(Limit \div 2))),
         made' = made, asked' = asked + 1
  PROVE  BudgetInv'
<1> DEFINE half == Limit \div 2
           new == {t} \X (1..half)
<1>1. half \in Nat
  BY AgentGraphAssumption, Halves
<1>2. IsFiniteSet(1..half) /\ Cardinality(1..half) = half
  BY <1>1, FS_Interval
<1>3. IsFiniteSet({t}) /\ Cardinality({t}) = 1
  BY FS_Singleton
<1>4. IsFiniteSet(new) /\ Cardinality(new) = half
  BY <1>1, <1>2, <1>3, FS_Product
<1>5. Owed' \subseteq Owed \cup new
  OBVIOUS
<1>6. BudgetInv /\ asked \in Nat /\ made \in Nat /\ asked * half \in Nat
      /\ Cardinality(Owed) + made <= asked * half
  BY <1>1 DEF CountsInv, BudgetInv
<1> HIDE DEF new
<1>7. /\ IsFiniteSet(Owed \cup new) /\ IsFiniteSet(Owed \cap new)
      /\ Cardinality(Owed \cup new) = Cardinality(Owed) + Cardinality(new) - Cardinality(Owed \cap new)
  BY <1>4, FS_Union, FS_Subset DEF BudgetInv
<1>8. IsFiniteSet(Owed') /\ Cardinality(Owed') <= Cardinality(Owed \cup new)
  BY <1>5, <1>7, FS_Subset
<1>9. /\ Cardinality(Owed) \in Nat /\ Cardinality(Owed') \in Nat
      /\ Cardinality(Owed \cap new) \in Nat /\ Cardinality(Owed \cup new) \in Nat
  BY <1>7, <1>8, FS_CardinalityType DEF BudgetInv
<1>10. Cardinality(Owed') <= Cardinality(Owed) + half
  BY <1>1, <1>4, <1>7, <1>8, <1>9
<1>11. (asked + 1) * half = asked * half + half
  BY <1>1, <1>6
<1> QED
  BY <1>1, <1>6, <1>8, <1>9, <1>10, <1>11 DEF BudgetInv

\* What a saved step leaves of a run.
LEMMA GoToLeft ==
  ASSUME ThreadsInv, NEW t \in Thread, run[t] # None, NEW node, NEW route, NEW hit,
         GoTo(t, node, route, hit)
  PROVE  /\ \A u \in Thread \ {t} : run'[u] = run[u]
         /\ run'[t] # None => run'[t].node = node /\ run'[t].left = run[t].left - 1
<1> DEFINE r == [run[t] EXCEPT !.node = node, !.route = route, !.left = run[t].left - 1]
<1>1. run \in [Thread -> Running \cup {None}] /\ run[t] \in Running
  BY RunFacts DEF ThreadsInv
<1>2. r.node = node /\ r.left = run[t].left - 1
  BY <1>1 DEF Running
<1>3. \/ run' = [run EXCEPT ![t] = None]
      \/ run' = [run EXCEPT ![t] = r]
  BY DEF GoTo, End
<1> HIDE DEF r
<1> QED
  BY <1>1, <1>2, <1>3

\* A step that asks no LLM leaves no run more calls than it had.
LEMMA GoToOwes ==
  ASSUME ThreadsInv, NEW t \in Thread, run[t] # None, NEW node, NEW route, NEW hit,
         GoTo(t, node, route, hit),
         node \in Route \cup {"agent"} => run[t].node \notin Route \cup {"agent"}
  PROVE  Owed' \subseteq Owed
<1> DEFINE l == run[t].left
<1>1. l \in Nat \ {0}
  BY RunFacts, AgentGraphAssumption
<1>2. /\ \A u \in Thread \ {t} : run'[u] = run[u]
      /\ run'[t] # None => run'[t].node = node /\ run'[t].left = l - 1
  BY GoToLeft
<1> HIDE DEF l
<1>3. Left(run[t]) \in Nat
  BY <1>1, Halves DEF Left, l
<1>4. ASSUME run'[t] # None
      PROVE  Left(run'[t]) \in Nat /\ Left(run'[t]) <= Left(run[t])
  <2>1. run'[t].node = node /\ run'[t].left = l - 1 /\ run[t].left = l
    BY <1>2, <1>4 DEF l
  <2>2. CASE node \in Route \cup {"agent"}
    BY <1>1, <2>1, <2>2, Halves DEF Left
  <2>3. CASE node \notin Route \cup {"agent"}
    <3>1. Left(run'[t]) = (l - 1) \div 2
      BY <2>1, <2>3 DEF Left
    <3>2. Left(run[t]) \in {(l + 1) \div 2, l \div 2}
      BY <2>1 DEF Left
    <3> QED
      BY <1>1, <3>1, <3>2, Halves
  <2> QED
    BY <2>2, <2>3
<1> QED
  BY <1>2, <1>3, <1>4, OwedShrinks

\* A run that is over owes nothing.
LEMMA EndOwes ==
  ASSUME ThreadsInv, NEW t \in Thread, run[t] # None, NEW how, NEW hit, End(t, how, hit)
  PROVE  Owed' \subseteq Owed /\ \A j \in Nat : <<t, j>> \notin Owed'
<1>1. run' = [run EXCEPT ![t] = None] /\ run \in [Thread -> Running \cup {None}]
  BY DEF End, ThreadsInv
<1>2. run'[t] = None /\ \A u \in Thread \ {t} : run'[u] = run[u]
  BY <1>1
<1>3. run[t].left \in Nat \ {0}
  BY RunFacts, AgentGraphAssumption
<1>4. Left(run[t]) \in Nat
  BY <1>3, Halves DEF Left
<1>5. Owed' \subseteq Owed
  BY <1>2, <1>4, OwedShrinks
<1>6. \A j \in Nat : <<t, j>> \notin Owed'
  BY <1>2 DEF Owed
<1> QED
  BY <1>5, <1>6

\* What an agent returns costs its run the call it had for this step.
LEMMA ReturnedOwes ==
  ASSUME ThreadsInv, NEW t \in Thread, run[t] # None, run[t].node \in Route \cup {"agent"},
         NEW m, NEW hit, Returned(t, m, hit)
  PROVE  /\ <<t, Left(run[t])>> \in Owed
         /\ Owed' \subseteq Owed \ {<<t, Left(run[t])>>}
<1> DEFINE l == run[t].left
           i == Left(run[t])
           next == AfterAgent(Added(history[t], m))
<1>1. l \in Nat \ {0}
  BY RunFacts, AgentGraphAssumption
<1> HIDE DEF l
<1>2. i = (l + 1) \div 2 /\ i \in Nat \ {0}
  BY <1>1, Halves DEF Left, l
<1> HIDE DEF i
<1>3. <<t, i>> \in Owed
  BY <1>2, OwedPairs DEF i
<1>4. next \in {"tools", "end", "raises"}
  BY DEF AfterAgent
<1>5. CASE next = "raises"
  <2>1. End(t, "failed", hit)
    BY <1>5 DEF Returned
  <2> QED
    BY <1>2, <1>3, <2>1, EndOwes DEF i
<1>6. CASE next # "raises"
  <2>1. GoTo(t, next, run[t].route, hit) /\ next \in {"tools", "end"}
    BY <1>4, <1>6 DEF Returned
  <2>2. next \notin Route \cup {"agent"}
    BY <2>1, AgentGraphAssumption
  <2> HIDE DEF next
  <2>3. /\ \A u \in Thread \ {t} : run'[u] = run[u]
        /\ run'[t] # None => run'[t].node = next /\ run'[t].left = l - 1
    BY <2>1, GoToLeft DEF l
  <2>4. i - 1 \in Nat /\ i - 1 <= i
    BY <1>2
  <2>5. run'[t] # None => Left(run'[t]) = i - 1
    BY <1>1, <1>2, <2>2, <2>3, Halves DEF Left
  <2>6. /\ Owed' \subseteq Owed
        /\ \A j \in Nat : i - 1 < j => <<t, j>> \notin Owed'
    BY <1>2, <2>3, <2>4, <2>5, OwedShrinks DEF i
  <2> QED
    BY <1>2, <1>3, <2>6 DEF i
<1> QED
  BY <1>5, <1>6

\* Before the first question.
LEMMA BudgetInit == Init => BudgetInv
<1> SUFFICES ASSUME Init PROVE BudgetInv
  OBVIOUS
<1>1. Owed = {}
  BY DEF Init, Owed
<1>2. asked = 0 /\ made = 0
  BY DEF Init
<1>3. Limit \div 2 \in Nat
  BY AgentGraphAssumption, Halves
<1> QED
  BY <1>1, <1>2, <1>3, FS_EmptySet DEF BudgetInv

\* A step of a run.
LEMMA StepBudget ==
  ASSUME IInv, BudgetInv, NEW t \in Thread, Step(t)
  PROVE  BudgetInv'
<1>1. CountsInv /\ ThreadsInv
  BY DEF IInv
<1>2. CASE Validate(t)
  <2>1. /\ run[t] # None /\ run[t].node = "validate" /\ made' = made /\ asked' = asked
        /\ \E node : GoTo(t, node, None, FALSE)
    BY <1>2 DEF Validate
  <2>2. run[t].node \notin Route \cup {"agent"}
    BY <2>1, AgentGraphAssumption
  <2>3. Owed' \subseteq Owed
    BY <1>1, <2>1, <2>2, GoToOwes
  <2> QED
    BY <1>1, <2>1, <2>3, BudgetKept
<1>3. CASE AgentHit(t)
  <2>1. /\ run[t] # None /\ run[t].node \in Route \cup {"agent"} /\ made' = made /\ asked' = asked
        /\ \E m : Returned(t, m, TRUE)
    BY <1>3 DEF AgentHit
  <2>2. Owed' \subseteq Owed
    BY <1>1, <2>1, ReturnedOwes
  <2> QED
    BY <1>1, <2>1, <2>2, BudgetKept
<1>4. CASE AgentMiss(t) \/ SubAgent(t)
  <2>1. /\ run[t] # None /\ run[t].node \in Route \cup {"agent"}
        /\ made' = made + 1 /\ asked' = asked
        /\ \E m : Returned(t, m, FALSE)
    BY <1>4 DEF AgentMiss, SubAgent
  <2>2. /\ <<t, Left(run[t])>> \in Owed
        /\ Owed' \subseteq Owed \ {<<t, Left(run[t])>>}
    BY <1>1, <2>1, ReturnedOwes
  <2> QED
    BY <1>1, <2>1, <2>2, BudgetPaid
<1>5. CASE Router(t)
  <2>1. /\ run[t] # None /\ run[t].node = "router" /\ made' = made /\ asked' = asked
        /\ \E node, route : GoTo(t, node, route, FALSE)
    BY <1>5 DEF Router
  <2>2. run[t].node \notin Route \cup {"agent"}
    BY <2>1, AgentGraphAssumption
  <2>3. Owed' \subseteq Owed
    BY <1>1, <2>1, <2>2, GoToOwes
  <2> QED
    BY <1>1, <2>1, <2>3, BudgetKept
<1>6. CASE Tools(t)
  <2>1. /\ run[t] # None /\ run[t].node = "tools" /\ made' = made /\ asked' = asked
        /\ \E node : GoTo(t, node, run[t].route, FALSE)
    BY <1>6 DEF Tools
  <2>2. run[t].node \notin Route \cup {"agent"}
    BY <2>1, AgentGraphAssumption
  <2>3. Owed' \subseteq Owed
    BY <1>1, <2>1, <2>2, GoToOwes
  <2> QED
    BY <1>1, <2>1, <2>3, BudgetKept
<1> QED
  BY <1>2, <1>3, <1>4, <1>5, <1>6 DEF Step

\* A question.
LEMMA AskBudget ==
  ASSUME IInv, BudgetInv, NEW t \in Thread, NEW graph \in {"single", "multi"},
         NEW scope \in Scope \cup {None}, NEW q \in Question, Ask(t, graph, scope, q)
  PROVE  BudgetInv'
<1> DEFINE r == [graph |-> graph, scope |-> scope, node |-> "validate",
                 route |-> None, left |-> Limit]
<1>1. /\ run[t] = None /\ run' = [run EXCEPT ![t] = r]
      /\ asked' = asked + 1 /\ made' = made
  BY DEF Ask
<1>2. run'[t] = r /\ \A u \in Thread \ {t} : run'[u] = run[u]
  BY <1>1 DEF IInv, ThreadsInv
<1>3. Left(r) = Limit \div 2
  BY AgentGraphAssumption DEF Left
<1> HIDE DEF r
<1>4. Owed' \subseteq Owed \cup ({t} \X (1..(Limit \div 2)))
  <2> SUFFICES ASSUME NEW u \in Thread, NEW j \in Nat, run'[u] # None, j \in 1..Left(run'[u])
               PROVE  <<u, j>> \in Owed \cup ({t} \X (1..(Limit \div 2)))
    BY DEF Owed
  <2>1. CASE u = t
    BY <1>2, <1>3, <2>1
  <2>2. CASE u # t
    BY <1>2, <2>2, OwedPairs
  <2> QED
    BY <2>1, <2>2
<1> QED
  BY <1>1, <1>4, BudgetAsked DEF IInv

\* Any step: runs that are cut off owe nothing.
LEMMA NextBudget ==
  ASSUME IInv, BudgetInv, [Next]_vars
  PROVE  BudgetInv'
<1>1. CountsInv /\ ThreadsInv
  BY DEF IInv
<1>2. ASSUME NEW t \in Thread, Abandon(t)
      PROVE  BudgetInv'
  <2>1. run[t] # None /\ End(t, "failed", FALSE) /\ made' = made /\ asked' = asked
    BY <1>2 DEF Abandon
  <2> QED
    BY <1>1, <2>1, EndOwes, BudgetKept
<1>3. CASE Restart
  <2>1. run' = [t \in Thread |-> None] /\ made' = made /\ asked' = asked
    BY <1>3 DEF Restart
  <2>2. Owed' \subseteq Owed
    BY <2>1 DEF Owed
  <2> QED
    BY <1>1, <2>1, <2>2, BudgetKept
<1>4. CASE Expire \/ ExpireRoute \/ UNCHANGED vars
  <2>1. run' = run /\ made' = made /\ asked' = asked
    BY <1>4 DEF Expire, ExpireRoute, vars
  <2>2. Owed' = Owed
    BY <2>1 DEF Owed
  <2> QED
    BY <1>1, <2>1, <2>2, BudgetKept
<1> QED
  BY <1>2, <1>3, <1>4, StepBudget, AskBudget DEF Next

\* No question costs more agents' calls of LLMs than half the recursion limit,
\* whatever they answer: the loop of agent and tools takes two steps (graph.py,
\* multi_agent.py, the edges between agents and tools; LangGraph's limit).
CallsAreBounded == made <= asked * (Limit \div 2)

\* The bound of the instances never keeps an agent from asking its LLM.
NobodyIsHeldUp ==
  \A t \in Thread : run[t] # None /\ run[t].node \in Route \cup {"agent"} => made < MaxMade

\* What the budget says of the calls made.
LEMMA BudgetBounds == IInv /\ BudgetInv => CallsAreBounded /\ NobodyIsHeldUp
<1> SUFFICES ASSUME IInv, BudgetInv PROVE CallsAreBounded /\ NobodyIsHeldUp
  OBVIOUS
<1> DEFINE half == Limit \div 2
<1>1. half \in Nat
  BY AgentGraphAssumption, Halves
<1>2. /\ asked \in Nat /\ made \in Nat /\ asked <= MaxAsked
      /\ MaxAsked \in Nat /\ MaxMade \in Nat /\ MaxMade >= MaxAsked * half
  BY AgentGraphAssumption DEF IInv, CountsInv
<1>3. Cardinality(Owed) \in Nat /\ Cardinality(Owed) + made <= asked * half
  BY FS_CardinalityType DEF BudgetInv
<1> HIDE DEF half
<1>4. asked * half \in Nat /\ MaxAsked * half \in Nat /\ asked * half <= MaxAsked * half
  BY <1>1, <1>2
<1>5. CallsAreBounded
  BY <1>2, <1>3, <1>4 DEF CallsAreBounded, half
<1>6. ASSUME NEW t \in Thread, run[t] # None, run[t].node \in Route \cup {"agent"}
      PROVE  made < MaxMade
  <2>1. run[t].left \in Nat \ {0}
    BY <1>6, RunFacts, AgentGraphAssumption DEF IInv
  <2>2. Left(run[t]) \in Nat \ {0}
    BY <1>6, <2>1, Halves DEF Left
  <2>3. <<t, Left(run[t])>> \in Owed
    BY <1>6, <2>2, OwedPairs
  <2>4. Cardinality(Owed) # 0
    BY <2>3, FS_EmptySet DEF BudgetInv
  <2> QED
    BY <1>2, <1>3, <1>4, <2>4
<1> QED
  BY <1>5, <1>6 DEF NobodyIsHeldUp

\* Calls made and calls owed are paid for by questions.
THEOREM BudgetInvariant == Spec => [](IInv /\ BudgetInv)
<1>1. Init => IInv /\ BudgetInv
  BY InitInv, BudgetInit
<1>2. IInv /\ BudgetInv /\ [Next]_vars => BudgetInv'
  BY NextBudget
<1> QED
  BY <1>1, <1>2, InductiveInvariant, PTL DEF Spec

\* With the limit LangGraph gives a run, questions cost so many calls at most, over
\* all threads and both graphs, apologies included (graph.py, agent_node;
\* multi_agent.py, the sub-agents).
THEOREM CostBounded == Spec => []CallsAreBounded
  BY BudgetInvariant, BudgetBounds, PTL

\* MaxMade takes nothing away from the system: where an agent may ask its LLM, so
\* may the model's (agent_node, the sub-agents' nodes).
THEOREM NobodyHeldUp == Spec => []NobodyIsHeldUp
  BY BudgetInvariant, BudgetBounds, PTL
=============================================================================
