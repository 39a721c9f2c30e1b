----------------------------- MODULE AgentGraph -----------------------------
(***************************************************************************)
(* The inside of an agent run: the two graphs of cayz_agent/graph.py and   *)
(* cayz_agent/multi_agent.py, which share the checkpointer, and the cache  *)
(* of LLM answers in front of the single graph's agent.                    *)
(*                                                                         *)
(*   single:  validate_input -> agent <-> tools                            *)
(*   multi:   validate_input -> router -> one of four agents <-> tools     *)
(*                                                                         *)
(* A step of LangGraph runs one node and the conditional edge behind it,   *)
(* and then saves the messages; a step that raises saves nothing and ends  *)
(* the run.  What an LLM answers is nondeterministic, and so is whether a  *)
(* call of it fails.                                                       *)
(***************************************************************************)
EXTENDS Naturals, Sequences, SequencesExt, FiniteSets

CONSTANTS
  Thread,       \* the session ids, each with one run at a time
  Scope,        \* the scopes of the API keys
  Question,     \* what a user may ask
  Refused,      \* the questions validate_user_input rejects
  Answer,       \* what an LLM may answer without calling a tool
  Tool,         \* the tools' names
  CallSets,     \* the sets of tools an LLM may call at once, given to it or not
  ToolsOf,      \* get_tools_for_scope: the tools of each scope
  Route,        \* the agents of the multi graph
  DefaultRoute, \* "chat"
  Window,       \* MAX_MESSAGES
  Limit,        \* LangGraph's recursion limit: steps of one run
  MaxAsked,     \* bound: questions asked
  MaxMade,      \* bound: calls of an LLM, enough for that many questions
  Refusal,      \* the text validate_input_node refuses with
  Degraded,     \* the text a failed LLM call is replaced by
  Silent,       \* no text: a message that calls tools, the end of a stream
  None          \* no run, no route yet

ASSUME AgentGraphAssumption ==
  /\ Refused \subseteq Question /\ ToolsOf \in [Scope -> SUBSET Tool]
  /\ DefaultRoute \in Route /\ Window \in Nat \ {0} /\ Limit \in Nat \ {0}
  /\ MaxAsked \in Nat /\ MaxMade \in Nat /\ MaxMade >= MaxAsked * (Limit \div 2)
  /\ IsFiniteSet(Tool) /\ CallSets \subseteq (SUBSET Tool) \ {{}}
  /\ Route \cap {"validate", "router", "agent", "tools", "end"} = {}
  /\ None \notin Route \cup Scope

VARIABLES
  history,  \* history[t]: the messages of thread t in the checkpointer
  run,      \* run[t]: the run on thread t, or None
  cache,    \* the LLM cache: what agent_node was answered, by its key
  routes,   \* the same cache, under router_node's keys: routes by question
  asked,    \* how many questions were asked
  made      \* how often an LLM was called: the next message's id

\* History variables: no code reads them, the properties do.
VARIABLES
  ended,    \* ended[t]: how the last run of thread t ended, and whether on a cache hit
  executed  \* executed[id]: how often the calls of message id were carried out

vars == <<history, run, cache, routes, asked, made, ended, executed>>
-----------------------------------------------------------------------------
(* Messages.  "call" is an AIMessage with tool_calls, "result" a           *)
(* ToolMessage, "reply" any other AIMessage.  id is the message's id, and  *)
(* for a result that of its call; by is the node that made it, and key     *)
(* (history only) the prompt it was made for.                              *)

Human(q) == [kind |-> "human", text |-> q, id |-> 0, by |-> None, calls |-> {}, key |-> <<>>]
Reply(a, id, by, key) ==
  [kind |-> "reply", text |-> a, id |-> id, by |-> by, calls |-> {}, key |-> key]
Call(S, id, by) ==
  [kind |-> "call", text |-> Silent, id |-> id, by |-> by, calls |-> S, key |-> <<>>]
Result(tool, id) ==
  [kind |-> "result", text |-> tool, id |-> id, by |-> None, calls |-> {}, key |-> <<>>]

\* messages[-MAX_MESSAGES:]
View(msgs) == SubSeq(msgs, IF Len(msgs) > Window THEN Len(msgs) - Window + 1 ELSE 1, Len(msgs))

\* What an LLM is shown for a scope: who said what, in the window.
Prompt(scope, msgs) ==
  <<scope, [i \in DOMAIN View(msgs) |-> <<View(msgs)[i].kind, View(msgs)[i].text>>]>>

Mut_KeyWithoutScope(scope, msgs) == <<None, Prompt(scope, msgs)[2]>>

\* cache_key: the scope and the contents, neither ids nor tool calls.
Key(scope, msgs) == <<scope, Prompt(scope, msgs)[2]>>

\* add_messages: a message whose id is in the history takes its place there.
Added(msgs, m) ==
  IF m.id # 0 /\ \E i \in DOMAIN msgs : msgs[i].id = m.id /\ msgs[i].kind # "result"
  THEN [i \in DOMAIN msgs |-> IF msgs[i].id = m.id /\ msgs[i].kind # "result" THEN m ELSE msgs[i]]
  ELSE Append(msgs, m)
-----------------------------------------------------------------------------
Running ==
  [graph : {"single", "multi"}, scope : Scope \cup {None},
   node : {"validate", "router", "agent", "tools"} \cup Route,
   route : Route \cup {None},
   left : 1..Limit]       \* steps it may still make

\* None is no run.
ASSUME NoneAssumption == None \notin Running

NotEnded == [how |-> "none", scope |-> None, graph |-> None, hit |-> FALSE]

Init ==
  /\ history = [t \in Thread |-> <<>>]
  /\ run = [t \in Thread |-> None]
  /\ cache = <<>>
  /\ routes = <<>>
  /\ asked = 0
  /\ made = 0
  /\ ended = [t \in Thread |-> NotEnded]
  /\ executed = [id \in 1..MaxMade |-> 0]

\* The run of t ends, for one reason or the other.
End(t, how, hit) ==
  /\ run' = [run EXCEPT ![t] = None]
  /\ ended' = [ended EXCEPT ![t] =
                 [how |-> how, scope |-> run[t].scope, graph |-> run[t].graph, hit |-> hit]]

Mut_GoesOnForever(t, node, route, hit) ==
  IF node = "end" THEN End(t, "done", hit)
  ELSE /\ run' = [run EXCEPT ![t] = [@ EXCEPT !.node = node, !.route = route]]
       /\ UNCHANGED ended

\* A saved step: the next node, the end, or LangGraph's GraphRecursionError.
GoTo(t, node, route, hit) ==
  IF node = "end" THEN End(t, "done", hit)
  ELSE IF run[t].left = 1 THEN End(t, "failed", FALSE)
  ELSE /\ run' = [run EXCEPT ![t] =
                    [@ EXCEPT !.node = node, !.route = route, !.left = run[t].left - 1]]
       /\ UNCHANGED ended
-----------------------------------------------------------------------------
(* The start of a run and its first node. *)

\* One of the chat endpoints, or the command line, invokes the single graph of
\* its scope or the multi graph, which knows no scope, with a question; no two
\* runs of a thread at once in this module.
Ask(t, graph, scope, q) ==
  /\ asked < MaxAsked
  /\ run[t] = None
  /\ (graph = "multi") = (scope = None)
  /\ asked' = asked + 1
  /\ history' = [history EXCEPT ![t] = Append(@, Human(q))]
  /\ run' = [run EXCEPT ![t] = [graph |-> graph, scope |-> scope, node |-> "validate",
                                route |-> None, left |-> Limit]]
  /\ ended' = [ended EXCEPT ![t] = NotEnded]
  /\ UNCHANGED <<cache, routes, made, executed>>

\* validate_input_node and the edge behind it, which takes a reply right after
\* the question for the refusal.
Validate(t) ==
  /\ run[t] # None
  /\ run[t].node = "validate"
  /\ IF Last(history[t]).text \in Refused
     THEN /\ history' = [history EXCEPT ![t] = Append(@, Reply(Refusal, 0, None, <<>>))]
          /\ GoTo(t, "end", None, FALSE)
     ELSE /\ UNCHANGED history
          /\ GoTo(t, IF run[t].graph = "multi" THEN "router" ELSE "agent", None, FALSE)
  /\ UNCHANGED <<cache, routes, asked, made, executed>>

Mut_NoMoreTools(msgs) ==
  IF Last(msgs).kind \in {"call", "reply"} THEN "end" ELSE "raises"

\* should_continue and should_continue_from_sub_agent.  Only an AIMessage has
\* tool_calls: should_continue raises when add_messages put the answer elsewhere.
AfterAgent(msgs) ==
  CASE Last(msgs).kind = "call" -> "tools"
    [] Last(msgs).kind = "reply" -> "end"
    [] OTHER -> "raises"

\* What an agent node returned is merged into the history and judged by the
\* edge; when the edge raises, the step is not saved.
Returned(t, m, hit) ==
  LET msgs == Added(history[t], m) IN
  IF AfterAgent(msgs) = "raises"
  THEN /\ UNCHANGED history
       /\ End(t, "failed", hit)
  ELSE /\ history' = [history EXCEPT ![t] = msgs]
       /\ GoTo(t, AfterAgent(msgs), run[t].route, hit)
-----------------------------------------------------------------------------
(* The nodes that ask the LLM. *)

\* agent_node when the prompt's answer is in the cache.
AgentHit(t) ==
  LET key == Key(run[t].scope, history[t]) IN
  /\ run[t] # None
  /\ run[t].node = "agent"
  /\ key \in DOMAIN cache
  /\ Returned(t, cache[key], TRUE)
  /\ UNCHANGED <<cache, routes, asked, made, executed>>

Mut_CachesCalls(cached, key, m) ==
  [k \in DOMAIN cached \cup {key} |-> IF k = key THEN m ELSE cached[k]]

\* cache.set, only for an answer that calls no tool.
Cached(cached, key, m) ==
  IF m.kind = "call" THEN cached
  ELSE [k \in DOMAIN cached \cup {key} |-> IF k = key THEN m ELSE cached[k]]

\* What a successful call of the LLM returns.
Made(id, by, key) ==
  {Reply(a, id, by, key) : a \in Answer} \cup {Call(S, id, by) : S \in CallSets}

\* agent_node when it is not: the LLM answers, or fails and is apologised for.
\* (Two runs may miss the same key and overwrite each other's answer: here an
\* Expire between the two.)
AgentMiss(t) ==
  LET key == Key(run[t].scope, history[t]) IN
  /\ run[t] # None
  /\ run[t].node = "agent"
  /\ key \notin DOMAIN cache
  /\ made < MaxMade
  /\ made' = made + 1
  /\ \/ \E m \in Made(made + 1, "agent", Prompt(run[t].scope, history[t])) :
          /\ cache' = Cached(cache, key, m)
          /\ Returned(t, m, FALSE)
     \/ /\ Returned(t, Reply(Degraded, 0, "agent", <<>>), FALSE)
        /\ UNCHANGED cache
  /\ UNCHANGED <<routes, asked, executed>>

\* router_node: the route of this question from the cache or, with the label
\* found in its text, from the LLM; the default when the LLM fails.
Router(t) ==
  LET q == Last(history[t]).text IN
  /\ run[t] # None
  /\ run[t].node = "router"
  /\ \/ /\ q \in DOMAIN routes
        /\ GoTo(t, routes[q], routes[q], FALSE)
        /\ UNCHANGED routes
     \/ /\ q \notin DOMAIN routes
        /\ \E r \in Route :
             /\ routes' = [k \in DOMAIN routes \cup {q} |-> IF k = q THEN r ELSE routes[k]]
             /\ GoTo(t, r, r, FALSE)
     \/ /\ q \notin DOMAIN routes
        /\ GoTo(t, DefaultRoute, DefaultRoute, FALSE)
        /\ UNCHANGED routes
  /\ UNCHANGED <<history, cache, asked, made, executed>>

\* knowledge_agent_node, search_agent_node, chat_agent_node and
\* business_agent_node: the whole history, and no cache.
SubAgent(t) ==
  /\ run[t] # None
  /\ run[t].node \in Route
  /\ made < MaxMade
  /\ made' = made + 1
  /\ \/ \E m \in Made(made + 1, run[t].node, <<>>) : Returned(t, m, FALSE)
     \/ Returned(t, Reply(Degraded, 0, run[t].node, <<>>), FALSE)
  /\ UNCHANGED <<cache, routes, asked, executed>>
-----------------------------------------------------------------------------
(* The tools. *)

\* The tools a graph was built with.
Bound(t) == IF run[t].graph = "multi" THEN Tool ELSE ToolsOf[run[t].scope]

\* The edge behind the tools: agent, or route_after_tools.
AfterTools(t) == IF run[t].graph = "multi" THEN run[t].route ELSE "agent"

\* Some of the calls of t's last message are carried out.
Carry(t, S) ==
  LET m == Last(history[t]) IN
  executed' = IF S = {} THEN executed ELSE [executed EXCEPT ![m.id] = @ + 1]

\* ToolNode: every call is answered, one that fails or names a tool the graph
\* does not have by an error.
Tools(t) ==
  LET m == Last(history[t]) IN
  /\ run[t] # None
  /\ run[t].node = "tools"
  /\ Carry(t, m.calls \cap Bound(t))
  /\ history' = [history EXCEPT ![t] = @ \o SetToSeq({Result(tool, m.id) : tool \in m.calls})]
  /\ GoTo(t, AfterTools(t), run[t].route, FALSE)
  /\ UNCHANGED <<cache, routes, asked, made>>
-----------------------------------------------------------------------------
(* What cuts runs off, and the cache's end of life. *)

\* The client of a run that streams goes away (any run may be one that does); a
\* tool may be running just then.
Abandon(t) ==
  /\ run[t] # None
  /\ End(t, "failed", FALSE)
  /\ IF run[t].node = "tools"
     THEN \E S \in SUBSET (Last(history[t]).calls \cap Bound(t)) : Carry(t, S)
     ELSE UNCHANGED executed
  /\ UNCHANGED <<history, cache, routes, asked, made>>

\* The process restarts over its SQLite checkpointer.
Restart ==
  /\ \E t \in Thread : run[t] # None
  /\ ended' = [t \in Thread |->
                 IF run[t] = None THEN ended[t]
                 ELSE [how |-> "failed", scope |-> run[t].scope, graph |-> run[t].graph, hit |-> FALSE]]
  /\ run' = [t \in Thread |-> None]
  /\ cache' = <<>> /\ routes' = <<>>
  /\ \E Done \in SUBSET {t \in Thread : run[t] # None /\ run[t].node = "tools" /\
                                        Last(history[t]).calls \cap Bound(t) # {}} :
       executed' = [id \in DOMAIN executed |->
                      executed[id] + Cardinality({t \in Done : Last(history[t]).id = id})]
  /\ UNCHANGED <<history, asked, made>>

\* An answer outlives its time in the cache, or is pushed out.
Expire ==
  /\ \E key \in DOMAIN cache : cache' = [k \in DOMAIN cache \ {key} |-> cache[k]]
  /\ UNCHANGED <<history, run, routes, asked, made, ended, executed>>

\* The same for a route.
ExpireRoute ==
  /\ \E q \in DOMAIN routes : routes' = [k \in DOMAIN routes \ {q} |-> routes[k]]
  /\ UNCHANGED <<history, run, cache, asked, made, ended, executed>>

\* A step of the run on t.
Step(t) == Validate(t) \/ AgentHit(t) \/ AgentMiss(t) \/ Router(t) \/ SubAgent(t) \/ Tools(t)

Next ==
  \/ \E t \in Thread :
       \/ \E graph \in {"single", "multi"}, scope \in Scope \cup {None}, q \in Question :
            Ask(t, graph, scope, q)
       \/ Step(t)
       \/ Abandon(t)
  \/ Restart
  \/ Expire
  \/ ExpireRoute

\* Every node answers: requests to LLMs and to the network have timeouts.
Fairness == \A t \in Thread : WF_vars(Step(t))

Spec == Init /\ [][Next]_vars /\ Fairness
-----------------------------------------------------------------------------
(* Properties. *)

\* The shapes of messages, runs and ended runs; a cache holds replies only.
TypeOK ==
  /\ \A t \in Thread : \A i \in DOMAIN history[t] :
       LET m == history[t][i] IN
       /\ m.kind \in {"human", "call", "result", "reply"} /\ m.id \in 0..made
       /\ (m.kind = "call") = (m.calls # {}) /\ m.calls \subseteq Tool
       /\ m.by \in Route \cup {"agent", None}
  /\ \A t \in Thread : run[t] = None \/ run[t] \in Running
  /\ \A t \in Thread : ended[t].how \in {"none", "done", "failed"} /\ ended[t].hit \in BOOLEAN
  /\ \A key \in DOMAIN cache : cache[key].kind = "reply" /\ cache[key].text \in Answer
  /\ DOMAIN routes \subseteq Question /\ \A q \in DOMAIN routes : routes[q] \in Route
  /\ asked \in 0..MaxAsked /\ made \in 0..MaxMade
  /\ executed \in [1..MaxMade -> Nat]

\* The results of the call at place i stand right behind it.
AnsweredAt(msgs, i) ==
  LET n == Cardinality(msgs[i].calls) IN
  /\ i + n <= Len(msgs)
  /\ {msgs[j].text : j \in (i + 1)..(i + n)} = msgs[i].calls
  /\ \A j \in (i + 1)..(i + n) : msgs[j].kind = "result" /\ msgs[j].id = msgs[i].id

\* The history a thread hands to an LLM answers every tool call, except those
\* of runs that were cut off before their tools had answered: such a call ends
\* the history until the next question (graph.py's should_continue and the
\* steps' checkpoints; LangGraph's limit, a disconnect and a restart).
CallsAreAnswered ==
  \A t \in Thread : \A i \in DOMAIN history[t] :
    history[t][i].kind = "call" =>
      \/ AnsweredAt(history[t], i)
      \/ i < Len(history[t]) /\ history[t][i + 1].kind = "human"
      \/ i = Len(history[t]) /\ IF run[t] = None THEN ended[t].how = "failed" ELSE run[t].node = "tools"

\* The calls of one message are carried out at most once, however often its
\* prompt is asked again, runs are cut off and histories are loaded (graph.py
\* caches no response with tool calls for that reason).
ExecutedOnce == \A id \in DOMAIN executed : executed[id] <= 1

\* A run of the single graph that ended well ends with an answer an LLM made
\* for the same scope and for what this thread said, also when the answer came
\* from the cache, filled by another session (_invoke_with_cache's key).
AnswerFitsView ==
  \A t \in Thread :
    LET m == Last(history[t]) IN
    run[t] = None /\ ended[t].how = "done" /\ ended[t].graph = "single" /\ m.text \notin {Refusal, Degraded} =>
      /\ m.kind = "reply"
      /\ m.key = Prompt(ended[t].scope, Front(history[t]))

\* Every run ends, also when the LLM calls tools again and again.
RunsEnd == \A t \in Thread : run[t] # None ~> run[t] = None

\* "The same prompt directly returns the cached result" (graph.py, agent_node):
\* a run whose prompt is in the cache does not fail.
HitIsAnswered == \A t \in Thread : run[t] = None /\ ended[t].hit => ended[t].how = "done"
=============================================================================
