# Cayz-agent in TLA+

Specifications of the parts of Cayz-agent (an enterprise assistant: FastAPI
service, LangGraph agents, SQLite checkpoints, a Chroma knowledge base, a small
CRM) in which several requests, threads and failures meet. Every definition is
translated from the code under `src/`; `PROJECT.json` names the lines of each,
the runs, the mutants of each property, the hazards and the theorems.

Run a model with `tlc -workers 2 -config MCSessions.cfg MCSessions`, check proofs
with `tlapm SessionsProofs.tla`.

## The system

One process (`api.py:1719` starts uvicorn without workers). The event loop runs
the middleware and the `async def` endpoints; where an endpoint does not await,
it is atomic with respect to the others. `/chat` and `/chat/multi` hand the agent
run to a worker thread, the streaming variants run it in the response generator,
and the agents' tools run in worker threads. Everything that survives the process
is in files: `checkpoints.db` (SQLite), the Chroma directory, two CRM JSON files.

| Component | State | Operations | Meets | Hard part | Correct when |
|---|---|---|---|---|---|
| Sessions (`session.py`, chat endpoints) | table `session_activity` | claim, touch, delete, cleanup | checkpoints, gauge | claims of concurrent first requests; deletion while a run is under way | one client per session; what is erased stays erased |
| Agent run and checkpoints (`graph.py`, LangGraph) | tables `checkpoints`, `writes` | load, save | sessions | two runs of a thread overwrite each other | an answered turn is kept |
| Metrics (`monitor.py`) | `active_sessions` gauge | start, end | every run | failures, abandoned streams, restarts | gauge = runs under way, back to 0 in the end |
| Throttling (`middleware.py`) | deques per bucket and client | verdict, sweep | every request | sliding window, sweep over all keys, truncation | no window over the limit; nothing forgotten; no growth |
| Knowledge base (`rag.py`, endpoints, tools) | Chroma collection | upload, batch, update, delete, search | RAG cache | update and rollback in steps that may fail, tools in other threads | answered documents stay; rollback exact; source never vanishes in an update |
| Caches (`cache.py`) | TTL/LRU entries | get, set, clear | knowledge base, agent graph | search overtaken by an invalidation; LLM answers shared by sessions and scopes | fresh answers; answers fit their prompts |
| CRM (`integrations/crm.py`, endpoints, tools) | two dictionaries, two JSON files | add, update, archive, restore, delete | endpoints and tool threads, no lock | files rewritten in place; ids by maximum; archive/update/restore in any order | an answered change survives; restore is exact |
| Agent graph, multi-agent (`graph.py`, `multi_agent.py`) | messages of a thread | nodes, router, tool loop | LLM cache, checkpointer, tools | cut-off runs whose history is loaded again; cached messages with ids; endless tool loops | calls answered, made once; answers fit; runs end |
| Shutdown (`app_state.py`, `api.py` lifespan) | readiness, list of hooks | register, run_cleanups | every component that registers a hook | one deadline for all; hooks that hang in daemon threads | in order, one at a time, failures skip nobody, in time |
| Alerts (`alerts.py`) | manager with cooldowns, watcher thread | check, start, stop | metrics, `/metrics` | a watcher that has not stopped when the next starts; the first manager is raced for; clock read before the lock | one loop; no repeated alert; what stays high is alerted |
| Retry, e-mail, notifications (`retry.py`, `integrations/`) | retry counter | send, retry | tools | a send that timed out was delivered, or is delivered later | copies bounded by attempts; "sent" is true |
| Backup (`scripts/backup_sqlite.py`) | files | copy, check, rotate | SQLite | failure in the middle | newest backups kept |
| Configuration, validation, masking, factories, web page, proxy | none between calls | | | | not modelled, see below |

## Modules

| Module | Models | Notes |
|---|---|---|
| `SessionOwnership` | what the session layer promises about ownership | abstract specification |
| `Sessions` | the life of a chat session | refines `SessionOwnership` |
| `SessionUse` | `Sessions` plus when a chat was last admitted | for one divergence |
| `SessionsProofs` | theorems about `Sessions` | |
| `RateLimit` | both sliding-window limiters | |
| `RateLimitProofs` | theorems about `RateLimit` | |
| `Knowledge` | collection, cache, endpoints and tools | |
| `KnowledgeProofs` | theorems about `Knowledge` | |
| `CRM` | customers and orders, endpoints and tools | the dictionaries |
| `CRMFile` | how a dictionary gets into its file | either dictionary |
| `CRMProofs` | theorems about `CRM` and about `CRMFile` | |
| `AgentGraph` | both graphs, step by step, and the LLM cache | |
| `AgentGraphProofs` | theorems about `AgentGraph` | |
| `Alerts` | watcher, `/metrics`, manager | |
| `AlertsProofs` | theorems about `Alerts` | |
| `Shutdown` | hooks and `run_cleanups` | |
| `ShutdownProofs` | theorems about `Shutdown` | |
| `DeliveryPromise` | what a send promises | abstract specification |
| `Delivery` | tools, senders, retries and the network | refines `DeliveryPromise` |
| `DeliveryProofs` | theorems about `Delivery` | |
| `MCSessions`, `MCSessionUse`, `MCRateLimit`, `MCKnowledge`, `MCCRM`, `MCCRMFile`, `MCAgentGraph`, `MCAlerts`, `MCShutdown`, `MCDelivery` | small instances for TLC | |

Operators named `Mut_...` are plausible bugs of the definition that follows them;
no specification uses them. Variables called history variables are read by
properties only.

### Sessions

`owner` and `lastActive` are the columns of `session_activity`; `tables`, `kept`
and `saved` are what the checkpointer keeps in the same file; `phase`, `client`,
`thread` and `hist` are the requests and the local state of their runs; `active`
is the gauge.

A request is let through, refused or answered 503 in one step, because the gate
of a chat endpoint does not await. The four endpoints contain four copies of the
same gate; the actions stand for all of them, and the map cites a different copy
for each (`ChatAdmitted` in `/chat`, `ChatUnavailable` in `/chat/stream`,
`ChatRefused` in `/chat/multi`, `AdminAdmitted` in `/chat/multi/stream`).
A non-admin's gate is `touch_and_get_owner`, an insert that does nothing on
conflict, followed by reading the owner back (`Claim`, `TouchedOwner`); an admin's
is `touch_session`, whose SQLite errors are swallowed (`Touch`). From then on a run
goes by itself: it loads the newest checkpoint (`Load`), saves one with the
question (`Ask`) and one with the reply (`Answer`), and ends in its `finally`
block (`Finish`, `Fail`). A stream counts in the gauge only when its generator
starts (`StreamStarts`), and may be abandoned before (`StreamAbandoned`).
`DeleteSession` and `Cleanup` erase the checkpoints and the row in one
transaction; both fail while the checkpointer's tables do not exist. `Restart` is
a crash at any moment. The initial states include databases with rows older than
the owner column.

The backend modelled is SQLite. Listing and reading sessions change nothing and
are left out.

### RateLimit

`hits` are the deques of the three buckets (failed authentication by address,
reads and writes by client), `lastSweep` the two `_last_sweep`s, `log` (history)
when a bucket let a request through. Each verdict runs under its middleware's
lock from reading the clock to the append, so `Admit` and `Refuse` are one step
each: sweep if due, pop what has left the window, compare, append. `RetryAfter`
is the header's arithmetic. The clock is in ticks, `Second` of them to a second,
because the code compares fractions and truncates to seconds; it does not go
backwards in the model.

### Knowledge

`store` is the collection, `source` the metadata of every generated id, `cache`
the RAG cache, `job` the program counter and local variables of the endpoint
the event loop is in, and of every worker thread. Endpoints do not await, so the
loop has one job; each call of Chroma or of the cache is a step of a job, and
other jobs interleave there. Every call of Chroma may fail where the code handles
failure (`AddFails`, `RemovalFails`, `UndoFails`, `FindFails`). `Restart` is a crash
at any moment. A text is one document: its chunks get their ids, are stored and
deleted by the same calls. A search answers with the collection: ranking is data,
and a cached answer is stale exactly if the collection it was computed from is
not the present one. `search` and `search_with_scores` have different keys.

### CRM and CRMFile

The client has no lock and two kinds of callers: endpoints, which run one at a time
to their end on the event loop, and tools in worker threads. `CRM` is about what the
records say: `book` is both dictionaries, keyed by table and number, and `job` what
an actor has found and is about to change. Every operation is a look (`Number...`,
`Find...`: existence and status checks, the number of a new record) and a change (`Add`,
`Update`, `Archive`, `Restore`, `Delete`), between which the other actors may do
anything. A record found may be out of the dictionary by the time of the change;
an archive or restore of it then changes a detached object, while a deletion, which
goes by number, hits whoever is there. Only endpoints update. The tools look twice,
by number or name for the confirmation and again in the client; only the second look
decides. An operation that raises before its change (a dictionary growing under the
comprehension that numbers a record) is the same as none. Order numbers are those
of one year.

`CRMFile` is about one dictionary and its file: a change, the snapshot of all records,
the truncating open and the write are four steps (`Alter`, `Snapshot`, `Open`,
`Write`), a save may fail and is then answered as if it had not (`SaveFails`), and
`Restart` is a crash at any moment. What an entry says does not matter there, and
what a file loads as does not matter in `CRM`, so the two are not composed: their
product (over 15 million states for one table) tells no more than the two. Their
theorems are in one module, for which the names of `CRMFile` are not those of `CRM`: its
actors are `Saver`, their local state is `save`, its specification `FileSpec`.

### AgentGraph

`history` is what the checkpointer holds of each thread, `run` where its run is:
the graph, the node to come, the route and the steps left of LangGraph's recursion
limit. One step is one node with the conditional edge behind it, after which
LangGraph saves the messages; a step whose edge raises saves nothing. `Validate`,
`Router`, `AgentHit` and `AgentMiss`, `SubAgent` and `Tools` are the nodes, `Abandon`
and `Restart` cut runs off wherever they are, half-way through their tools too.
What an LLM answers, whether a call of it fails, and which tools it asks for, bound or
not, is nondeterministic. `cache` and `routes` are the LLM cache under the keys of the
agent and of the router; its values are whole messages, with their ids, and
`add_messages` (`Added`) puts a message whose id it knows in that one's place. Only the
single graph's agent is cached; the multi graph is built for all scopes and knows none.

What the prompts say and what the knowledge base adds to them is data. The key of the
cache holds it, so a changed knowledge base is a different prompt; here that is an
`Expire`. Two runs on one thread at a time are left to `Sessions`, which has the loads
and saves but not what is between them; composed, the two would say of each message
what `Sessions` says of turns.

### Alerts

A thread per loop (`Loop`) and the event loop (`Server`), on which `/metrics`, the start
and the stop of the watcher run one after the other. `Look`, `Make` and `Take` are
`get_alert_manager`, three steps because nothing locks it; `Sense` reads the clock, `Hush`
and `Raise` are what the lock covers. Managers are named for the thread that made them.
`Stop` and `JoinEnds` are the stop, whose join may time out while the loop is in the middle
of a check. `high` are the rules whose metric is over its threshold: the code's rules 1 to 3
are on ratios and averages, which fall again (`Rate`), 4 and 5 on totals, which do not. `Fault` is
any exception of a check, its number bounded.

### Shutdown

`at` says how far each hook is, `taken` (history) by which shutdown it was taken from the
list, `batch`, `current`, `deadline` and `executed` are the locals of `run_cleanups`. A hook may be
registered at any time, also while others run, may raise, and may never end
(`HookEnds` is not fair). The application may be started again in the same process,
as every test client does.

### Delivery and DeliveryPromise

`job` is a call of `send_email` or `send_wecom_notification`, `got` the copies of its message that
have arrived, `flying` those on their way. An attempt is accepted, refused for good, or
fails in a way that `retry_on_error` retries; the last two say nothing of what the server got, so
any of the addresses may get a copy, at any time later (`Land`, `Lose`). `Restart` cuts sends off.
`DeliveryPromise` knows only the copies and what was said: that nobody gets more than
`MaxAttempts`, that nothing is called sent that nobody got, and that what was said stands.
A `Reject` (nothing configured, an address or a subject that does not do) is said to have failed,
and sends nothing.

## Runs

| Run | Instance | Shows |
|---|---|---|
| `sessions` | 2 clients, 1 admin, 1 thread, 2 requests, 2 instants; 181,590 states | ownership, stable owners, gauge, erasure, kept turns, gauge drains (liveness), refinement of `SessionOwnership` |
| `session_use` (violation) | 2 clients, 1 thread, 2 requests, 3 instants | a session in use is expired |
| `ratelimit` | 1 client, 1 address, window 4 ticks, limits 1, 1 and 2, 9 instants; 636,969 states | no window over the limit, counting exact, keys swept, `Retry-After` close |
| `knowledge` | event loop and 1 worker, 2 sources, 2 documents, 1 query, batches up to 3; 513,987 states | fresh cache, answered documents kept, sources never vanish, rollback exact; no deadlock |
| `crm` | event loop and 1 worker, 3 records, 2 customer numbers, 1 order number, 2 statuses; 391,635 states | numbers stay with their records and orders with their customers, deletions are final, archiving is undone but for the races named |
| `crm_file` | 3 actors, 2 entries; 9,988 states | file and memory agree after the last save; answered changes are in the file between saves |
| `crm_file_crash` (violation) | same | a crash between truncation and write loses what was answered before |
| `agent_graph` | 2 threads, 2 scopes, 2 questions (1 refused), 2 tools, 2 routes, window 3, limit 5; 106,825 states | calls answered unless cut off, calls made once, cached answers fit, runs end (liveness) |
| `agent_hit` (violation) | 1 thread, 1 question asked three times, 1 tool, window 3, limit 4 | a cached message replaces its older self and the run fails |
| `alerts` | 2 watchers and the endpoint, 1 rule that rises and falls, suppression 1, history of 2, 1 exception; 462,204 states | no repeated alert, one loop, what stays high is alerted (liveness) |
| `shutdown` | 4 hooks, deadline 2, 6 instants, 2 shutdowns; 55,192 states | order of hooks, failures skip nobody, shutdown returns (liveness) |
| `delivery` | 2 calls, 2 mailboxes, 2 attempts; 73,813 states | copies bounded, sends end (liveness), refinement of `DeliveryPromise` |

Why the bounds are enough.

* `sessions`: two requests are what a race on a thread takes, and a session concerns one
  thread at a time: the threads share only the gauge (proved for any number) and the lock.
  With `MaxAge` 0 one instant is enough for expiry.
* `ratelimit`: keys do not interact but for the sweep, and the read and the write
  bucket of one client are two keys of one sweep. With 2 ticks to a second and a
  window of 4, remaining times are fractional and `Retry-After` is 1 or 2; 9 instants
  let hits leave the window twice and two sweeps fall due (interval 3).
* `knowledge`: an update needs an old and a new document, a batch that fails needs a
  document added and another item to fail on; `MaxBatch` 3 with two documents leaves an
  item to fail. The safety properties also held on 3 documents and batches of 2
  (3,143,605 states).
* `crm`: two records that hold numbers and one added after a deletion. New records have
  one status and updates set `Archived` (`AddedAs`, `Requested`), so that with the default
  that a restore falls back to every status occurs; larger choices (records added as
  archived, updates to another status) held too (764,682 and 1,317,628 states).
* `crm_file`: two actors whose saves cross and one that makes both old.
* `agent_graph`: two threads, since what they share is the cache; two scopes with
  different tools; a question, its calls, their results and the answer are more than the
  window; the limit lets a run call tools once and be cut off when it calls them again.
* `agent_hit`: a window comes back at the third question at the latest.
* `alerts`: the old loop, the new one and the endpoint are all who can meet. Rules do not
  interact, and the proof covers several; with suppression 1 and two instants an alert
  is due again.
* `shutdown`: a hook that hangs, one before it, one after it, and one registered for the
  next shutdown; a deadline of 2 passes while a hook runs or between two.
* `delivery`: two attempts are a first and a last; with two mailboxes a message can reach
  one and not the other, calls do not meet but in a restart and the counter.

What the bounds leave open is closed by the proofs for all safety properties: none of the
theorems below depends on a bound. (`MaxAsked` and `MaxMade` of `AgentGraph` are any numbers.)

`CHECK_DEADLOCK FALSE` stands where the model ends by its bounds alone: requests, records,
questions, sends, watchers and hooks are used up, and the clock stops. `Knowledge` always has
a next step (a restart if nothing else), and so has `CRMFile`; their deadlock checks are there
but weak.

Symmetry is used on values the code only compares: documents, sources, records, and
the interchangeable actors and entries of `CRMFile`. It is not used in runs that check
liveness.

**Fairness** is weak fairness of what the code cannot help doing:

* `Sessions`: `RunStep(r)`. An admitted run goes on because every language model call has a
  request timeout (`llm.py:67,84,100,118,137`), the event loop and the thread pool are
  scheduled, and the `finally` blocks are unconditional.
* `AgentGraph`: `Step(t)`, for the same reason; tools that use the network have timeouts.
  Nothing is assumed of what the LLM answers: `RunsEnd` rests on the recursion limit.
* `Alerts`: the loops' threads run and their waits end, a join ends (it has a timeout), a
  request for `/metrics` that was begun goes on, and time passes. Nobody need start or stop
  a watcher or ask for `/metrics`; exceptions are finitely many.
* `Shutdown`: the thread that shuts down runs, and time passes. Hooks need not end.
* `Delivery`: attempts end, by their timeouts (10 s and 15 s) if need be, and so do pauses.
  Copies need not arrive.

Nothing obliges a client to make a request, nor an operator to delete, clean up, shut down
or restart.

## What is proved

With TLAPS, for all values of the constants that satisfy the named assumptions of their
module (`SessionsAssumption`, `RateLimitAssumption`, `KnowledgeAssumption`, `CRMAssumption`
and `NoneAssumption`, `CRMFileAssumption`, `AgentGraphAssumption` and its `NoneAssumption`,
`AlertsAssumption`, `ShutdownAssumption`, `DeliveryAssumption`: disjoint identifier sets and
numeric types; of `AgentGraph` also that the tools are finitely many, that nobody calls the
empty set of them and that no agent has the name of another node; the sets of requests,
records, threads, calls and mailboxes need not be finite). Each development proves one
inductive invariant `IInv` of `Spec` (`InductiveInvariant`; `FileIInv`, `FileInductiveInvariant`
for `CRMFile`), with one lemma or step per action, and the properties from it.

* **Sessions.** `TypeCorrect`, `OneClient`, `GaugeCorrect`, `ErasedCorrect`,
  `KeptCorrect`, `OwnerStable`, and `Refinement`: `Sessions` implements
  `SessionOwnership`. `OneClientPerSession` is not inductive: one needs that a
  non-admin client admitted to the present session of a thread owns its row
  (`OwnerInv`). `ErasedStaysErased` needs that a run's loaded
  history is of the session it was admitted to unless the thread is straddled
  (`HistoryInv`), `AnsweredTurnIsKept` that an unraced run under way holds every kept
  turn (`KeptInv`), and the gauge that the set of running requests stays finite (`GaugeInv`).
* **RateLimit.** `TypeCorrect`, `WindowBoundHolds`, `CountHolds`, `SweepHolds`,
  `RetryAfterHolds`. The invariant is that a deque is a suffix of the log of its
  bucket from which only hits outside the window are missing (`Tracks`), that
  logs are ordered and spaced (`Ordered`, `Spaced`) and that a deque's newest hit
  was in the window at the last sweep (`SweptTo`).
* **Knowledge.** `TypeCorrect`, `CacheFresh`, `AnsweredKept`,
  `SourceStaysThroughUpdates`, `RollbackComplete`. `FlowOK` says what a job may be at
  for its kind. `FreshInv` adds the searches in flight to the cache: one not
  overtaken holds what the collection holds. `DocsInv` gives every document one
  owner that promises it once, and says that a removal takes only replaced
  documents and a rollback only its own. `SourceInv` carries the argument for
  updates: whatever was promised or replaced, of a source not erased, has a
  *stable* successor, a document that no deletion under way and no batch may
  remove; when an update turns on its old documents, its own new one takes over
  as the successor.

* **CRMFile** (in `CRMProofs`). `FileTypeCorrect`, `FileCurrent`, `AnsweredKept`. `SavesInv`:
  what a change has put in is in the dictionary until somebody takes it out, and a snapshot since
  which nothing changed is the dictionary.

* **CRM.** `TypeCorrect`, `NobodyLost`, `OrderStays`, `ArchiveUndone`, `DeletionIsFinal`.
  `JobFits` says what an actor's knowledge is still worth: as long as nobody has touched
  its key (`stale`), the record it found is there and free numbers are free; a customer an
  order is made for is at its number or gone (`Given`).
  `NobodyIsLost` needs that the maximum of the numbers held plus one is held by nobody
  (`NextNumber`): a bounded set of numbers has a greatest one, because `<` on the
  naturals is well-founded (`GreatestNumber`). `DeletedIsGone` needs that a record being
  added was never deleted (`GoneInv`). `BookInv` keeps the status a record is due (`before`)
  together with the one the code remembers (`was`).
* **AgentGraph.** `TypeCorrect`, `CallsAnswered`, `OnceExecuted`, `AnswersFitTheView`, and what no
  run checks: `AnswersStayFitting`, `HistoriesGrow`, `HitFailsOnRepeat`, `CostBounded`,
  `NobodyHeldUp`. `ThreadFits` is the state of one thread: the last message tells the node its
  run is at (`LastFits`), a call not yet `Settled` is the last message and its run waits at the tools or was cut off,
  and an answer's key is the prompt of what stands before it. Three things carry the
  argument. A message that `add_messages` puts in an older one's place is never saved: before
  an agent the last message is a question or a result, which no answer replaces, so
  the edge raises (`AddedFacts`). So histories only grow, and what is settled or fits does so
  for good (`SettledStays`, `AnswersStay`); `HitFailsOnRepeat` says of divergence 3 below
  that it is the only way in which a cached answer fails a run. Second, what is cached
  under a key is a reply whose prompt is that key (`CacheInv`), and the code's key tells
  prompts of different scopes or contents apart (`PromptFacts`). Third, the calls a run waits at
  the tools with have an id no other run waits with, and were not carried out
  (`ExecutedInv`): calls never come from the cache, a new message has a new id (`CallsMade`),
  and a run that was at its tools never returns to the same message, even if it was cut off
  half-way (`CallsCarried`, `RestartExecuted`). What `ToolNode` returns, a set of results put into
  a sequence, has each result once by a bijection (`SetToSeqFacts`, `ResultFacts`).
  A second invariant, `BudgetInv`, counts: the calls of LLMs made and those the runs under way
  may still make (`Owed`, a set of pairs, whose cardinality takes the place of a sum over
  threads) are paid for by the questions, `Limit \div 2` calls each. So calls are bounded by
  questions (`CostBounded`; the router's own call is not counted), and `MaxMade` keeps no agent
  from asking its LLM (`NobodyHeldUp`), which `RunsEnd` needs to mean anything.
* **Alerts.** `TypeCorrect`, `NeverRepeated`, `OneLoopOnly`. `NotRepeated` is about the whole
  history kept, while the code compares with one instant per rule; `LastInv` says that
  this instant is no older than any alert of the rule, so a new alert is far enough
  from all of them, also after the history dropped its oldest. `OneLoop` needs that a
  watcher being joined was told (`JoinInv`).
* **Shutdown.** `TypeCorrect`, `LaterOnes`, `FailureBlocksNobody`. `BatchInv`: the hooks still to
  come were registered before all those of this shutdown that are past; `PastInv`: the latter
  have ended, but for the one waited for, unless the time is over, and then no other starts.
* **Delivery.** `TypeCorrect`, `CopiesBounded`, `SentHasArrived`, and `Refinement`: `Delivery`
  implements `DeliveryPromise`. `CallOK` bounds what has arrived and what is on its way
  together by the attempts that have ended, and leaves an attempt to a call that is busy;
  arrivals, answers and restarts then map to `Arrive`, `Answer` and `Die`, the rest to stutters.

Only model-checked is what is out of the prover's reach, liveness under fairness: `GaugeDrains`,
`RunsEnd`, `HighIsAlerted`, `CleanupReturns`, `SendsEnd`. The violations are single
counterexamples.

## Where code and words part

Three runs refute something the repository says of itself; `PROJECT.json` quotes it.

1. `session_use`: a non-admin's chat does not refresh `last_active`, so cleanup measures the
   age of a session, not its idleness.
2. `crm_file_crash`: a CRM file is truncated before it is written: a crash in between loses
   every record, although no save failed.
3. `agent_hit`: a cached answer is returned with the id of its first use. When the same
   window of messages comes back in that thread, it replaces its older self instead of being
   appended, the edge looks for tool calls in the user's question, and the chat fails.

Others were met while modelling and are not run:

4. `DELETE /sessions/{id}` answers by the checkpoints it deleted (`session.py:700`), so a
   session that has none yet is deleted and reported as not found (`session.py:675`).
5. `DELETE /sessions/{id}` is counted as a read (`middleware.py:285`) although the write
   quota is documented to cover it (`config.py:108`).
6. A batch upload whose rollback failed still answers `rolled_back = True` (`api.py:1194`),
   and is documented as atomic (`api.py:1120`).
7. A search that overlaps a change fills the cache with the old answer after the
   invalidation (`rag.py:307`, `cache.py:10`), where it stays until its TTL.
8. A deletion checks that the record it finds is archived (`crm.py:434`) and then deletes by
   number (`crm.py:439`), and nothing locks the two, although only archived records may be
   deleted (`crm.py:427`): one that another actor restores in between, or one that has got
   the number, is deleted while in use. That it is deleted for good (`crm.py:428`) is
   what holds: `DeletedIsGone`.
9. `sendmail` returns the addresses that were refused, and nobody looks
   (`email_sender.py:160`): an e-mail that reached one of several is answered as a success
   (`email_sender.py:88`). `KeepsPromise` is what holds.
10. A hook that hangs uses up the deadline of all (`app_state.py:108`), so the hooks after it
    do not run, although `run_cleanups` says it is skipped (`app_state.py:74`).
    `LaterOnesHaveEnded` shows what this is good for: no hook runs beside one it may depend on.
11. A cache hit records the tokens of the call that filled the cache; `_invoke_with_cache` says
    none (`graph.py:242`).
12. Only failed attempts from the second on count as retries (`retry.py:80`).

## Not modelled

* Stateless code: security headers, HTTPS redirect, body limit, request ids;
  configuration, validators, sanitizers, exceptions, factories.
* Pure I/O and formatting: file parsing, chunking, embeddings, prompts, the web
  page, nginx, deployment files; tools that only look something up.
* Counters and histograms that no code decides by.
* Operations that nothing in the package calls, or tests only: `clear()` and `add_batch()` of the
  RAG manager, `get_or_compute` of the caches, `clear_suppression`, `clear_alerts` and the callback
  of the alerts, `reset` of the shutdown state; the in-memory checkpointer, with which
  sessions have no table.
* `backup_sqlite.py`: a script outside the service that copies, checks and rotates in one pass.
* A clock that steps back; two CRM clients made by two first calls at once.
* SQLite, Chroma, LangGraph, SMTP and the webhook are external: a transaction is atomic, a
  call of the collection happens or fails, a node's step is saved or not, a request arrives
  once, or not.

## Plan

The modules above are what was planned, in this order: sessions, throttling, knowledge base,
CRM and its files, agent graph, alerts, shutdown, delivery. What could follow:

1. `Sessions` with the steps of `AgentGraph` between `Load` and `Save`, for what two runs on one
   thread do to each other's tool calls.
2. The shutdown with the components whose hooks it runs: which of their threads are
   still at work when their connections are closed.
3. A clock that steps back, in `RateLimit` and `Alerts`.
