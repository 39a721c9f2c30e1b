----------------------------- MODULE Knowledge -----------------------------
(***************************************************************************)
(* The knowledge base: RAGManager (cayz_agent/rag.py) over a Chroma        *)
(* collection, the RAG cache in front of it (cayz_agent/cache.py), the     *)
(* knowledge endpoints of cayz_agent/api.py and the two knowledge tools of *)
(* cayz_agent/tools.py.                                                    *)
(*                                                                         *)
(* An endpoint never awaits between its calls of the manager, so the event *)
(* loop runs one of them at a time, to its end; the tools run in worker    *)
(* threads meanwhile.  Each call of the collection and each call of the    *)
(* cache is one step.  A text is one document: the chunks it is split into *)
(* get their ids, are stored and are deleted together.                     *)
(***************************************************************************)
EXTENDS Naturals, FiniteSets, Sequences

CONSTANTS
  Loop,      \* the event loop, which runs the endpoints
  Tool,      \* the worker threads, which run the agent's tools
  Source,    \* values of metadata.source
  Doc,       \* chunk ids (uuid4), each generated once; bounds the uploads
  Query,     \* search texts (with their top_k)
  MaxBatch,  \* bound: the items of a batch upload
  NoSource,  \* the source of an id not generated yet
  Miss       \* what the cache holds of a key it has no entry for

ASSUME KnowledgeAssumption ==
  /\ Loop \notin Tool
  /\ MaxBatch \in Nat \ {0}
  /\ NoSource \notin Source
  /\ \A S \in SUBSET Doc : Miss # S

VARIABLES
  store,   \* the documents in the collection
  source,  \* source[d]: the metadata.source d was generated with
  cache,   \* cache[k]: the entry of key k in the RAG cache
  job      \* job[a]: the handler or tool a runs, with its local variables

\* History variables: no code reads them, the properties do.
VARIABLES
  answered,    \* documents of an upload, batch or update answered with success
  rolledBack,  \* documents of a batch answered with rolled_back = True
  stuck,       \* documents whose rollback failed
  retired,     \* documents a delete or update of their source came upon
  erased,      \* sources a delete came upon
  overtaken,   \* searches whose answer is older than the last invalidation
  suspect      \* keys such a search has filled

books == <<answered, rolledBack, stuck, retired, erased>>
races == <<overtaken, suspect>>
vars == <<store, source, cache, job, books, races>>
-----------------------------------------------------------------------------
Actor == {Loop} \cup Tool
Key == {"search", "search_scores"} \X Query

\* The tool calls search, the endpoint search_with_scores: they share no entry.
KeyOf(a, q) == <<IF a = Loop THEN "search_scores" ELSE "search", q>>

\* The collection has changed and invalidate_rag_cache is the next call.
Dirty == {"added", "deleted", "undone"}

Job ==
  [at : {"idle", "add", "get", "delete", "undo", "find", "fill"} \cup Dirty,
   kind : {"none", "upload", "batch", "update", "delete", "search"},
   todo : Seq(Source),   \* sources of the texts still to be added, or its source
   mine : SUBSET Doc,    \* the documents it has added
   doomed : SUBSET Doc,  \* the documents it is about to delete
   key : SUBSET Key,     \* the key it searches for
   seen : SUBSET Doc]    \* what the collection answered

NewJob(step, k, ss, key) ==
  [at |-> step, kind |-> k, todo |-> ss, mine |-> {}, doomed |-> {},
   key |-> key, seen |-> {}]

Idle == NewJob("idle", "none", <<>>, {})

At(a, step) == job[a].at = step
Go(a, j) == job' = [job EXCEPT ![a] = j]
Return(a) == Go(a, Idle)

Init ==
  /\ store = {}
  /\ source = [d \in Doc |-> NoSource]
  /\ cache = [k \in Key |-> Miss]
  /\ job = [a \in Actor |-> Idle]
  /\ answered = {} /\ rolledBack = {} /\ stuck = {}
  /\ retired = {} /\ erased = {}
  /\ overtaken = {} /\ suspect = {}
-----------------------------------------------------------------------------
Call(a, j) ==
  /\ At(a, "idle")
  /\ Go(a, j)
  /\ UNCHANGED <<store, source, cache, books, races>>

\* POST /knowledge/upload, POST /knowledge/upload-file, and the tool knowledge_upload.
Upload(a, s) == Call(a, NewJob("add", "upload", <<s>>, {}))

\* POST /knowledge/batch-upload of n items that pass validation.
BatchUpload(n) ==
  \E ss \in [1..n -> Source] : Call(Loop, NewJob("add", "batch", ss, {}))

\* PUT /knowledge/update.
Update(s) == Call(Loop, NewJob("add", "update", <<s>>, {}))

\* DELETE /knowledge/{source}.
DeleteSource(s) == Call(Loop, NewJob("get", "delete", <<s>>, {}))

\* The tool knowledge_search or GET /knowledge/search, and the cache has no
\* entry; with one, the entry is the answer and nothing changes.
Search(a, q) ==
  /\ cache[KeyOf(a, q)] = Miss
  /\ Call(a, NewJob("find", "search", <<>>, {KeyOf(a, q)}))
-----------------------------------------------------------------------------
(* invalidate_rag_cache, and the answers.                                  *)

Mut_KeepsEntries == UNCHANGED <<cache, races>>

\* cache.clear()
Invalidate ==
  /\ cache' = [k \in Key |-> Miss]
  /\ overtaken' = {a \in Actor : At(a, "fill")}
  /\ suspect' = {}

Succeed(a) ==
  /\ Return(a)
  /\ answered' = answered \cup job[a].mine
  /\ UNCHANGED <<rolledBack, stuck>>

\* A batch that failed answers rolled_back = True, however its rollback went.
AnswerRolledBack(a) ==
  /\ Return(a)
  /\ rolledBack' = rolledBack \cup job[a].mine
-----------------------------------------------------------------------------
(* add_documents_returning_ids, and what its callers do next.              *)

Mut_AddsWithoutSource(a, d) ==
  /\ At(a, "add")
  /\ source[d] = NoSource
  /\ store' = store \cup {d}
  /\ Go(a, [job[a] EXCEPT !.at = "added", !.mine = @ \cup {d}])
  /\ UNCHANGED <<source, cache, books, races>>

\* vectorstore.add_documents under a generated id.
Add(a, d) ==
  /\ At(a, "add")
  /\ source[d] = NoSource
  /\ source' = [source EXCEPT ![d] = Head(job[a].todo)]
  /\ store' = store \cup {d}
  /\ Go(a, [job[a] EXCEPT !.at = "added", !.mine = @ \cup {d}])
  /\ UNCHANGED <<cache, books, races>>

\* RAGIngestError: a batch rolls back what it has added, everything else ends.
AddFails(a) ==
  /\ At(a, "add")
  /\ \/ job[a].mine = {} /\ Return(a)
     \/ /\ job[a].mine # {}
        /\ Go(a, [job[a] EXCEPT !.at = "undo", !.doomed = job[a].mine])
  /\ UNCHANGED <<store, source, cache, books, races>>

\* The update goes on to the old documents, a batch to its next item.
AddedFirst(a) ==
  /\ At(a, "added")
  /\ \/ job[a].kind = "update" /\ Go(a, [job[a] EXCEPT !.at = "get"])
     \/ /\ job[a].kind = "batch" /\ Len(job[a].todo) > 1
        /\ Go(a, [job[a] EXCEPT !.at = "add", !.todo = Tail(@)])
  /\ Invalidate
  /\ UNCHANGED <<store, source, books>>

AddedLast(a) ==
  /\ At(a, "added")
  /\ job[a].kind # "update" /\ Len(job[a].todo) = 1
  /\ Succeed(a)
  /\ Invalidate
  /\ UNCHANGED <<store, source, retired, erased>>
-----------------------------------------------------------------------------
(* delete_by_source, and the second half of update_document.               *)

OfSource(s) == {d \in store : source[d] = s}

Mut_ReplacesItself(a) == OfSource(Head(job[a].todo))

\* The ids of the source, without the ones just added.
Old(a) == OfSource(Head(job[a].todo)) \ job[a].mine

\* collection.get(where = source); with no such id there is nothing to delete.
Get(a) ==
  LET s == Head(job[a].todo) IN
  /\ At(a, "get")
  /\ retired' = retired \cup (OfSource(s) \ job[a].mine)
  /\ erased' = IF job[a].kind = "delete" THEN erased \cup {s} ELSE erased
  /\ \/ Old(a) = {} /\ Succeed(a)
     \/ /\ Old(a) # {}
        /\ Go(a, [job[a] EXCEPT !.at = "delete", !.doomed = Old(a)])
        /\ UNCHANGED <<answered, rolledBack, stuck>>
  /\ UNCHANGED <<store, source, cache, races>>

\* collection.delete(ids).
Delete(a) ==
  /\ At(a, "delete")
  /\ store' = store \ job[a].doomed
  /\ Go(a, [job[a] EXCEPT !.at = "deleted"])
  /\ UNCHANGED <<source, cache, books, races>>

\* get or delete raises: 500 of a delete; an update has been stored and succeeds.
RemovalFails(a) ==
  /\ At(a, "get") \/ At(a, "delete")
  /\ Succeed(a)
  /\ UNCHANGED <<store, source, cache, retired, erased, races>>

Deleted(a) ==
  /\ At(a, "deleted")
  /\ Succeed(a)
  /\ Invalidate
  /\ UNCHANGED <<store, source, retired, erased>>
-----------------------------------------------------------------------------
(* The rollback of a batch: delete_by_ids, one text at a time.             *)

Mut_UndoBySource(d) == OfSource(source[d])

\* What the rollback of document d deletes.
UndoneWith(d) == {d}

Undo(a, d) ==
  /\ At(a, "undo") /\ d \in job[a].doomed
  /\ store' = store \ UndoneWith(d)
  /\ Go(a, [job[a] EXCEPT !.at = "undone", !.doomed = @ \ {d}])
  /\ UNCHANGED <<source, cache, books, races>>

\* The rollback goes on with the rest of what the batch has added.
UndoNext(a, rest) ==
  \/ /\ rest # {}
     /\ Go(a, [job[a] EXCEPT !.at = "undo", !.doomed = rest])
     /\ UNCHANGED rolledBack
  \/ rest = {} /\ AnswerRolledBack(a)

Mut_UndoStops(a, d) ==
  /\ At(a, "undo") /\ d \in job[a].doomed
  /\ AnswerRolledBack(a)
  /\ stuck' = stuck \cup {d}
  /\ UNCHANGED <<store, source, cache, answered, retired, erased, races>>

\* The deletion of d raises: it is logged and the rollback goes on.
UndoFails(a, d) ==
  /\ At(a, "undo") /\ d \in job[a].doomed
  /\ UndoNext(a, job[a].doomed \ {d})
  /\ stuck' = stuck \cup {d}
  /\ UNCHANGED <<store, source, cache, answered, retired, erased, races>>

Undone(a) ==
  /\ At(a, "undone")
  /\ UndoNext(a, job[a].doomed)
  /\ Invalidate
  /\ UNCHANGED <<store, source, answered, stuck, retired, erased>>
-----------------------------------------------------------------------------
(* The rest of search and of search_with_scores.                           *)

\* similarity_search.
Find(a) ==
  /\ At(a, "find")
  /\ Go(a, [job[a] EXCEPT !.at = "fill", !.seen = store])
  /\ overtaken' = overtaken \ {a}
  /\ UNCHANGED <<store, source, cache, books, suspect>>

FindFails(a) ==
  /\ At(a, "find")
  /\ Return(a)
  /\ UNCHANGED <<store, source, cache, books, races>>

\* cache.set, and the answer.
Fill(a) ==
  /\ At(a, "fill")
  /\ cache' = [k \in Key |-> IF k \in job[a].key THEN job[a].seen ELSE cache[k]]
  /\ suspect' = IF a \in overtaken THEN suspect \cup job[a].key ELSE suspect \ job[a].key
  /\ Return(a)
  /\ UNCHANGED <<store, source, books, overtaken>>

\* An entry reaches its TTL, or is the least recently used of a full cache.
Expire(k) ==
  /\ cache[k] # Miss
  /\ cache' = [cache EXCEPT ![k] = Miss]
  /\ suspect' = suspect \ {k}
  /\ UNCHANGED <<store, source, job, books, overtaken>>
-----------------------------------------------------------------------------
\* The process dies and is started again: Chroma's directory stays.
Restart ==
  /\ job' = [a \in Actor |-> Idle]
  /\ cache' = [k \in Key |-> Miss]
  /\ overtaken' = {} /\ suspect' = {}
  /\ UNCHANGED <<store, source, books>>

JobStep(a) ==
  \/ \E d \in Doc : Add(a, d) \/ Undo(a, d) \/ UndoFails(a, d)
  \/ AddFails(a) \/ AddedFirst(a) \/ AddedLast(a)
  \/ Get(a) \/ Delete(a) \/ RemovalFails(a) \/ Deleted(a)
  \/ Undone(a)
  \/ Find(a) \/ FindFails(a) \/ Fill(a)

Next ==
  \/ \E a \in Actor :
       \/ \E s \in Source : Upload(a, s)
       \/ \E q \in Query : Search(a, q)
       \/ JobStep(a)
  \/ \E n \in 1..MaxBatch : BatchUpload(n)
  \/ \E s \in Source : Update(s) \/ DeleteSource(s)
  \/ \E k \in Key : Expire(k)
  \/ Restart

Spec == Init /\ [][Next]_vars
-----------------------------------------------------------------------------
(* Properties.                                                             *)

\* Every variable keeps the kind of value the code gives it, and every stored
\* document has a source to be found by.
TypeOK ==
  /\ store \in SUBSET {d \in Doc : source[d] \in Source}
  /\ source \in [Doc -> Source \cup {NoSource}]
  /\ cache \in [Key -> (SUBSET Doc) \cup {Miss}]
  /\ job \in [Actor -> Job]
  /\ answered \in SUBSET Doc
  /\ rolledBack \in SUBSET Doc
  /\ stuck \in SUBSET Doc
  /\ retired \in SUBSET Doc
  /\ erased \in SUBSET Source
  /\ overtaken \in SUBSET Actor
  /\ suspect \in SUBSET Key

\* Between a change of the collection and its invalidate_rag_cache.
Changing == \E a \in Actor : job[a].at \in Dirty

\* What the cache answers is what the collection would answer, except while the
\* invalidation of a change is due and for an entry filled by a search that was
\* overtaken by an invalidation.
CacheIsFresh ==
  \A k \in Key : cache[k] # Miss /\ k \notin suspect /\ ~Changing => cache[k] = store

\* A document that was answered with success stays until a delete or an update
\* of its source comes upon it: no rollback, failed removal or other upload, and
\* no update of its own, takes it away.
AnsweredIsKept == answered \subseteq store \cup retired

\* A source with an answered document has a document in the collection at every
\* instant, however often it is updated and whichever step of an update fails,
\* until somebody deletes it.
SourceStays ==
  \A d \in answered : source[d] \notin erased => OfSource(source[d]) # {}

\* Of a batch answered with rolled_back = True the collection keeps only what
\* the rollback failed to delete and logged.
RollbackIsComplete == rolledBack \cap store \subseteq stuck
=============================================================================
