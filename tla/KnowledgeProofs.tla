-------------------------- MODULE KnowledgeProofs ---------------------------
(***************************************************************************)
(* Proofs about module Knowledge, for every set of tools, sources,         *)
(* documents and queries and every length of a batch.                      *)
(***************************************************************************)
EXTENDS Knowledge, TLAPS, SequenceTheorems

\* Where the jobs are: only the event loop removes, what a job is at goes with
\* its kind, and a job that adds or removes has a source.
FlowOK ==
  \A a \in Actor :
    LET j == job[a] IN
    /\ j.kind \in {"batch", "update", "delete"} => a = Loop
    /\ j.at \in {"add", "added", "get"} => j.todo # <<>>
    /\ j.at = "add" /\ j.kind # "batch" => j.mine = {}
    /\ j.at \in {"undo", "undone"} => j.kind = "batch"
    /\ j.at \in {"get", "delete", "deleted"} => j.kind \in {"update", "delete"}

\* The inductive invariant of the types.
ShapeInv == TypeOK /\ FlowOK

\* A search that was not overtaken holds what the collection holds.
FreshInv ==
  /\ \A a \in Actor :
       At(a, "fill") /\ a \notin overtaken /\ ~Changing => job[a].seen = store
  /\ CacheIsFresh

\* Every document has one owner, which promises it once; until then it is in the
\* collection, replaced, or in a rollback; and a removal takes replaced ones only.
DocsInv ==
  /\ \A d \in answered \cup rolledBack \cup retired : source[d] # NoSource
  /\ \A a \in Actor : \A d \in job[a].mine : source[d] # NoSource /\ d \notin answered
  /\ \A a, b \in Actor : a # b => job[a].mine \cap job[b].mine = {}
  /\ \A a \in Actor :
       /\ job[a].at \notin {"undo", "undone"} => job[a].mine \subseteq store \cup retired
       /\ job[a].at \in {"undo", "undone"} =>
            /\ job[a].doomed \subseteq job[a].mine
            /\ (job[a].mine \ job[a].doomed) \cap store \subseteq stuck
       /\ job[a].at = "delete" => job[a].doomed \subseteq retired
  /\ AnsweredIsKept
  /\ RollbackIsComplete

\* A document nothing under way may remove.
Stable(e) ==
  /\ e \in store
  /\ \A a \in Actor :
       /\ job[a].at = "delete" => e \notin job[a].doomed
       /\ job[a].kind = "batch" => e \notin job[a].mine

\* What an update has added is of its source and not replaced, and whatever was
\* promised or replaced, of a source not erased, has a stable successor.
SourceInv ==
  /\ \A a \in Actor :
       LET j == job[a] IN
       /\ j.kind \in {"batch", "update", "delete"} => j.mine \cap retired = {}
       /\ j.kind = "update" => \A d \in j.mine : source[d] = Head(j.todo)
       /\ j.kind = "update" /\ j.at \in {"added", "get"} => j.mine # {}
  /\ \A d \in answered \cup retired :
       source[d] \notin erased => \E e \in store : Stable(e) /\ source[e] = source[d]

\* The inductive invariant.
IInv == ShapeInv /\ FreshInv /\ DocsInv /\ SourceInv
-----------------------------------------------------------------------------
(* Typing.                                                                 *)

\* What is left of a sequence of two or more.
LEMMA LongTail ==
  ASSUME NEW S, NEW s \in Seq(S), Len(s) > 1
  PROVE  Tail(s) \in Seq(S) /\ Tail(s) # <<>>
<1>1. s # <<>>  OBVIOUS
<1>2. Tail(s) \in Seq(S) /\ Len(Tail(s)) = Len(s) - 1
  BY <1>1, HeadTailProperties
<1>3. Len(Tail(s)) # 0
  <2>1. Len(s) \in Nat  OBVIOUS
  <2> QED  BY <1>2, <2>1
<1> QED  BY <1>2, <1>3, EmptySeq

\* The initial states have the shape TypeOK asks for.
LEMMA ShapeInit == Init => ShapeInv
<1> SUFFICES ASSUME Init PROVE ShapeInv
  OBVIOUS
<1>1. Idle \in Job
  BY DEF Idle, NewJob, Job, Dirty
<1>2. TypeOK
  BY <1>1 DEF Init, TypeOK
<1>3. FlowOK
  BY DEF Init, FlowOK, Idle, NewJob
<1> QED  BY <1>2, <1>3 DEF ShapeInv

\* A call starts a job of the right shape.
LEMMA ShapeCall ==
  ASSUME ShapeInv, NEW a \in Actor, NEW j \in Job, Call(a, j),
         j.kind \in {"batch", "update", "delete"} => a = Loop,
         j.at \in {"add", "added", "get"} => j.todo # <<>>,
         j.at = "add" => j.mine = {},
         j.at \notin {"added", "undo", "undone", "delete", "deleted"},
         j.at = "get" => j.kind = "delete"
  PROVE  ShapeInv'
<1>1. TypeOK'
  BY DEF ShapeInv, TypeOK, Call, Go, books, races
<1>2. FlowOK'
  BY DEF ShapeInv, TypeOK, FlowOK, Call, Go
<1> QED  BY <1>1, <1>2 DEF ShapeInv

\* A job that returns leaves the shape of the others alone.
LEMMA ShapeReturn ==
  ASSUME ShapeInv, NEW a \in Actor, Return(a)
  PROVE  job' \in [Actor -> Job] /\ FlowOK'
<1>1. Idle \in Job
  BY DEF Idle, NewJob, Job, Dirty
<1>2. job' \in [Actor -> Job]
  BY <1>1 DEF ShapeInv, TypeOK, Return, Go
<1>3. FlowOK'
  BY DEF ShapeInv, TypeOK, FlowOK, Return, Go, Idle, NewJob
<1> QED  BY <1>2, <1>3

\* A step of a job that goes on keeps the shape.
LEMMA ShapeGoOn ==
  ASSUME ShapeInv, NEW a \in Actor, NEW j \in Job,
         Go(a, j),
         j.kind = job[a].kind,
         j.at \in {"add", "added", "get"} => j.todo # <<>>,
         j.at = "add" => j.kind = "batch",
         j.at \in {"undo", "undone"} => j.kind = "batch",
         j.at \in {"get", "delete", "deleted"} => j.kind \in {"update", "delete"}
  PROVE  job' \in [Actor -> Job] /\ FlowOK'
<1>1. job' \in [Actor -> Job]
  BY DEF ShapeInv, TypeOK, Go
<1>2. FlowOK'
  BY DEF ShapeInv, TypeOK, FlowOK, Go
<1> QED  BY <1>1, <1>2

\* A step of a job keeps the shape.
LEMMA ShapeJobStep ==
  ASSUME ShapeInv, NEW a \in Actor, JobStep(a)
  PROVE  ShapeInv'
<1> USE DEF ShapeInv, TypeOK, At, books, races
<1>0. job[a] \in Job
  OBVIOUS
<1>1. ASSUME NEW d \in Doc, Add(a, d)  PROVE ShapeInv'
  <2>1. Head(job[a].todo) \in Source
    BY <1>1 DEF Add, FlowOK, Job
  <2>2. [job[a] EXCEPT !.at = "added", !.mine = @ \cup {d}] \in Job
    BY <1>0 DEF Job, Dirty
  <2>3. job' \in [Actor -> Job] /\ FlowOK'
    BY <1>1, <2>2, ShapeGoOn DEF Add, Job, FlowOK
  <2> QED  BY <1>1, <2>1, <2>3 DEF Add
<1>2. ASSUME NEW d \in Doc, Undo(a, d)  PROVE ShapeInv'
  <2>1. [job[a] EXCEPT !.at = "undone", !.doomed = @ \ {d}] \in Job
    BY <1>0 DEF Job, Dirty
  <2>2. job' \in [Actor -> Job] /\ FlowOK'
    BY <1>2, <2>1, ShapeGoOn DEF Undo, Job, FlowOK
  <2> QED  BY <1>2, <2>2 DEF Undo, UndoneWith
<1>3. ASSUME NEW rest \in SUBSET Doc, UndoNext(a, rest), job[a].kind = "batch"
      PROVE  job' \in [Actor -> Job] /\ FlowOK' /\ rolledBack' \in SUBSET Doc
  <2>1. CASE rest # {}
    <3>1. [job[a] EXCEPT !.at = "undo", !.doomed = rest] \in Job
      BY <1>0 DEF Job, Dirty
    <3> QED  BY <1>3, <2>1, <3>1, ShapeGoOn DEF UndoNext, Job
  <2>2. CASE rest = {}
    <3>1. job[a].mine \in SUBSET Doc
      BY <1>0 DEF Job
    <3> QED  BY <1>3, <2>2, <3>1, ShapeReturn DEF UndoNext, AnswerRolledBack
  <2> QED  BY <2>1, <2>2
<1>4. ASSUME NEW d \in Doc, UndoFails(a, d)  PROVE ShapeInv'
  <2>1. job[a].doomed \ {d} \in SUBSET Doc /\ job[a].kind = "batch"
    BY <1>0, <1>4 DEF UndoFails, FlowOK, Job
  <2> QED  BY <1>3, <1>4, <2>1 DEF UndoFails
<1>5. CASE AddFails(a)
  <2>1. CASE job[a].mine = {}
    BY <1>5, <2>1, ShapeReturn DEF AddFails
  <2>2. CASE job[a].mine # {}
    <3>1. [job[a] EXCEPT !.at = "undo", !.doomed = job[a].mine] \in Job
      BY <1>0 DEF Job, Dirty
    <3>2. job[a].kind = "batch"
      BY <1>5, <2>2 DEF AddFails, FlowOK
    <3> QED  BY <1>5, <2>2, <3>1, <3>2, ShapeGoOn DEF AddFails, Job
  <2> QED  BY <2>1, <2>2
<1>6. ASSUME Invalidate
      PROVE  /\ cache' \in [Key -> (SUBSET Doc) \cup {Miss}]
             /\ overtaken' \in SUBSET Actor /\ suspect' \in SUBSET Key
  BY <1>6 DEF Invalidate
<1>7. ASSUME Succeed(a)
      PROVE  /\ job' \in [Actor -> Job] /\ FlowOK'
             /\ answered' \in SUBSET Doc
  <2>1. job[a].mine \in SUBSET Doc
    BY <1>0 DEF Job
  <2> QED  BY <1>7, <2>1, ShapeReturn DEF Succeed
<1>8. CASE AddedFirst(a)
  <2>1. CASE job[a].kind = "update"
    <3>1. [job[a] EXCEPT !.at = "get"] \in Job
      BY <1>0 DEF Job, Dirty
    <3>2. job' \in [Actor -> Job] /\ FlowOK'
      BY <1>8, <2>1, <3>1, ShapeGoOn DEF AddedFirst, Job, FlowOK
    <3> QED  BY <1>6, <1>8, <3>2 DEF AddedFirst
  <2>2. CASE job[a].kind # "update"
    <3>1. Tail(job[a].todo) \in Seq(Source) /\ Tail(job[a].todo) # <<>>
      <4>1. job[a].todo \in Seq(Source)  BY <1>0 DEF Job
      <4>2. Len(job[a].todo) > 1  BY <1>8, <2>2 DEF AddedFirst
      <4> QED  BY <4>1, <4>2, LongTail
    <3>2. [job[a] EXCEPT !.at = "add", !.todo = Tail(@)] \in Job
      BY <1>0, <3>1 DEF Job, Dirty
    <3>3. job' \in [Actor -> Job] /\ FlowOK'
      BY <1>8, <2>2, <3>1, <3>2, ShapeGoOn DEF AddedFirst, Job
    <3> QED  BY <1>6, <1>8, <3>3 DEF AddedFirst
  <2> QED  BY <2>1, <2>2
<1>9. CASE AddedLast(a)
  BY <1>6, <1>7, <1>9 DEF AddedLast, Succeed
<1>10. CASE Get(a)
  <2>1. Head(job[a].todo) \in Source
    BY <1>0, <1>10 DEF Get, FlowOK, Job
  <2>2. Old(a) \in SUBSET Doc
    BY DEF Old, OfSource
  <2>3. job' \in [Actor -> Job] /\ FlowOK' /\ answered' \in SUBSET Doc
         /\ rolledBack' = rolledBack /\ stuck' = stuck
    <3>1. CASE Succeed(a)
      BY <1>7, <3>1 DEF Succeed
    <3>2. CASE ~Succeed(a)
      <4>1. [job[a] EXCEPT !.at = "delete", !.doomed = Old(a)] \in Job
        BY <1>0, <2>2 DEF Job, Dirty
      <4>2. Go(a, [job[a] EXCEPT !.at = "delete", !.doomed = Old(a)])
            /\ UNCHANGED <<answered, rolledBack, stuck>>
        BY <1>10, <3>2 DEF Get
      <4>3. job[a].kind \in {"update", "delete"}
        BY <1>10 DEF Get, FlowOK
      <4> QED  BY <4>1, <4>2, <4>3, ShapeGoOn DEF Job
    <3> QED  BY <3>1, <3>2
  <2>4. retired' \in SUBSET Doc /\ erased' \in SUBSET Source
    BY <1>10, <2>1 DEF Get, OfSource
  <2> QED  BY <1>10, <2>3, <2>4 DEF Get
<1>11. CASE Delete(a)
  <2>1. [job[a] EXCEPT !.at = "deleted"] \in Job
    BY <1>0 DEF Job, Dirty
  <2>2. job' \in [Actor -> Job] /\ FlowOK'
    BY <1>11, <2>1, ShapeGoOn DEF Delete, Job, FlowOK
  <2> QED  BY <1>11, <2>2 DEF Delete
<1>12. CASE RemovalFails(a)
  BY <1>7, <1>12 DEF RemovalFails, Succeed
<1>13. CASE Deleted(a)
  BY <1>6, <1>7, <1>13 DEF Deleted, Succeed
<1>14. CASE Undone(a)
  <2>1. job[a].doomed \in SUBSET Doc /\ job[a].kind = "batch"
    BY <1>0, <1>14 DEF Undone, FlowOK, Job
  <2> QED  BY <1>3, <1>6, <1>14, <2>1 DEF Undone
<1>15. CASE Find(a)
  <2>1. [job[a] EXCEPT !.at = "fill", !.seen = store] \in Job
    BY <1>0 DEF Job, Dirty
  <2>2. job' \in [Actor -> Job] /\ FlowOK'
    BY <1>15, <2>1, ShapeGoOn DEF Find, Job
  <2> QED  BY <1>15, <2>2 DEF Find
<1>16. CASE FindFails(a)
  BY <1>16, ShapeReturn DEF FindFails
<1>17. CASE Fill(a)
  <2>1. job[a].key \subseteq Key /\ job[a].seen \subseteq Doc
    BY <1>0 DEF Job
  <2> QED  BY <1>17, <2>1, ShapeReturn DEF Fill
<1> QED
  BY <1>1, <1>2, <1>4, <1>5, <1>8, <1>9, <1>10, <1>11, <1>12, <1>13, <1>14,
     <1>15, <1>16, <1>17 DEF JobStep

\* Every step keeps the shape.
LEMMA ShapeStep ==
  ASSUME ShapeInv, [Next]_vars
  PROVE  ShapeInv'
<1>1. ASSUME NEW k \in {"upload", "batch", "update", "delete"},
             NEW ss \in Seq(Source), NEW step \in {"add", "get"}
      PROVE  NewJob(step, k, ss, {}) \in Job
  BY DEF NewJob, Job, Dirty
<1>2. ASSUME NEW a \in Actor, NEW s \in Source, Upload(a, s)  PROVE ShapeInv'
  <2>1. NewJob("add", "upload", <<s>>, {}) \in Job
    <3>1. <<s>> \in Seq(Source)  OBVIOUS
    <3> QED  BY <1>1, <3>1
  <2> QED  BY <1>2, <2>1, ShapeCall DEF Upload, NewJob
<1>3. ASSUME NEW a \in Actor, NEW q \in Query, Search(a, q)  PROVE ShapeInv'
  <2>1. {KeyOf(a, q)} \subseteq Key
    BY DEF KeyOf, Key
  <2>2. NewJob("find", "search", <<>>, {KeyOf(a, q)}) \in Job
    BY <2>1 DEF NewJob, Job, Dirty
  <2> QED  BY <1>3, <2>2, ShapeCall DEF Search, NewJob
<1>4. Loop \in Actor
  BY DEF Actor
<1>5. ASSUME NEW n \in 1..MaxBatch, BatchUpload(n)  PROVE ShapeInv'
  <2>1. PICK ss \in [1..n -> Source] : Call(Loop, NewJob("add", "batch", ss, {}))
    BY <1>5 DEF BatchUpload
  <2>2. ss \in Seq(Source) /\ ss # <<>>
    BY KnowledgeAssumption
  <2>3. NewJob("add", "batch", ss, {}) \in Job
    BY <1>1, <2>2
  <2> QED  BY <1>4, <2>1, <2>2, <2>3, ShapeCall DEF NewJob
<1>6. ASSUME NEW s \in Source, Update(s)  PROVE ShapeInv'
  <2>1. NewJob("add", "update", <<s>>, {}) \in Job
    <3>1. <<s>> \in Seq(Source)  OBVIOUS
    <3> QED  BY <1>1, <3>1
  <2> QED  BY <1>4, <1>6, <2>1, ShapeCall DEF Update, NewJob
<1>7. ASSUME NEW s \in Source, DeleteSource(s)  PROVE ShapeInv'
  <2>1. NewJob("get", "delete", <<s>>, {}) \in Job
    <3>1. <<s>> \in Seq(Source)  OBVIOUS
    <3> QED  BY <1>1, <3>1
  <2> QED  BY <1>4, <1>7, <2>1, ShapeCall DEF DeleteSource, NewJob
<1>8. ASSUME NEW k \in Key, Expire(k)  PROVE ShapeInv'
  BY <1>8 DEF Expire, ShapeInv, TypeOK, FlowOK, books
<1>9. CASE Restart
  <2>1. Idle \in Job
    BY DEF Idle, NewJob, Job, Dirty
  <2>2. TypeOK'
    BY <1>9, <2>1 DEF Restart, ShapeInv, TypeOK, books
  <2>3. FlowOK'
    BY <1>9 DEF Restart, FlowOK, Idle, NewJob
  <2> QED  BY <2>2, <2>3 DEF ShapeInv
<1>10. CASE UNCHANGED vars
  BY <1>10 DEF vars, books, races, ShapeInv, TypeOK, FlowOK
<1> QED
  BY <1>2, <1>3, <1>5, <1>6, <1>7, <1>8, <1>9, <1>10, ShapeJobStep DEF Next
-----------------------------------------------------------------------------
(* What a step does to the jobs.                                           *)

\* One job changes.
LEMMA Going ==
  ASSUME TypeOK, NEW a \in Actor, NEW j, Go(a, j)
  PROVE  job'[a] = j /\ \A b \in Actor \ {a} : job'[b] = job[b]
  BY DEF TypeOK, Go

\* A finished job holds nothing.
LEMMA IdleFields ==
  /\ Idle.at = "idle" /\ Idle.kind = "none"
  /\ Idle.mine = {} /\ Idle.doomed = {}
  BY DEF Idle, NewJob

\* The other jobs stay when one goes on, and a job that returns is idle.
LEMMA Returning ==
  ASSUME TypeOK, NEW a \in Actor, Return(a)
  PROVE  /\ job'[a].at = "idle" /\ job'[a].kind = "none"
         /\ job'[a].mine = {} /\ job'[a].doomed = {}
         /\ \A b \in Actor \ {a} : job'[b] = job[b]
  BY Going, IdleFields DEF Return
-----------------------------------------------------------------------------
(* Fresh entries.                                                          *)

\* A step that changes the collection leaves its invalidation due.
LEMMA FreshDirty ==
  ASSUME TypeOK, NEW a \in Actor, job'[a].at \in Dirty
  PROVE  FreshInv'
  BY DEF FreshInv, CacheIsFresh, Changing

\* An invalidation empties the cache and marks every search it overtakes.
LEMMA FreshInvalidate ==
  ASSUME TypeOK, NEW a \in Actor, Invalidate, job'[a].at # "fill",
         \A b \in Actor \ {a} : job'[b] = job[b]
  PROVE  FreshInv'
<1>1. \A b \in Actor : At(b, "fill")' => b \in overtaken'
  BY DEF Invalidate, At
<1>2. \A k \in Key : cache'[k] = Miss
  BY DEF Invalidate
<1> QED  BY <1>1, <1>2 DEF FreshInv, CacheIsFresh

\* A step that changes neither collection nor cache and neither begins nor ends
\* a change.
LEMMA FreshElsewhere ==
  ASSUME FreshInv, NEW a \in Actor, UNCHANGED <<store, cache>>, UNCHANGED races,
         job[a].at \notin Dirty, job'[a].at # "fill",
         \A b \in Actor \ {a} : job'[b] = job[b]
  PROVE  FreshInv'
<1>1. Changing => Changing'
  BY DEF Changing
<1> QED  BY <1>1 DEF FreshInv, CacheIsFresh, At, races

\* A step of a job keeps what is fresh.
LEMMA FreshJobStep ==
  ASSUME ShapeInv, FreshInv, NEW a \in Actor, JobStep(a)
  PROVE  FreshInv'
<1> USE DEF ShapeInv, At
<1>0. TypeOK /\ job[a] \in Job
  BY DEF TypeOK
<1>1. ASSUME NEW d \in Doc, Add(a, d)  PROVE FreshInv'
  <2>1. job'[a].at = "added"
    BY <1>0, <1>1 DEF Add, Go, TypeOK, Job
  <2> QED  BY <1>0, <2>1, FreshDirty DEF Dirty
<1>2. ASSUME NEW d \in Doc, Undo(a, d)  PROVE FreshInv'
  <2>1. job'[a].at = "undone"
    BY <1>0, <1>2 DEF Undo, Go, TypeOK, Job
  <2> QED  BY <1>0, <2>1, FreshDirty DEF Dirty
<1>3. ASSUME NEW rest, UndoNext(a, rest)
      PROVE  /\ job'[a].at \in {"undo", "idle"}
             /\ \A b \in Actor \ {a} : job'[b] = job[b]
  <2>1. CASE rest # {}
    <3>1. Go(a, [job[a] EXCEPT !.at = "undo", !.doomed = rest])
      BY <1>3, <2>1 DEF UndoNext
    <3> QED  BY <1>0, <3>1 DEF Go, TypeOK, Job
  <2>2. CASE rest = {}
    BY <1>0, <1>3, <2>2, Returning DEF UndoNext, AnswerRolledBack
  <2> QED  BY <2>1, <2>2
<1>4. ASSUME NEW d \in Doc, UndoFails(a, d)  PROVE FreshInv'
  <2>1. /\ job'[a].at \in {"undo", "idle"}
        /\ \A b \in Actor \ {a} : job'[b] = job[b]
    BY <1>3, <1>4 DEF UndoFails
  <2> QED  BY <1>4, <2>1, FreshElsewhere DEF UndoFails, Dirty, races
<1>5. CASE AddFails(a)
  <2>1. /\ job'[a].at \in {"undo", "idle"}
        /\ \A b \in Actor \ {a} : job'[b] = job[b]
    <3>1. CASE job[a].mine = {}
      BY <1>0, <1>5, <3>1, Returning DEF AddFails
    <3>2. CASE job[a].mine # {}
      <4>1. Go(a, [job[a] EXCEPT !.at = "undo", !.doomed = job[a].mine])
        BY <1>5, <3>2 DEF AddFails
      <4> QED  BY <1>0, <4>1 DEF Go, TypeOK, Job
    <3> QED  BY <3>1, <3>2
  <2> QED  BY <1>5, <2>1, FreshElsewhere DEF AddFails, Dirty, races
<1>6. CASE AddedFirst(a)
  <2>1. /\ job'[a].at \in {"get", "add"}
        /\ \A b \in Actor \ {a} : job'[b] = job[b]
    <3>1. CASE job[a].kind = "update"
      <4>1. Go(a, [job[a] EXCEPT !.at = "get"])
        BY <1>6, <3>1 DEF AddedFirst
      <4> QED  BY <1>0, <4>1 DEF Go, TypeOK, Job
    <3>2. CASE job[a].kind # "update"
      <4>1. Go(a, [job[a] EXCEPT !.at = "add", !.todo = Tail(@)])
        BY <1>6, <3>2 DEF AddedFirst
      <4> QED  BY <1>0, <4>1 DEF Go, TypeOK, Job
    <3> QED  BY <3>1, <3>2
  <2> QED  BY <1>0, <1>6, <2>1, FreshInvalidate DEF AddedFirst
<1>7. CASE AddedLast(a)
  BY <1>0, <1>7, Returning, FreshInvalidate DEF AddedLast, Succeed
<1>8. CASE Get(a)
  <2>1. /\ job'[a].at \in {"delete", "idle"}
        /\ \A b \in Actor \ {a} : job'[b] = job[b]
    <3>1. CASE Old(a) = {}
      BY <1>0, <1>8, <3>1, Returning DEF Get, Succeed
    <3>2. CASE Old(a) # {}
      <4>1. Go(a, [job[a] EXCEPT !.at = "delete", !.doomed = Old(a)])
        BY <1>8, <3>2 DEF Get
      <4> QED  BY <1>0, <4>1 DEF Go, TypeOK, Job
    <3> QED  BY <3>1, <3>2
  <2> QED  BY <1>8, <2>1, FreshElsewhere DEF Get, Dirty, races
<1>9. CASE Delete(a)
  <2>1. job'[a].at = "deleted"
    BY <1>0, <1>9 DEF Delete, Go, TypeOK, Job
  <2> QED  BY <1>0, <2>1, FreshDirty DEF Dirty
<1>10. CASE RemovalFails(a)
  <2>1. job'[a].at = "idle" /\ \A b \in Actor \ {a} : job'[b] = job[b]
    BY <1>0, <1>10, Returning DEF RemovalFails, Succeed
  <2> QED  BY <1>10, <2>1, FreshElsewhere DEF RemovalFails, Dirty, races
<1>11. CASE Deleted(a)
  BY <1>0, <1>11, Returning, FreshInvalidate DEF Deleted, Succeed
<1>12. CASE Undone(a)
  <2>1. /\ job'[a].at \in {"undo", "idle"}
        /\ \A b \in Actor \ {a} : job'[b] = job[b]
    BY <1>3, <1>12 DEF Undone
  <2> QED  BY <1>0, <1>12, <2>1, FreshInvalidate DEF Undone
<1>13. CASE Find(a)
  <2>1. /\ job'[a].at = "fill" /\ job'[a].seen = store
        /\ \A b \in Actor \ {a} : job'[b] = job[b]
    BY <1>0, <1>13 DEF Find, Go, TypeOK, Job
  <2>2. Changing => Changing'
    BY <1>13, <2>1 DEF Changing, Find, Dirty
  <2> QED  BY <1>13, <2>1, <2>2 DEF Find, FreshInv, CacheIsFresh
<1>14. CASE FindFails(a)
  <2>1. job'[a].at = "idle" /\ \A b \in Actor \ {a} : job'[b] = job[b]
    BY <1>0, <1>14, Returning DEF FindFails
  <2> QED  BY <1>14, <2>1, FreshElsewhere DEF FindFails, Dirty, races
<1>15. CASE Fill(a)
  <2>1. job'[a].at = "idle" /\ \A b \in Actor \ {a} : job'[b] = job[b]
    BY <1>0, <1>15, Returning DEF Fill
  <2>2. Changing => Changing'
    BY <1>15, <2>1 DEF Changing, Fill, Dirty
  <2>3. \A b \in Actor :
          At(b, "fill")' /\ b \notin overtaken' /\ ~Changing' => job'[b].seen = store'
    BY <1>15, <2>1, <2>2 DEF Fill, FreshInv
  <2>4. CacheIsFresh'
    <3>1. \A k \in Key :
            cache'[k] = IF k \in job[a].key THEN job[a].seen ELSE cache[k]
      BY <1>15 DEF Fill
    <3>2. ASSUME NEW k \in Key, k \notin suspect', ~Changing', k \in job[a].key
          PROVE  cache'[k] = store'
      <4>1. a \notin overtaken
        BY <1>15, <3>2 DEF Fill
      <4>2. job[a].seen = store
        BY <1>15, <2>2, <3>2, <4>1 DEF Fill, FreshInv
      <4> QED  BY <1>15, <3>1, <3>2, <4>2 DEF Fill
    <3>3. ASSUME NEW k \in Key, k \notin suspect', ~Changing', k \notin job[a].key,
                 cache'[k] # Miss
          PROVE  cache'[k] = store'
      <4>1. k \notin suspect
        BY <1>15, <3>3 DEF Fill
      <4> QED  BY <1>15, <2>2, <3>1, <3>3, <4>1 DEF Fill, FreshInv, CacheIsFresh
    <3> QED  BY <3>2, <3>3 DEF CacheIsFresh
  <2> QED  BY <2>3, <2>4 DEF FreshInv
<1> QED
  BY <1>1, <1>2, <1>4, <1>5, <1>6, <1>7, <1>8, <1>9, <1>10, <1>11, <1>12,
     <1>13, <1>14, <1>15 DEF JobStep

\* Every step keeps what is fresh.
LEMMA FreshStep ==
  ASSUME ShapeInv, FreshInv, [Next]_vars
  PROVE  FreshInv'
<1>0. TypeOK /\ Loop \in Actor
  BY DEF ShapeInv, Actor
<1>1. ASSUME NEW a \in Actor, NEW j, Call(a, j), j.at # "fill"  PROVE FreshInv'
  BY <1>0, <1>1, Going, FreshElsewhere DEF Call, At, Dirty
<1>2. ASSUME NEW k \in Key, Expire(k)  PROVE FreshInv'
  <2>1. \A l \in Key : cache'[l] = IF l = k THEN Miss ELSE cache[l]
    BY <1>0, <1>2 DEF Expire, TypeOK
  <2>2. \A l \in Key \ {k} : l \notin suspect' => l \notin suspect
    BY <1>2 DEF Expire
  <2>3. Changing' = Changing
    BY <1>2 DEF Expire, Changing
  <2> QED  BY <1>2, <2>1, <2>2, <2>3 DEF Expire, FreshInv, CacheIsFresh, At
<1>3. CASE Restart
  <2>1. \A k \in Key : cache'[k] = Miss
    BY <1>3 DEF Restart
  <2>2. \A a \in Actor : job'[a].at = "idle"
    BY <1>3, IdleFields DEF Restart
  <2> QED  BY <2>1, <2>2 DEF FreshInv, CacheIsFresh, At
<1>4. CASE UNCHANGED vars
  BY <1>4 DEF vars, races, FreshInv, CacheIsFresh, Changing, At
<1>5. ASSUME NEW a \in Actor, NEW s \in Source, Upload(a, s)  PROVE FreshInv'
  BY <1>1, <1>5 DEF Upload, NewJob
<1>6. ASSUME NEW a \in Actor, NEW q \in Query, Search(a, q)  PROVE FreshInv'
  BY <1>1, <1>6 DEF Search, NewJob
<1>7. ASSUME NEW n \in 1..MaxBatch, BatchUpload(n)  PROVE FreshInv'
  BY <1>0, <1>1, <1>7 DEF BatchUpload, NewJob
<1>8. ASSUME NEW s \in Source, Update(s) \/ DeleteSource(s)  PROVE FreshInv'
  BY <1>0, <1>1, <1>8 DEF Update, DeleteSource, NewJob
<1> QED
  BY <1>2, <1>3, <1>4, <1>5, <1>6, <1>7, <1>8, FreshJobStep DEF Next
-----------------------------------------------------------------------------
(* Documents.                                                              *)

\* What DocsInv says of the removals and the rollback of one job.
DocsOfJob(j) ==
  /\ j.at \notin {"undo", "undone"} => j.mine \subseteq store \cup retired
  /\ j.at \in {"undo", "undone"} =>
       /\ j.doomed \subseteq j.mine
       /\ (j.mine \ j.doomed) \cap store \subseteq stuck
  /\ j.at = "delete" => j.doomed \subseteq retired

\* A step of one job that leaves the collection alone, keeps what the job has
\* added or gives it up, and promises nothing but what it gives up.
LEMMA DocsMove ==
  ASSUME DocsInv, NEW a \in Actor, UNCHANGED <<store, source>>,
         \A b \in Actor \ {a} : job'[b] = job[b],
         stuck \subseteq stuck', retired \subseteq retired',
         \A d \in retired' : source[d] # NoSource,
         \/ /\ job'[a].mine = job[a].mine
            /\ UNCHANGED <<answered, rolledBack>>
         \/ /\ job'[a].mine = {}
            /\ answered' \cup rolledBack' \subseteq answered \cup rolledBack \cup job[a].mine
            /\ answered' \subseteq answered \cup job[a].mine,
         AnsweredIsKept', RollbackIsComplete',
         DocsOfJob(job[a])'
  PROVE  DocsInv'
<1>1. \A d \in answered' \cup rolledBack' \cup retired' : source'[d] # NoSource
  BY DEF DocsInv
<1>2. \A b \in Actor : \A d \in job'[b].mine : source'[d] # NoSource /\ d \notin answered'
  BY DEF DocsInv
<1>3. \A b, c \in Actor : b # c => job'[b].mine \cap job'[c].mine = {}
  BY DEF DocsInv
<1>4. \A b \in Actor : DocsOfJob(job[b])'
  BY DEF DocsInv, DocsOfJob
<1> QED  BY <1>1, <1>2, <1>3, <1>4 DEF DocsInv, DocsOfJob

\* A job that returns without an answer.
LEMMA DocsReturn ==
  ASSUME ShapeInv, DocsInv, NEW a \in Actor, Return(a),
         UNCHANGED <<store, source, books>>
  PROVE  DocsInv'
<1>1. TypeOK
  BY DEF ShapeInv
<1>2. /\ job'[a].at = "idle" /\ job'[a].mine = {}
      /\ \A b \in Actor \ {a} : job'[b] = job[b]
  BY <1>1, Returning
<1>3. AnsweredIsKept' /\ RollbackIsComplete' /\ DocsOfJob(job[a])'
  BY <1>2 DEF DocsInv, books, AnsweredIsKept, RollbackIsComplete, DocsOfJob
<1> QED  BY <1>2, <1>3, DocsMove DEF DocsInv, books

\* A job that returns with success.
LEMMA DocsSucceed ==
  ASSUME ShapeInv, DocsInv, NEW a \in Actor, Succeed(a),
         job[a].at \notin {"undo", "undone"},
         UNCHANGED <<store, source>>, retired \subseteq retired',
         \A d \in retired' : source[d] # NoSource
  PROVE  DocsInv'
<1>1. TypeOK
  BY DEF ShapeInv
<1>2. /\ job'[a].at = "idle" /\ job'[a].mine = {}
      /\ \A b \in Actor \ {a} : job'[b] = job[b]
  BY <1>1, Returning DEF Succeed
<1>3. AnsweredIsKept' /\ RollbackIsComplete' /\ DocsOfJob(job[a])'
  BY <1>2 DEF DocsInv, Succeed, AnsweredIsKept, RollbackIsComplete, DocsOfJob
<1> QED  BY <1>2, <1>3, DocsMove DEF DocsInv, Succeed

\* A step of a rollback that deletes nothing: what is no longer in the list of
\* the rest is gone or could not be deleted.
LEMMA DocsUndoNext ==
  ASSUME ShapeInv, DocsInv, NEW a \in Actor, NEW rest, UndoNext(a, rest),
         job[a].at \in {"undo", "undone"}, rest \subseteq job[a].doomed,
         stuck \subseteq stuck', job[a].doomed \ rest \subseteq stuck',
         UNCHANGED <<store, source, answered, retired>>
  PROVE  DocsInv'
<1>1. TypeOK /\ job[a] \in Job
  BY DEF ShapeInv, TypeOK
<1>2. /\ job[a].doomed \subseteq job[a].mine
      /\ (job[a].mine \ rest) \cap store \subseteq stuck'
  BY DEF DocsInv
<1>3. CASE rest # {}
  <2>1. Go(a, [job[a] EXCEPT !.at = "undo", !.doomed = rest]) /\ UNCHANGED rolledBack
    BY <1>3 DEF UndoNext
  <2>2. /\ job'[a].at = "undo" /\ job'[a].doomed = rest /\ job'[a].mine = job[a].mine
        /\ \A b \in Actor \ {a} : job'[b] = job[b]
    BY <1>1, <2>1 DEF Go, TypeOK, Job
  <2>3. AnsweredIsKept' /\ RollbackIsComplete' /\ DocsOfJob(job[a])'
    BY <1>2, <2>1, <2>2 DEF DocsInv, AnsweredIsKept, RollbackIsComplete, DocsOfJob
  <2> QED  BY <2>1, <2>2, <2>3, DocsMove DEF DocsInv
<1>4. CASE rest = {}
  <2>1. Return(a) /\ rolledBack' = rolledBack \cup job[a].mine
    BY <1>4 DEF UndoNext, AnswerRolledBack
  <2>2. /\ job'[a].at = "idle" /\ job'[a].mine = {}
        /\ \A b \in Actor \ {a} : job'[b] = job[b]
    BY <1>1, <2>1, Returning
  <2>3. AnsweredIsKept' /\ RollbackIsComplete' /\ DocsOfJob(job[a])'
    BY <1>2, <1>4, <2>1, <2>2 DEF DocsInv, AnsweredIsKept, RollbackIsComplete, DocsOfJob
  <2> QED  BY <2>1, <2>2, <2>3, DocsMove DEF DocsInv
<1> QED  BY <1>3, <1>4

\* A new document belongs to the job that added it alone.
LEMMA DocsAdd ==
  ASSUME ShapeInv, DocsInv, NEW a \in Actor, NEW d \in Doc, Add(a, d)
  PROVE  DocsInv'
<1>1. TypeOK /\ job[a] \in Job
  BY DEF ShapeInv, TypeOK
<1>2. Go(a, [job[a] EXCEPT !.at = "added", !.mine = @ \cup {d}])
  BY DEF Add
<1>3. /\ job'[a].at = "added" /\ job'[a].mine = job[a].mine \cup {d}
      /\ \A b \in Actor \ {a} : job'[b] = job[b]
  BY <1>1, <1>2 DEF Go, TypeOK, Job
<1>4. source'[d] # NoSource /\ \A e \in Doc : source[e] # NoSource => source'[e] # NoSource
  <2>1. Head(job[a].todo) \in Source
    BY <1>1 DEF Add, At, ShapeInv, FlowOK, Job
  <2> QED  BY <1>1, <2>1, KnowledgeAssumption DEF Add, TypeOK
<1>5. d \notin answered \cup rolledBack \cup retired
      /\ \A b \in Actor : d \notin job[b].mine
  BY DEF DocsInv, Add
<1>6. \A b \in Actor : job[b].mine \subseteq Doc
  BY <1>1 DEF TypeOK, Job
<1>7. \A e \in answered' \cup rolledBack' \cup retired' : source'[e] # NoSource
  BY <1>1, <1>4 DEF DocsInv, Add, books, TypeOK
<1>8. \A b \in Actor : \A e \in job'[b].mine : source'[e] # NoSource /\ e \notin answered'
  BY <1>3, <1>4, <1>5, <1>6 DEF DocsInv, Add, books
<1>9. \A b, c \in Actor : b # c => job'[b].mine \cap job'[c].mine = {}
  BY <1>3, <1>5 DEF DocsInv
<1>10. \A b \in Actor : DocsOfJob(job[b])'
  <2>1. DocsOfJob(job[a])'
    BY <1>3 DEF DocsInv, DocsOfJob, Add, At, books
  <2>2. ASSUME NEW b \in Actor \ {a}  PROVE DocsOfJob(job[b])'
    BY <1>3, <1>5 DEF DocsInv, DocsOfJob, Add, books
  <2> QED  BY <2>1, <2>2
<1>11. AnsweredIsKept' /\ RollbackIsComplete'
  BY <1>5 DEF DocsInv, AnsweredIsKept, RollbackIsComplete, Add, books
<1> QED  BY <1>7, <1>8, <1>9, <1>10, <1>11 DEF DocsInv, DocsOfJob

\* A deletion takes replaced documents, a rollback the batch's own.
LEMMA DocsTaken ==
  ASSUME DocsInv, NEW a \in Actor, NEW gone,
         \A b \in Actor \ {a} : job'[b] = job[b],
         job'[a].mine = job[a].mine,
         store' = store \ gone,
         \/ gone \subseteq retired /\ job'[a].at = "deleted" /\ job[a].at = "delete"
         \/ /\ gone \subseteq job[a].doomed /\ job[a].at = "undo"
            /\ job'[a].at = "undone" /\ job'[a].doomed = job[a].doomed \ gone,
         UNCHANGED <<source, books>>
  PROVE  DocsInv'
<1>1. \A e \in answered' \cup rolledBack' \cup retired' : source'[e] # NoSource
  BY DEF DocsInv, books
<1>2. \A b \in Actor : \A e \in job'[b].mine : source'[e] # NoSource /\ e \notin answered'
  BY DEF DocsInv, books
<1>3. \A b, c \in Actor : b # c => job'[b].mine \cap job'[c].mine = {}
  BY DEF DocsInv
<1>4. CASE gone \subseteq retired /\ job'[a].at = "deleted" /\ job[a].at = "delete"
  <2>1. \A b \in Actor : DocsOfJob(job[b])'
    BY <1>4 DEF DocsInv, DocsOfJob, books
  <2>2. AnsweredIsKept' /\ RollbackIsComplete'
    BY <1>4 DEF DocsInv, AnsweredIsKept, RollbackIsComplete, books
  <2> QED  BY <1>1, <1>2, <1>3, <2>1, <2>2 DEF DocsInv, DocsOfJob
<1>5. CASE /\ gone \subseteq job[a].doomed /\ job[a].at = "undo"
           /\ job'[a].at = "undone" /\ job'[a].doomed = job[a].doomed \ gone
  <2>1. gone \subseteq job[a].mine
    BY <1>5 DEF DocsInv
  <2>2. DocsOfJob(job[a])'
    BY <1>5, <2>1 DEF DocsInv, DocsOfJob, books
  <2>3. ASSUME NEW b \in Actor \ {a}  PROVE DocsOfJob(job[b])'
    <3>1. job[b].mine \cap gone = {}
      BY <2>1 DEF DocsInv
    <3> QED  BY <3>1 DEF DocsInv, DocsOfJob, books
  <2>4. AnsweredIsKept' /\ RollbackIsComplete'
    BY <2>1 DEF DocsInv, AnsweredIsKept, RollbackIsComplete, books
  <2> QED  BY <1>1, <1>2, <1>3, <2>2, <2>3, <2>4 DEF DocsInv, DocsOfJob
<1> QED  BY <1>4, <1>5

\* A step of a job keeps what DocsInv says.
LEMMA DocsJobStep ==
  ASSUME ShapeInv, DocsInv, NEW a \in Actor, JobStep(a)
  PROVE  DocsInv'
<1> USE DEF At
<1>0. TypeOK /\ job[a] \in Job
  BY DEF ShapeInv, TypeOK
<1>1. ASSUME NEW d \in Doc, Undo(a, d)  PROVE DocsInv'
  <2>1. /\ job'[a].at = "undone" /\ job'[a].mine = job[a].mine
        /\ job'[a].doomed = job[a].doomed \ {d}
        /\ \A b \in Actor \ {a} : job'[b] = job[b]
    BY <1>0, <1>1 DEF Undo, Go, TypeOK, Job
  <2>2. store' = store \ {d} /\ {d} \subseteq job[a].doomed /\ job[a].at = "undo"
    BY <1>1 DEF Undo, UndoneWith
  <2> QED  BY <1>1, <2>1, <2>2, DocsTaken DEF Undo
<1>2. ASSUME NEW d \in Doc, UndoFails(a, d)  PROVE DocsInv'
  <2>1. job[a].doomed \ {d} \subseteq job[a].doomed
        /\ job[a].doomed \ (job[a].doomed \ {d}) \subseteq stuck'
    BY <1>2 DEF UndoFails
  <2> QED  BY <1>2, <2>1, DocsUndoNext DEF UndoFails
<1>3. CASE AddFails(a)
  <2>1. CASE job[a].mine = {}
    BY <1>3, <2>1, DocsReturn DEF AddFails
  <2>2. CASE job[a].mine # {}
    <3>1. Go(a, [job[a] EXCEPT !.at = "undo", !.doomed = job[a].mine])
      BY <1>3, <2>2 DEF AddFails
    <3>2. /\ job'[a].at = "undo" /\ job'[a].mine = job[a].mine
          /\ job'[a].doomed = job[a].mine
          /\ \A b \in Actor \ {a} : job'[b] = job[b]
      BY <1>0, <3>1 DEF Go, TypeOK, Job
    <3>3. AnsweredIsKept' /\ RollbackIsComplete' /\ DocsOfJob(job[a])'
      BY <1>3, <3>2
         DEF AddFails, books, DocsInv, AnsweredIsKept, RollbackIsComplete, DocsOfJob
    <3> QED  BY <1>3, <3>2, <3>3, DocsMove DEF AddFails, books, DocsInv
  <2> QED  BY <2>1, <2>2
<1>4. CASE AddedFirst(a)
  <2>1. /\ job'[a].at \in {"get", "add"} /\ job'[a].mine = job[a].mine
        /\ \A b \in Actor \ {a} : job'[b] = job[b]
    <3>1. CASE job[a].kind = "update"
      <4>1. Go(a, [job[a] EXCEPT !.at = "get"])
        BY <1>4, <3>1 DEF AddedFirst
      <4> QED  BY <1>0, <4>1 DEF Go, TypeOK, Job
    <3>2. CASE job[a].kind # "update"
      <4>1. Go(a, [job[a] EXCEPT !.at = "add", !.todo = Tail(@)])
        BY <1>4, <3>2 DEF AddedFirst
      <4> QED  BY <1>0, <4>1 DEF Go, TypeOK, Job
    <3> QED  BY <3>1, <3>2
  <2>2. AnsweredIsKept' /\ RollbackIsComplete' /\ DocsOfJob(job[a])'
    BY <1>4, <2>1
       DEF AddedFirst, books, DocsInv, AnsweredIsKept, RollbackIsComplete, DocsOfJob
  <2> QED  BY <1>4, <2>1, <2>2, DocsMove DEF AddedFirst, books, DocsInv
<1>5. CASE AddedLast(a)
  BY <1>5, DocsSucceed DEF AddedLast, DocsInv
<1>6. CASE Get(a)
  <2>1. retired \subseteq retired' /\ \A d \in retired' : source[d] # NoSource
    BY <1>0, <1>6, KnowledgeAssumption DEF Get, OfSource, DocsInv, TypeOK
  <2>2. CASE Old(a) = {}
    BY <1>6, <2>1, <2>2, DocsSucceed DEF Get
  <2>3. CASE Old(a) # {}
    <3>1. Go(a, [job[a] EXCEPT !.at = "delete", !.doomed = Old(a)])
      BY <1>6, <2>3 DEF Get
    <3>2. /\ job'[a].at = "delete" /\ job'[a].mine = job[a].mine
          /\ job'[a].doomed = Old(a)
          /\ \A b \in Actor \ {a} : job'[b] = job[b]
      BY <1>0, <3>1 DEF Go, TypeOK, Job
    <3>3. Old(a) \subseteq retired'
      BY <1>6 DEF Get, Old
    <3>4. UNCHANGED <<store, source, answered, rolledBack, stuck>>
      BY <1>6, <2>3 DEF Get
    <3>5. AnsweredIsKept' /\ RollbackIsComplete' /\ DocsOfJob(job[a])'
      BY <1>6, <2>1, <3>2, <3>3, <3>4
         DEF Get, DocsInv, AnsweredIsKept, RollbackIsComplete, DocsOfJob
    <3> QED  BY <2>1, <3>2, <3>4, <3>5, DocsMove
  <2> QED  BY <2>2, <2>3
<1>7. CASE Delete(a)
  <2>1. /\ job'[a].at = "deleted" /\ job'[a].mine = job[a].mine
        /\ \A b \in Actor \ {a} : job'[b] = job[b]
    BY <1>0, <1>7 DEF Delete, Go, TypeOK, Job
  <2>2. job[a].doomed \subseteq retired /\ job[a].at = "delete"
    BY <1>7 DEF Delete, DocsInv
  <2> QED  BY <1>7, <2>1, <2>2, DocsTaken DEF Delete
<1>8. CASE RemovalFails(a)
  BY <1>8, DocsSucceed DEF RemovalFails, DocsInv
<1>9. CASE Deleted(a)
  BY <1>9, DocsSucceed DEF Deleted, DocsInv
<1>10. CASE Undone(a)
  BY <1>10, DocsUndoNext DEF Undone
<1>11. CASE Find(a)
  <2>1. /\ job'[a].at = "fill" /\ job'[a].mine = job[a].mine
        /\ \A b \in Actor \ {a} : job'[b] = job[b]
    BY <1>0, <1>11 DEF Find, Go, TypeOK, Job
  <2>2. AnsweredIsKept' /\ RollbackIsComplete' /\ DocsOfJob(job[a])'
    BY <1>11, <2>1
       DEF Find, books, DocsInv, AnsweredIsKept, RollbackIsComplete, DocsOfJob
  <2> QED  BY <1>11, <2>1, <2>2, DocsMove DEF Find, books, DocsInv
<1>12. CASE FindFails(a) \/ Fill(a)
  BY <1>12, DocsReturn DEF FindFails, Fill
<1> QED
  BY <1>1, <1>2, <1>3, <1>4, <1>5, <1>6, <1>7, <1>8, <1>9, <1>10, <1>11,
     <1>12, DocsAdd DEF JobStep

\* A call starts a job that has added and removes nothing.
LEMMA DocsCall ==
  ASSUME ShapeInv, DocsInv, NEW a \in Actor, NEW j, Call(a, j),
         j.mine = {}, j.at \in {"add", "get", "find"}
  PROVE  DocsInv'
<1>1. TypeOK
  BY DEF ShapeInv
<1>2. job'[a] = j /\ \A b \in Actor \ {a} : job'[b] = job[b]
  BY <1>1, Going DEF Call
<1>3. AnsweredIsKept' /\ RollbackIsComplete' /\ DocsOfJob(job[a])'
  BY <1>2 DEF Call, books, DocsInv, AnsweredIsKept, RollbackIsComplete, DocsOfJob
<1> QED  BY <1>2, <1>3, DocsMove DEF Call, books, DocsInv

\* Every step keeps what DocsInv says.
LEMMA DocsStep ==
  ASSUME ShapeInv, DocsInv, [Next]_vars
  PROVE  DocsInv'
<1>0. Loop \in Actor
  BY DEF Actor
<1>1. ASSUME NEW k \in Key, Expire(k)  PROVE DocsInv'
  BY <1>1 DEF Expire, books, DocsInv, AnsweredIsKept, RollbackIsComplete
<1>2. CASE Restart
  <2>1. \A a \in Actor : job'[a] = Idle
    BY <1>2 DEF Restart
  <2> QED  BY <1>2, <2>1, IdleFields
           DEF Restart, books, DocsInv, AnsweredIsKept, RollbackIsComplete
<1>3. CASE UNCHANGED vars
  BY <1>3 DEF vars, books, DocsInv, AnsweredIsKept, RollbackIsComplete
<1>4. ASSUME NEW a \in Actor, NEW s \in Source, Upload(a, s)  PROVE DocsInv'
  BY <1>4, DocsCall DEF Upload, NewJob
<1>5. ASSUME NEW a \in Actor, NEW q \in Query, Search(a, q)  PROVE DocsInv'
  BY <1>5, DocsCall DEF Search, NewJob
<1>6. ASSUME NEW n \in 1..MaxBatch, BatchUpload(n)  PROVE DocsInv'
  BY <1>0, <1>6, DocsCall DEF BatchUpload, NewJob
<1>7. ASSUME NEW s \in Source, Update(s) \/ DeleteSource(s)  PROVE DocsInv'
  BY <1>0, <1>7, DocsCall DEF Update, DeleteSource, NewJob
<1> QED
  BY <1>1, <1>2, <1>3, <1>4, <1>5, <1>6, <1>7, DocsJobStep DEF Next
-----------------------------------------------------------------------------
(* Sources.                                                                *)

\* What SourceInv says of one job.
UpdateOK(j) ==
  /\ j.kind \in {"batch", "update", "delete"} => j.mine \cap retired = {}
  /\ j.kind = "update" => \A d \in j.mine : source[d] = Head(j.todo)
  /\ j.kind = "update" /\ j.at \in {"added", "get"} => j.mine # {}

\* A stable document stays stable if the job that steps does not turn on it.
LEMMA StaysStable ==
  ASSUME NEW a \in Actor, NEW e, Stable(e), e \in store',
         \A b \in Actor \ {a} : job'[b] = job[b],
         job'[a].at = "delete" => e \notin job'[a].doomed,
         job'[a].kind = "batch" => e \notin job'[a].mine
  PROVE  Stable(e)'
  BY DEF Stable

\* A document that is neither replaced nor a job's is stable.
LEMMA BecomesStable ==
  ASSUME DocsInv, NEW e, e \in store, e \notin retired,
         \A b \in Actor : job[b].kind = "batch" => e \notin job[b].mine
  PROVE  Stable(e)
  BY DEF Stable, DocsInv

\* A step of one job that promises and replaces nothing.
LEMMA SourceQuiet ==
  ASSUME SourceInv, NEW a \in Actor,
         \A b \in Actor \ {a} : job'[b] = job[b],
         UNCHANGED <<source, answered, retired>>, erased \subseteq erased',
         \A e \in store : Stable(e) => e \in store',
         job'[a].at # "delete",
         \/ job'[a].kind = "none"
         \/ /\ job'[a].kind = job[a].kind /\ job'[a].mine = job[a].mine
            /\ job[a].kind = "update" =>
                 /\ job'[a].todo = job[a].todo
                 /\ job'[a].at \in {"added", "get"} => job[a].at \in {"added", "get"}
  PROVE  SourceInv'
<1>1. \A b \in Actor : UpdateOK(job[b])'
  BY DEF SourceInv, UpdateOK
<1>2. ASSUME NEW d \in answered \cup retired, source[d] \notin erased
      PROVE  \E e \in store' : Stable(e)' /\ source[e] = source[d]
  <2>1. PICK e \in store : Stable(e) /\ source[e] = source[d]
    BY <1>2 DEF SourceInv
  <2>2. e \in store'
    BY <2>1
  <2>3. job'[a].kind = "batch" => e \notin job'[a].mine
    BY <2>1 DEF Stable
  <2>4. Stable(e)'
    BY <2>1, <2>2, <2>3, StaysStable
  <2> QED  BY <2>1, <2>2, <2>4
<1> QED  BY <1>1, <1>2 DEF SourceInv, UpdateOK

\* A job that returns and promises nothing.
LEMMA SourceReturn ==
  ASSUME ShapeInv, SourceInv, NEW a \in Actor, Return(a),
         UNCHANGED <<store, source, answered, retired, erased>>
  PROVE  SourceInv'
<1>1. /\ job'[a].at = "idle" /\ job'[a].kind = "none"
      /\ \A b \in Actor \ {a} : job'[b] = job[b]
  BY Returning DEF ShapeInv
<1> QED  BY <1>1, SourceQuiet

\* A job that returns with success: what it promises is replaced or stable.
LEMMA SourceSucceed ==
  ASSUME ShapeInv, DocsInv, SourceInv, NEW a \in Actor, Succeed(a),
         job[a].at \notin {"undo", "undone"},
         UNCHANGED <<store, source, retired>>, erased \subseteq erased'
  PROVE  SourceInv'
<1>1. /\ job'[a].at = "idle" /\ job'[a].kind = "none"
      /\ job'[a].mine = {} /\ job'[a].doomed = {}
      /\ \A b \in Actor \ {a} : job'[b] = job[b]
  BY Returning DEF ShapeInv, Succeed
<1>2. \A b \in Actor : UpdateOK(job[b])'
  BY <1>1 DEF SourceInv, UpdateOK
<1>3. ASSUME NEW e \in store, Stable(e)  PROVE Stable(e)'
  BY <1>1, <1>3, StaysStable
<1>4. ASSUME NEW d \in answered \cup retired, source[d] \notin erased
      PROVE  \E e \in store' : Stable(e)' /\ source[e] = source[d]
  BY <1>3, <1>4 DEF SourceInv
<1>5. ASSUME NEW d \in job[a].mine \ retired
      PROVE  \E e \in store' : Stable(e)' /\ source[e] = source[d]
  <2>1. d \in store
    BY <1>5 DEF DocsInv
  <2>2. \A b \in Actor \ {a} : d \notin job[b].mine
    BY <1>5 DEF DocsInv
  <2>3. \A b \in Actor \ {a} : job[b].at = "delete" => d \notin job[b].doomed
    BY <1>5 DEF DocsInv
  <2>4. Stable(d)'
    BY <1>1, <2>1, <2>2, <2>3 DEF Stable
  <2> QED  BY <2>1, <2>4
<1>6. answered' = answered \cup job[a].mine
  BY DEF Succeed
<1>7. \A d \in answered' \cup retired' : source'[d] \notin erased' =>
        \E e \in store' : Stable(e)' /\ source'[e] = source'[d]
  BY <1>4, <1>5, <1>6
<1> QED  BY <1>2, <1>7 DEF SourceInv, UpdateOK

\* A new document is not replaced, and an update's is of its source.
LEMMA SourceAdd ==
  ASSUME ShapeInv, DocsInv, SourceInv, NEW a \in Actor, NEW d \in Doc, Add(a, d)
  PROVE  SourceInv'
<1>1. TypeOK /\ job[a] \in Job
  BY DEF ShapeInv, TypeOK
<1>2. Go(a, [job[a] EXCEPT !.at = "added", !.mine = @ \cup {d}])
  BY DEF Add
<1>3. /\ job'[a].at = "added" /\ job'[a].mine = job[a].mine \cup {d}
      /\ job'[a].kind = job[a].kind /\ job'[a].todo = job[a].todo
      /\ \A b \in Actor \ {a} : job'[b] = job[b]
  BY <1>1, <1>2 DEF Go, TypeOK, Job
<1>4. /\ source' = [source EXCEPT ![d] = Head(job[a].todo)]
      /\ source[d] = NoSource /\ store' = store \cup {d}
      /\ UNCHANGED <<answered, retired, erased>>
  BY DEF Add, books
<1>5. d \notin answered \cup retired /\ \A b \in Actor : d \notin job[b].mine
  BY <1>4 DEF DocsInv
<1>6. \A e \in Doc \ {d} : source'[e] = source[e]
  BY <1>1, <1>4 DEF TypeOK
<1>7. source'[d] = Head(job[a].todo)
  BY <1>1, <1>4 DEF TypeOK
<1>8. \A b \in Actor : job[b].mine \subseteq Doc
  BY <1>1 DEF TypeOK, Job
<1>9. ASSUME NEW b \in Actor \ {a}  PROVE UpdateOK(job[b])'
  BY <1>3, <1>4, <1>5, <1>6, <1>8 DEF SourceInv, UpdateOK
<1>10. UpdateOK(job[a])'
  <2>1. job[a].kind = "update" => job[a].mine = {}
    BY DEF Add, At, ShapeInv, FlowOK
  <2> QED  BY <1>3, <1>4, <1>5, <1>7, <2>1 DEF SourceInv, UpdateOK
<1>11. ASSUME NEW f \in answered \cup retired, source[f] \notin erased
       PROVE  \E e \in store' : Stable(e)' /\ source'[e] = source'[f]
  <2>1. PICK e \in store : Stable(e) /\ source[e] = source[f]
    BY <1>11 DEF SourceInv
  <2>2. e \in Doc \ {d} /\ f \in Doc \ {d}
    BY <1>1, <1>4, <1>5, KnowledgeAssumption DEF TypeOK
  <2>3. Stable(e)'
    BY <1>3, <1>4, <2>1, <2>2, StaysStable DEF Stable
  <2> QED  BY <1>4, <1>6, <2>1, <2>2, <2>3
<1>12. \A f \in answered' \cup retired' : source'[f] \notin erased' =>
         \E e \in store' : Stable(e)' /\ source'[e] = source'[f]
  <2>1. answered \cup retired \subseteq Doc /\ d \notin answered \cup retired
    BY <1>1, <1>5 DEF TypeOK
  <2>2. \A f \in answered \cup retired : source'[f] = source[f]
    BY <1>6, <2>1
  <2> QED  BY <1>4, <1>11, <2>2
<1> QED  BY <1>9, <1>10, <1>12 DEF SourceInv, UpdateOK

\* The documents an update is about to delete have its own for a successor, and
\* those a delete is about to delete need none.
LEMMA SourceGet ==
  ASSUME ShapeInv, DocsInv, SourceInv, NEW a \in Actor, Get(a)
  PROVE  SourceInv'
<1> DEFINE s == Head(job[a].todo)
<1>1. TypeOK /\ job[a] \in Job
  BY DEF ShapeInv, TypeOK
<1>2. /\ job[a].at = "get" /\ job[a].kind \in {"update", "delete"} /\ a = Loop
  BY DEF Get, At, ShapeInv, FlowOK
<1>3. /\ retired' = retired \cup Old(a)
      /\ erased' = IF job[a].kind = "delete" THEN erased \cup {s} ELSE erased
      /\ UNCHANGED <<store, source>>
  BY DEF Get, Old
<1>4. CASE Old(a) = {}
  BY <1>2, <1>3, <1>4, SourceSucceed DEF Get
<1>5. CASE Old(a) # {}
  <2>1. Go(a, [job[a] EXCEPT !.at = "delete", !.doomed = Old(a)])
        /\ UNCHANGED answered
    BY <1>5 DEF Get
  <2>2. /\ job'[a].at = "delete" /\ job'[a].mine = job[a].mine
        /\ job'[a].kind = job[a].kind /\ job'[a].todo = job[a].todo
        /\ job'[a].doomed = Old(a)
        /\ \A b \in Actor \ {a} : job'[b] = job[b]
    BY <1>1, <2>1 DEF Go, TypeOK, Job
  <2>3. \A b \in Actor : UpdateOK(job[b])'
    <3>1. UpdateOK(job[a])'
      BY <1>3, <2>2 DEF SourceInv, UpdateOK, Old
    <3>2. ASSUME NEW b \in Actor \ {a}  PROVE UpdateOK(job[b])'
      <4>1. job[b].kind \notin {"batch", "update", "delete"}
        BY <1>2, <3>2 DEF ShapeInv, FlowOK
      <4> QED  BY <2>2, <4>1 DEF UpdateOK
    <3> QED  BY <3>1, <3>2
  <2>4. Old(a) = {e \in store : source[e] = s /\ e \notin job[a].mine}
    BY DEF Old, OfSource
  <2>5. ASSUME job[a].kind = "update"
        PROVE  \E e \in store' : Stable(e)' /\ source[e] = s
    <3>1. PICK e \in job[a].mine : TRUE
      BY <1>2, <2>5 DEF SourceInv
    <3>2. source[e] = s /\ e \notin retired
      BY <2>5 DEF SourceInv
    <3>3. e \in store
      BY <1>2, <3>2 DEF DocsInv
    <3>4. \A b \in Actor : job[b].kind = "batch" => e \notin job[b].mine
      BY <2>5 DEF DocsInv
    <3>5. Stable(e)
      BY <3>2, <3>3, <3>4, BecomesStable
    <3>6. Stable(e)'
      BY <1>3, <2>2, <2>4, <2>5, <3>3, <3>5, StaysStable
    <3> QED  BY <1>3, <3>2, <3>3, <3>6
  <2>6. ASSUME NEW d \in answered \cup retired, source[d] \notin erased, source[d] # s
        PROVE  \E e \in store' : Stable(e)' /\ source[e] = source[d]
    <3>1. PICK e \in store : Stable(e) /\ source[e] = source[d]
      BY <2>6 DEF SourceInv
    <3>2. e \notin Old(a)
      BY <2>4, <2>6, <3>1
    <3>3. Stable(e)'
      BY <1>2, <1>3, <2>2, <3>1, <3>2, StaysStable
    <3> QED  BY <1>3, <3>1, <3>3
  <2>7. \A d \in answered' \cup retired' : source'[d] \notin erased' =>
          \E e \in store' : Stable(e)' /\ source'[e] = source'[d]
    <3>1. CASE job[a].kind = "delete"
      BY <1>3, <2>1, <2>4, <2>6, <3>1
    <3>2. CASE job[a].kind = "update"
      <4>1. erased' = erased
        BY <1>3, <3>2
      <4>2. ASSUME NEW d \in answered' \cup retired', source[d] \notin erased
            PROVE  \E e \in store' : Stable(e)' /\ source[e] = source[d]
        <5>1. CASE source[d] = s
          BY <2>5, <3>2, <5>1
        <5>2. CASE source[d] # s
          BY <1>3, <2>1, <2>4, <2>6, <4>2, <5>2
        <5> QED  BY <5>1, <5>2
      <4> QED  BY <1>3, <4>1, <4>2
    <3> QED  BY <1>2, <3>1, <3>2
  <2> QED  BY <2>3, <2>7 DEF SourceInv, UpdateOK
<1> QED  BY <1>4, <1>5

\* A step of a job keeps the successors.
LEMMA SourceJobStep ==
  ASSUME ShapeInv, DocsInv, SourceInv, NEW a \in Actor, JobStep(a)
  PROVE  SourceInv'
<1> USE DEF At
<1>0. TypeOK /\ job[a] \in Job
  BY DEF ShapeInv, TypeOK
<1>1. ASSUME NEW d \in Doc, Undo(a, d)  PROVE SourceInv'
  <2>1. /\ job'[a].at = "undone" /\ job'[a].mine = job[a].mine
        /\ job'[a].kind = job[a].kind /\ job[a].kind = "batch"
        /\ \A b \in Actor \ {a} : job'[b] = job[b]
    BY <1>0, <1>1 DEF Undo, Go, TypeOK, Job, ShapeInv, FlowOK
  <2>2. store' = store \ {d} /\ d \in job[a].mine
    BY <1>1 DEF Undo, UndoneWith, DocsInv
  <2>3. \A e \in store : Stable(e) => e \in store'
    BY <2>1, <2>2 DEF Stable
  <2> QED  BY <1>1, <2>1, <2>3, SourceQuiet DEF Undo, books
<1>2. ASSUME NEW rest, UndoNext(a, rest), job[a].at \in {"undo", "undone"},
             UNCHANGED <<store, source, answered, retired, erased>>
      PROVE  SourceInv'
  <2>1. CASE rest # {}
    <3>1. Go(a, [job[a] EXCEPT !.at = "undo", !.doomed = rest])
      BY <1>2, <2>1 DEF UndoNext
    <3>2. /\ job'[a].at = "undo" /\ job'[a].mine = job[a].mine
          /\ job'[a].kind = job[a].kind /\ job'[a].todo = job[a].todo
          /\ \A b \in Actor \ {a} : job'[b] = job[b]
      BY <1>0, <3>1 DEF Go, TypeOK, Job
    <3> QED  BY <1>2, <3>2, SourceQuiet
  <2>2. CASE rest = {}
    BY <1>2, <2>2, SourceReturn DEF UndoNext, AnswerRolledBack
  <2> QED  BY <2>1, <2>2
<1>3. ASSUME NEW d \in Doc, UndoFails(a, d)  PROVE SourceInv'
  BY <1>2, <1>3 DEF UndoFails
<1>4. CASE Undone(a)
  BY <1>2, <1>4 DEF Undone
<1>5. CASE AddFails(a)
  <2>1. CASE job[a].mine = {}
    BY <1>5, <2>1, SourceReturn DEF AddFails, books
  <2>2. CASE job[a].mine # {}
    <3>1. Go(a, [job[a] EXCEPT !.at = "undo", !.doomed = job[a].mine])
      BY <1>5, <2>2 DEF AddFails
    <3>2. /\ job'[a].at = "undo" /\ job'[a].mine = job[a].mine
          /\ job'[a].kind = job[a].kind /\ job'[a].todo = job[a].todo
          /\ \A b \in Actor \ {a} : job'[b] = job[b]
      BY <1>0, <3>1 DEF Go, TypeOK, Job
    <3> QED  BY <1>5, <3>2, SourceQuiet DEF AddFails, books
  <2> QED  BY <2>1, <2>2
<1>6. CASE AddedFirst(a)
  <2>1. CASE job[a].kind = "update"
    <3>1. Go(a, [job[a] EXCEPT !.at = "get"])
      BY <1>6, <2>1 DEF AddedFirst
    <3>2. /\ job'[a].at = "get" /\ job'[a].mine = job[a].mine
          /\ job'[a].kind = job[a].kind /\ job'[a].todo = job[a].todo
          /\ \A b \in Actor \ {a} : job'[b] = job[b]
      BY <1>0, <3>1 DEF Go, TypeOK, Job
    <3> QED  BY <1>6, <3>2, SourceQuiet DEF AddedFirst, books
  <2>2. CASE job[a].kind # "update"
    <3>1. Go(a, [job[a] EXCEPT !.at = "add", !.todo = Tail(@)])
      BY <1>6, <2>2 DEF AddedFirst
    <3>2. /\ job'[a].at = "add" /\ job'[a].mine = job[a].mine
          /\ job'[a].kind = job[a].kind
          /\ \A b \in Actor \ {a} : job'[b] = job[b]
      BY <1>0, <3>1 DEF Go, TypeOK, Job
    <3> QED  BY <1>6, <2>2, <3>2, SourceQuiet DEF AddedFirst, books
  <2> QED  BY <2>1, <2>2
<1>7. CASE AddedLast(a)
  BY <1>7, SourceSucceed DEF AddedLast
<1>8. CASE Delete(a)
  <2>1. /\ job'[a].at = "deleted" /\ job'[a].mine = job[a].mine
        /\ job'[a].kind = job[a].kind /\ job'[a].todo = job[a].todo
        /\ \A b \in Actor \ {a} : job'[b] = job[b]
    BY <1>0, <1>8 DEF Delete, Go, TypeOK, Job
  <2>2. \A e \in store : Stable(e) => e \in store'
    BY <1>8 DEF Delete, Stable
  <2> QED  BY <1>8, <2>1, <2>2, SourceQuiet DEF Delete, books
<1>9. CASE RemovalFails(a)
  BY <1>9, SourceSucceed DEF RemovalFails
<1>10. CASE Deleted(a)
  BY <1>10, SourceSucceed DEF Deleted
<1>11. CASE Find(a)
  <2>1. /\ job'[a].at = "fill" /\ job'[a].mine = job[a].mine
        /\ job'[a].kind = job[a].kind /\ job'[a].todo = job[a].todo
        /\ \A b \in Actor \ {a} : job'[b] = job[b]
    BY <1>0, <1>11 DEF Find, Go, TypeOK, Job
  <2> QED  BY <1>11, <2>1, SourceQuiet DEF Find, books
<1>12. CASE FindFails(a) \/ Fill(a)
  BY <1>12, SourceReturn DEF FindFails, Fill, books
<1> QED
  BY <1>1, <1>3, <1>4, <1>5, <1>6, <1>7, <1>8, <1>9, <1>10, <1>11, <1>12,
     SourceAdd, SourceGet DEF JobStep

\* A call starts a job that has added and removes nothing.
LEMMA SourceCall ==
  ASSUME ShapeInv, SourceInv, NEW a \in Actor, NEW j, Call(a, j),
         j.mine = {}, j.at \in {"add", "get", "find"}, j.at = "get" => j.kind = "delete"
  PROVE  SourceInv'
<1>1. job'[a] = j /\ \A b \in Actor \ {a} : job'[b] = job[b]
  BY Going DEF Call, ShapeInv
<1>2. UNCHANGED <<store, source, answered, retired, erased>>
  BY DEF Call, books
<1>3. \A b \in Actor : UpdateOK(job[b])'
  BY <1>1, <1>2 DEF SourceInv, UpdateOK
<1>4. \A e \in store : Stable(e) => Stable(e)'
  BY <1>1, <1>2, StaysStable
<1> QED  BY <1>2, <1>3, <1>4 DEF SourceInv, UpdateOK

\* Every step keeps the successors.
LEMMA SourceStep ==
  ASSUME ShapeInv, DocsInv, SourceInv, [Next]_vars
  PROVE  SourceInv'
<1>0. Loop \in Actor
  BY DEF Actor
<1>1. ASSUME NEW k \in Key, Expire(k)  PROVE SourceInv'
  BY <1>1 DEF Expire, books, SourceInv, Stable
<1>2. CASE Restart
  <2>1. \A a \in Actor : job'[a] = Idle
    BY <1>2 DEF Restart
  <2>2. \A e \in store : Stable(e)'
    BY <1>2, <2>1, IdleFields DEF Restart, Stable
  <2> QED  BY <1>2, <2>1, <2>2, IdleFields DEF Restart, books, SourceInv
<1>3. CASE UNCHANGED vars
  BY <1>3 DEF vars, books, SourceInv, Stable
<1>4. ASSUME NEW a \in Actor, NEW s \in Source, Upload(a, s)  PROVE SourceInv'
  BY <1>4, SourceCall DEF Upload, NewJob
<1>5. ASSUME NEW a \in Actor, NEW q \in Query, Search(a, q)  PROVE SourceInv'
  BY <1>5, SourceCall DEF Search, NewJob
<1>6. ASSUME NEW n \in 1..MaxBatch, BatchUpload(n)  PROVE SourceInv'
  BY <1>0, <1>6, SourceCall DEF BatchUpload, NewJob
<1>7. ASSUME NEW s \in Source, Update(s) \/ DeleteSource(s)  PROVE SourceInv'
  BY <1>0, <1>7, SourceCall DEF Update, DeleteSource, NewJob
<1> QED
  BY <1>1, <1>2, <1>3, <1>4, <1>5, <1>6, <1>7, SourceJobStep DEF Next
-----------------------------------------------------------------------------
(* The theorems.                                                           *)

\* An empty knowledge base has nothing stale, lost or left over.
LEMMA InitInv == Init => IInv
<1> SUFFICES ASSUME Init PROVE IInv
  OBVIOUS
<1>1. ShapeInv
  BY ShapeInit
<1>2. FreshInv
  BY DEF Init, FreshInv, CacheIsFresh, At, Idle, NewJob
<1>3. DocsInv
  BY IdleFields DEF Init, DocsInv, AnsweredIsKept, RollbackIsComplete
<1>4. SourceInv
  BY IdleFields DEF Init, SourceInv
<1> QED  BY <1>1, <1>2, <1>3, <1>4 DEF IInv

\* The inductive invariant holds of every reachable state of the knowledge base.
THEOREM InductiveInvariant == Spec => []IInv
<1>1. IInv /\ [Next]_vars => IInv'
  BY ShapeStep, FreshStep, DocsStep, SourceStep DEF IInv
<1> QED  BY InitInv, <1>1, PTL DEF Spec

\* The collection, the cache and the local variables of the handlers keep their
\* types, and every stored document has a source.
THEOREM TypeCorrect == Spec => []TypeOK
<1>1. IInv => TypeOK
  BY DEF IInv, ShapeInv
<1> QED  BY InductiveInvariant, <1>1, PTL

\* However searches, uploads, updates, removals and rollbacks interleave, the
\* only entries older than the collection are those an overtaken search filled.
THEOREM CacheFresh == Spec => []CacheIsFresh
<1>1. IInv => CacheIsFresh
  BY DEF IInv, FreshInv
<1> QED  BY InductiveInvariant, <1>1, PTL

\* What was answered with success is lost to nothing but a delete or an update of
\* its own source.
THEOREM AnsweredKept == Spec => []AnsweredIsKept
<1>1. IInv => AnsweredIsKept
  BY DEF IInv, DocsInv
<1> QED  BY InductiveInvariant, <1>1, PTL

\* A source stays searchable through every update of it, whichever step fails.
THEOREM SourceStaysThroughUpdates == Spec => []SourceStays
<1>1. IInv => SourceStays
  BY DEF IInv, SourceInv, SourceStays, OfSource
<1> QED  BY InductiveInvariant, <1>1, PTL

\* A rollback leaves nothing behind but what it failed to delete.
THEOREM RollbackComplete == Spec => []RollbackIsComplete
<1>1. IInv => RollbackIsComplete
  BY DEF IInv, DocsInv
<1> QED  BY InductiveInvariant, <1>1, PTL
=============================================================================
