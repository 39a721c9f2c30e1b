------------------------------ MODULE Sessions ------------------------------
(***************************************************************************)
(* The life of a chat session: the chat endpoints of cayz_agent/api.py,    *)
(* the session_activity table SessionManager keeps in SQLite               *)
(* (cayz_agent/session.py), the checkpoints the LangGraph checkpointer     *)
(* writes in the same file while an agent run is under way, and the        *)
(* active_sessions gauge (cayz_agent/monitor.py).                          *)
(*                                                                         *)
(* A chat request passes the ownership gate on the event loop, in one      *)
(* step; its agent run then goes on in a worker thread (/chat,             *)
(* /chat/multi) or in the response generator (/chat/stream,                *)
(* /chat/multi/stream) and writes checkpoints while other requests are     *)
(* admitted and sessions are deleted or expire.  The backend is sqlite:    *)
(* with checkpoint_backend = "memory" nothing of the table exists and      *)
(* every request is let through.                                           *)
(***************************************************************************)
EXTENDS Naturals, FiniteSets

CONSTANTS
  Client,     \* client ids whose key has the scope readonly or write
  Writer,     \* those of Client that have the scope write
  Admin,      \* client ids whose key has the scope admin
  Thread,     \* thread ids a request may name
  Run,        \* chat requests, each made once
  NoRow,      \* the owner of a thread that has no session_activity row
  NullOwner,  \* the NULL owner of a row older than the owner column
  NoClient,   \* the client of a request not made yet
  NoThread,   \* the thread of a request not made yet
  MaxAge,     \* max_age_seconds of cleanup_expired_sessions
  MaxClock    \* bound: the last instant of the model

ASSUME SessionsAssumption ==
  /\ Writer \subseteq Client
  /\ Client \cap Admin = {}
  /\ NoRow \notin Client \cup Admin
  /\ NullOwner \notin Client \cup Admin \cup {NoRow}
  /\ NoClient \notin Client \cup Admin
  /\ NoThread \notin Thread
  /\ MaxAge \in Nat
  /\ MaxClock \in Nat

VARIABLES
  owner,       \* owner[t]: column owner of session_activity, or NoRow
  lastActive,  \* lastActive[t]: column last_active (0 without a row)
  tables,      \* whether the checkpointer has created its tables
  kept,        \* kept[t]: whether table checkpoints has rows of thread t
  saved,       \* saved[t]: the messages of the newest checkpoint of t
  phase,       \* phase[r]: how far chat request r has come
  client,      \* client[r]: who made request r
  thread,      \* thread[r]: the thread request r names
  hist,        \* hist[r]: the messages run r loaded before its own
  active,      \* gauge active_sessions
  clock        \* time.time()

\* History variables: no code reads them, the properties do.
VARIABLES
  gen,         \* gen[t]: how often thread t has been erased
  born,        \* born[r]: gen of r's thread when r was admitted
  raced,       \* runs that loaded or wrote while another run of their thread did
  straddled    \* threads erased while a request admitted on them was unfinished

cols == <<owner, lastActive>>
ckpt == <<tables, kept, saved>>
reqs == <<phase, client, thread, hist>>
ghosts == <<gen, born, raced, straddled>>
vars == <<cols, ckpt, reqs, active, clock, ghosts>>
-----------------------------------------------------------------------------
User == Client \cup Admin
Message == Run \X {"user", "reply"}


\* Between record_session_start and record_session_end.
Counted == {"running", "loaded", "asked", "answered"}

\* Has loaded the history and has not saved its last checkpoint.
Writing == {"loaded", "asked"}

\* Admitted and not finished: a stream's generator may not have started.
Unfinished == {"opened"} \cup Counted
Phase == {"new", "rejected", "ok", "failed"} \cup Unfinished

Admitted == {r \in Run : phase[r] \notin {"new", "rejected"}}
Running == {r \in Run : phase[r] \in Counted}

Init ==
  \E Legacy \in SUBSET Thread :  \* sessions of a database older than owners
    /\ owner = [t \in Thread |-> IF t \in Legacy THEN NullOwner ELSE NoRow]
    /\ lastActive = [t \in Thread |-> 0]
    /\ tables = (Legacy # {})
    /\ kept = [t \in Thread |-> t \in Legacy]
    /\ saved = [t \in Thread |-> {}]
    /\ phase = [r \in Run |-> "new"]
    /\ client = [r \in Run |-> NoClient]
    /\ thread = [r \in Run |-> NoThread]
    /\ hist = [r \in Run |-> {}]
    /\ active = 0
    /\ clock = 0
    /\ gen = [t \in Thread |-> 0]
    /\ born = [r \in Run |-> 0]
    /\ raced = {}
    /\ straddled = {}
-----------------------------------------------------------------------------
(* session_activity: every write holds _write_lock and is one transaction. *)

Mut_TouchOverwritesOwner(t, c) == c

\* The owner of t's row once it has been touched: the first one to be written.
TouchedOwner(t, c) == IF owner[t] = NoRow THEN c ELSE owner[t]

\* touch_and_get_owner: INSERT ... ON CONFLICT DO NOTHING.
Claim(t, c) ==
  /\ owner' = [owner EXCEPT ![t] = TouchedOwner(t, c)]
  /\ lastActive' = [lastActive EXCEPT ![t] = IF owner[t] = NoRow THEN clock ELSE @]

\* touch_session: the upsert refreshes last_active; an SQLite error is swallowed.
Touch(t, c) ==
  \/ /\ owner' = [owner EXCEPT ![t] = TouchedOwner(t, c)]
     /\ lastActive' = [lastActive EXCEPT ![t] = clock]
  \/ UNCHANGED cols
-----------------------------------------------------------------------------
(* The gate of the four chat endpoints.                                    *)

Move(r, from, to) ==
  /\ phase[r] \in from
  /\ phase' = [phase EXCEPT ![r] = to]

\* Past the gate: /chat counts the session at once, a stream's generator later.
Begin(r, c, t) ==
  /\ \/ Move(r, {"new"}, "running") /\ active' = active + 1
     \/ Move(r, {"new"}, "opened") /\ UNCHANGED active
  /\ client' = [client EXCEPT ![r] = c]
  /\ thread' = [thread EXCEPT ![r] = t]
  /\ born' = [born EXCEPT ![r] = gen[t]]
  /\ UNCHANGED <<hist, ckpt, clock, gen, raced, straddled>>

\* An answer of 403 or 503 ends the request; nothing of it stays but the claim.
Reject(r) ==
  /\ Move(r, {"new"}, "rejected")
  /\ UNCHANGED <<client, thread, hist, ckpt, active, clock, ghosts>>

Mut_NoOwnerCheck(r, c, t) ==
  /\ Claim(t, c)
  /\ Begin(r, c, t)

\* scope # "admin", and the owner read back is the caller.
ChatAdmitted(r, c, t) ==
  /\ Claim(t, c)
  /\ TouchedOwner(t, c) = c
  /\ Begin(r, c, t)

\* 403: somebody else's session, or a NULL owner and session_exists answers true.
ChatRefused(r, c, t) ==
  /\ TouchedOwner(t, c) # c
  /\ Reject(r)
  /\ UNCHANGED cols

\* 503: SessionBackendError, before the claim is committed or after it.
ChatUnavailable(r, c, t) ==
  /\ Claim(t, c) \/ UNCHANGED cols
  /\ Reject(r)

\* scope = "admin": no ownership check, and an unrecorded touch does not stop it.
AdminAdmitted(r, c, t) ==
  /\ Touch(t, c)
  /\ Begin(r, c, t)
-----------------------------------------------------------------------------
(* The agent run of an admitted request.                                   *)

\* The response generator of a stream is first asked for a chunk.
StreamStarts(r) ==
  /\ Move(r, {"opened"}, "running")
  /\ active' = active + 1
  /\ UNCHANGED <<cols, ckpt, client, thread, hist, clock, ghosts>>

Mut_AbandonEndsSession(r) ==
  /\ Move(r, {"opened"}, "failed")
  /\ active' = active - 1
  /\ UNCHANGED <<cols, ckpt, client, thread, hist, clock, ghosts>>

\* The client disconnects before that: the generator's body never runs.
StreamAbandoned(r) ==
  /\ Move(r, {"opened"}, "failed")
  /\ UNCHANGED <<cols, ckpt, client, thread, hist, active, clock, ghosts>>

Peers(r) ==
  {q \in Run \ {r} : thread[q] = thread[r] /\ phase[q] \in Writing}

Mut_LoadsFromOwnSaver(r) ==
  /\ Move(r, {"running"}, "loaded")
  /\ tables' = TRUE
  /\ raced' = IF Peers(r) = {} THEN raced ELSE raced \cup Peers(r) \cup {r}
  /\ UNCHANGED <<cols, kept, saved, client, thread, hist, active, clock,
                 gen, born, straddled>>

\* The graph loads the thread's newest checkpoint; the first use of the
\* checkpointer creates its tables.
Load(r) ==
  /\ Move(r, {"running"}, "loaded")
  /\ tables' = TRUE
  /\ hist' = [hist EXCEPT ![r] = saved[thread[r]]]
  /\ raced' = IF Peers(r) = {} THEN raced ELSE raced \cup Peers(r) \cup {r}
  /\ UNCHANGED <<cols, kept, saved, client, thread, active, clock,
                 gen, born, straddled>>

\* A new newest checkpoint: the loaded history and what the run added to it.
Save(r, roles) ==
  /\ kept' = [kept EXCEPT ![thread[r]] = TRUE]
  /\ saved' = [saved EXCEPT ![thread[r]] = hist[r] \cup ({r} \X roles)]
  /\ UNCHANGED <<cols, tables, client, thread, hist, active, clock, ghosts>>

\* The checkpoints up to the one that holds the user's message.
Ask(r) == Move(r, {"loaded"}, "asked") /\ Save(r, {"user"})

\* The checkpoint of the last agent node.
Answer(r) == Move(r, {"asked"}, "answered") /\ Save(r, {"user", "reply"})

\* 200, and the finally block.
Finish(r) ==
  /\ Move(r, {"answered"}, "ok")
  /\ active' = active - 1
  /\ hist' = [hist EXCEPT ![r] = {}]
  /\ UNCHANGED <<cols, ckpt, client, thread, clock, ghosts>>

Mut_FailSkipsSessionEnd(r) ==
  /\ Move(r, Counted, "failed")
  /\ hist' = [hist EXCEPT ![r] = {}]
  /\ UNCHANGED <<cols, ckpt, client, thread, active, clock, ghosts>>

\* An exception of the run, or a stream the client leaves: the finally block.
Fail(r) ==
  /\ Move(r, Counted, "failed")
  /\ active' = active - 1
  /\ hist' = [hist EXCEPT ![r] = {}]
  /\ UNCHANGED <<cols, ckpt, client, thread, clock, ghosts>>
-----------------------------------------------------------------------------
(* Deleting and expiring sessions.                                         *)

Straddled(S) ==
  straddled \cup {t \in S : \E r \in Run : thread[r] = t /\ phase[r] \in Unfinished}

Mut_EraseLeavesCheckpoints(S) ==
  /\ owner' = [t \in Thread |-> IF t \in S THEN NoRow ELSE owner[t]]
  /\ lastActive' = [t \in Thread |-> IF t \in S THEN 0 ELSE lastActive[t]]
  /\ gen' = [t \in Thread |-> IF t \in S THEN gen[t] + 1 ELSE gen[t]]
  /\ straddled' = Straddled(S)
  /\ UNCHANGED <<kept, saved>>

\* One transaction deletes the checkpoints, the writes and the rows of S.
Erase(S) ==
  /\ owner' = [t \in Thread |-> IF t \in S THEN NoRow ELSE owner[t]]
  /\ lastActive' = [t \in Thread |-> IF t \in S THEN 0 ELSE lastActive[t]]
  /\ kept' = [t \in Thread |-> t \notin S /\ kept[t]]
  /\ saved' = [t \in Thread |-> IF t \in S THEN {} ELSE saved[t]]
  /\ gen' = [t \in Thread |-> IF t \in S THEN gen[t] + 1 ELSE gen[t]]
  /\ straddled' = Straddled(S)

MayDelete(c, t) == c \in Admin \/ owner[t] = c

\* DELETE /sessions/{id} of a session that is there.  One that is not, or is not
\* the caller's, and an SQLite error (always one while the tables are missing)
\* change nothing.
DeleteSession(c, t) ==
  /\ MayDelete(c, t)
  /\ tables
  /\ owner[t] # NoRow \/ kept[t]
  /\ Erase({t})
  /\ UNCHANGED <<tables, reqs, active, clock, born, raced>>

Expired == {t \in Thread : owner[t] # NoRow /\ lastActive[t] + MaxAge < clock}

\* cleanup_expired_sessions; nothing in src/ calls it, an operator's job does.
Cleanup ==
  /\ tables
  /\ Expired # {}
  /\ Erase(Expired)
  /\ UNCHANGED <<tables, reqs, active, clock, born, raced>>
-----------------------------------------------------------------------------
\* The process dies and is started again: the database stays, runs and metrics
\* do not.
Restart ==
  /\ phase' = [r \in Run |-> IF phase[r] \in Unfinished THEN "failed" ELSE phase[r]]
  /\ hist' = [r \in Run |-> {}]
  /\ active' = 0
  /\ UNCHANGED <<cols, ckpt, client, thread, clock, ghosts>>

Tick ==
  /\ clock < MaxClock
  /\ clock' = clock + 1
  /\ UNCHANGED <<cols, ckpt, reqs, active, ghosts>>

\* The steps an admitted run takes by itself.
RunStep(r) ==
  \/ StreamStarts(r) \/ StreamAbandoned(r)
  \/ Load(r) \/ Ask(r) \/ Answer(r) \/ Finish(r) \/ Fail(r)

Next ==
  \/ \E r \in Run, t \in Thread :
       \/ \E c \in Client :
            ChatAdmitted(r, c, t) \/ ChatRefused(r, c, t) \/ ChatUnavailable(r, c, t)
       \/ \E c \in Admin : AdminAdmitted(r, c, t)
  \/ \E r \in Run : RunStep(r)
  \/ \E t \in Thread, c \in Writer \cup Admin :
       DeleteSession(c, t)
  \/ Cleanup
  \/ Restart
  \/ Tick

Spec == Init /\ [][Next]_vars

(* An admitted run goes on until its finally block: every call of a        *)
(* language model has a request timeout, and the event loop and the worker *)
(* threads are scheduled.  No request, deletion, cleanup or restart has to *)
(* happen.                                                                 *)
FairSpec == Spec /\ \A r \in Run : WF_vars(RunStep(r))
-----------------------------------------------------------------------------
(* Properties.                                                             *)

\* Every variable keeps the kind of value the code gives it.
TypeOK ==
  /\ owner \in [Thread -> User \cup {NoRow, NullOwner}]
  /\ lastActive \in [Thread -> Nat]
  /\ tables \in BOOLEAN
  /\ kept \in [Thread -> BOOLEAN]
  /\ saved \in [Thread -> SUBSET Message]
  /\ phase \in [Run -> Phase]
  /\ client \in [Run -> User \cup {NoClient}]
  /\ thread \in [Run -> Thread \cup {NoThread}]
  /\ hist \in [Run -> SUBSET Message]
  /\ active \in Nat
  /\ clock \in Nat
  /\ gen \in [Thread -> Nat]
  /\ born \in [Run -> Nat]
  /\ raced \in SUBSET Run
  /\ straddled \in SUBSET Thread

\* Two clients that are not admins are never both let into the same session,
\* however their first requests interleave: what the atomic claim of
\* touch_and_get_owner is for.  A session ends when its thread is erased.
OneClientPerSession ==
  \A q, r \in Admitted :
    /\ client[q] \in Client /\ client[r] \in Client
    /\ thread[q] = thread[r] /\ born[q] = born[r]
    => client[q] = client[r]

\* While a row exists its owner is the one first written: no touch, by an admin
\* least of all, takes a session over.
OwnerIsStable ==
  [][\A t \in Thread :
       owner[t] # NoRow /\ owner'[t] # NoRow => owner'[t] = owner[t]]_owner

\* active_sessions is the number of runs between record_session_start and
\* record_session_end, over failures, disconnects and restarts.
GaugeCountsRuns == active = Cardinality(Running)

\* Deleting or expiring a session removes what was said in it for good, unless
\* a request admitted before was still unfinished: the newest checkpoint holds
\* messages of the present session only.
ErasedStaysErased ==
  \A t \in Thread \ straddled : \A m \in saved[t] : born[m[1]] = gen[t]

\* A turn answered with 200 is in the history of its session, question and
\* reply, unless the session was erased or the turn overlapped another run of
\* the same thread (the newest checkpoint is the last writer's).
AnsweredTurnIsKept ==
  \A r \in Run \ raced :
    phase[r] = "ok" /\ born[r] = gen[thread[r]]
      => {r} \X {"user", "reply"} \subseteq saved[thread[r]]

\* Whatever happens to the runs, the gauge returns to 0 when no request is left.
GaugeDrains == <>[](active = 0)

\* The ownership a session layer owes its callers, as its own specification.
Ownership ==
  INSTANCE SessionOwnership WITH
    Nobody <- NoRow, Unknown <- NullOwner, holder <- owner,
    served <- {<<r, client[r], thread[r]>> : r \in Admitted}

ImplementsOwnership == Ownership!OwnershipSpec
=============================================================================
