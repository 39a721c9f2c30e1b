--------------------------- MODULE SessionsProofs ---------------------------
(***************************************************************************)
(* Proofs about module Sessions, for every set of clients, admins, threads *)
(* and requests and every MaxAge and MaxClock.                             *)
(***************************************************************************)
EXTENDS Sessions, TLAPS, FiniteSetTheorems

\* Every conjunct of TypeOK but the gauge's, which needs GaugeCountsRuns.
ShapeOK ==
  /\ owner \in [Thread -> User \cup {NoRow, NullOwner}]
  /\ lastActive \in [Thread -> Nat]
  /\ tables \in BOOLEAN
  /\ kept \in [Thread -> BOOLEAN]
  /\ saved \in [Thread -> SUBSET Message]
  /\ phase \in [Run -> Phase]
  /\ client \in [Run -> User \cup {NoClient}]
  /\ thread \in [Run -> Thread \cup {NoThread}]
  /\ hist \in [Run -> SUBSET Message]
  /\ clock \in Nat
  /\ gen \in [Thread -> Nat]
  /\ born \in [Run -> Nat]
  /\ raced \in SUBSET Run
  /\ straddled \in SUBSET Thread

\* An admitted request has a client and a thread.
AdmittedOK ==
  \A r \in Admitted : client[r] \in User /\ thread[r] \in Thread

\* The gauge counts the runs, and there are finitely many.
GaugeInv == IsFiniteSet(Running) /\ GaugeCountsRuns
\* A request is of the session that is or of an erased one; if of the one that
\* is and not an admin's, its client is the owner.
OwnerInv ==
  /\ \A r \in Admitted : born[r] <= gen[thread[r]]
  /\ \A r \in Admitted :
       client[r] \in Client /\ born[r] = gen[thread[r]] => owner[thread[r]] = client[r]
  /\ OneClientPerSession

\* Messages are of admitted runs; an unfinished run of a thread that was never
\* erased under it is of the present session, and so is what it has loaded.
HistoryInv ==
  /\ \A t \in Thread : \A m \in saved[t] : m[1] \in Admitted
  /\ \A r \in Run : \A m \in hist[r] : m[1] \in Admitted
  /\ \A r \in Run : phase[r] \notin Writing \cup {"answered"} => hist[r] = {}
  /\ \A r \in Run :
       phase[r] \in Unfinished /\ thread[r] \notin straddled
         => /\ born[r] = gen[thread[r]]
            /\ \A m \in hist[r] : born[m[1]] = gen[thread[r]]
  /\ ErasedStaysErased

Turn(r) == {r} \X {"user", "reply"}

\* Two runs that write the same thread at once are both marked; a saved turn
\* that is not marked is in what every later writer has loaded.
KeptInv ==
  /\ \A r \in Run \ raced, q \in Run :
       q # r /\ phase[r] \in Writing /\ phase[q] \in Writing => thread[q] # thread[r]
  /\ \A r \in Run \ raced :
       phase[r] \in {"answered", "ok"} /\ born[r] = gen[thread[r]]
         => /\ Turn(r) \subseteq saved[thread[r]]
            /\ \A q \in Run :
                 q # r /\ phase[q] \in Writing /\ thread[q] = thread[r]
                   => Turn(r) \subseteq hist[q]

\* The inductive invariant.
IInv == ShapeOK /\ AdmittedOK /\ GaugeInv /\ OwnerInv /\ HistoryInv /\ KeptInv
-----------------------------------------------------------------------------
(* Typing.                                                                 *)

\* The initial states have the shape TypeOK asks for.
LEMMA ShapeInit == Init => ShapeOK /\ AdmittedOK
  BY SessionsAssumption DEF Init, ShapeOK, AdmittedOK, Admitted, Phase, User, Message

\* A request that is let through keeps the shape.
LEMMA ShapeBegin ==
  ASSUME ShapeOK, AdmittedOK,
         NEW r \in Run, NEW c \in User, NEW t \in Thread,
         Begin(r, c, t)
  PROVE  /\ phase' \in [Run -> Phase]
         /\ client' \in [Run -> User \cup {NoClient}]
         /\ thread' \in [Run -> Thread \cup {NoThread}]
         /\ hist' = hist /\ born' \in [Run -> Nat]
         /\ AdmittedOK'
  BY DEF ShapeOK, AdmittedOK, Admitted, Begin, Move, Phase, Unfinished, Counted

\* Touching a row keeps the table's columns typed.
LEMMA ShapeTouch ==
  ASSUME ShapeOK, NEW c \in User, NEW t \in Thread,
         Claim(t, c) \/ Touch(t, c) \/ UNCHANGED cols
  PROVE  /\ owner' \in [Thread -> User \cup {NoRow, NullOwner}]
         /\ lastActive' \in [Thread -> Nat]
  BY DEF ShapeOK, Claim, Touch, TouchedOwner, cols

\* Erasing sessions keeps the shape of the database.
LEMMA ShapeErase ==
  ASSUME ShapeOK, NEW S \in SUBSET Thread, Erase(S)
  PROVE  /\ owner' \in [Thread -> User \cup {NoRow, NullOwner}]
         /\ lastActive' \in [Thread -> Nat]
         /\ kept' \in [Thread -> BOOLEAN]
         /\ saved' \in [Thread -> SUBSET Message]
         /\ gen' \in [Thread -> Nat]
         /\ straddled' \in SUBSET Thread
  BY DEF ShapeOK, Erase, Straddled

\* A step of a run keeps the shape.
LEMMA ShapeRunStep ==
  ASSUME ShapeOK, AdmittedOK, NEW r \in Run, RunStep(r)
  PROVE  ShapeOK' /\ AdmittedOK'
<1> USE DEF ShapeOK, AdmittedOK, Admitted, Move, Phase, Unfinished, Counted,
            cols, ckpt, ghosts
<1>1. CASE StreamStarts(r)  BY <1>1 DEF StreamStarts
<1>2. CASE StreamAbandoned(r)  BY <1>2 DEF StreamAbandoned
<1>3. CASE Load(r)  BY <1>3 DEF Load, Peers
<1>4. CASE Ask(r)
  <2>1. {r} \X {"user"} \subseteq Message
    BY DEF Message
  <2> QED  BY <1>4, <2>1 DEF Ask, Save
<1>5. CASE Answer(r)
  <2>1. {r} \X {"user", "reply"} \subseteq Message
    BY DEF Message
  <2> QED  BY <1>5, <2>1 DEF Answer, Save
<1>6. CASE Finish(r)  BY <1>6 DEF Finish
<1>7. CASE Fail(r)  BY <1>7 DEF Fail
<1> QED  BY <1>1, <1>2, <1>3, <1>4, <1>5, <1>6, <1>7 DEF RunStep

\* Every step keeps the shape.
LEMMA ShapeStep ==
  ASSUME ShapeOK, AdmittedOK, [Next]_vars
  PROVE  ShapeOK' /\ AdmittedOK'
<1>1. ASSUME NEW r \in Run, NEW t \in Thread, NEW c \in Client, ChatAdmitted(r, c, t)
      PROVE  ShapeOK' /\ AdmittedOK'
  <2>1. c \in User  BY DEF User
  <2>2. Claim(t, c) /\ Begin(r, c, t)  BY <1>1 DEF ChatAdmitted
  <2> QED  BY <2>1, <2>2, ShapeBegin, ShapeTouch DEF ShapeOK, Begin, ckpt
<1>2. ASSUME NEW r \in Run, NEW t \in Thread, NEW c \in Client, ChatRefused(r, c, t)
      PROVE  ShapeOK' /\ AdmittedOK'
  BY <1>2 DEF ChatRefused, Reject, Move, ShapeOK, AdmittedOK, Admitted, Phase,
              cols, ckpt, ghosts
<1>3. ASSUME NEW r \in Run, NEW t \in Thread, NEW c \in Client, ChatUnavailable(r, c, t)
      PROVE  ShapeOK' /\ AdmittedOK'
  <2>1. c \in User  BY DEF User
  <2>2. Reject(r) /\ (Claim(t, c) \/ UNCHANGED cols)  BY <1>3 DEF ChatUnavailable
  <2>3. /\ owner' \in [Thread -> User \cup {NoRow, NullOwner}]
        /\ lastActive' \in [Thread -> Nat]
    BY <2>1, <2>2, ShapeTouch
  <2> QED  BY <2>2, <2>3 DEF Reject, Move, ShapeOK, AdmittedOK, Admitted, Phase,
                            ckpt, ghosts
<1>4. ASSUME NEW r \in Run, NEW t \in Thread, NEW c \in Admin, AdminAdmitted(r, c, t)
      PROVE  ShapeOK' /\ AdmittedOK'
  <2>1. c \in User  BY DEF User
  <2>2. Touch(t, c) /\ Begin(r, c, t)  BY <1>4 DEF AdminAdmitted
  <2> QED  BY <2>1, <2>2, ShapeBegin, ShapeTouch DEF ShapeOK, Begin, ckpt
<1>5. ASSUME NEW r \in Run, RunStep(r)
      PROVE  ShapeOK' /\ AdmittedOK'
  BY <1>5, ShapeRunStep
<1>6. ASSUME NEW t \in Thread, NEW c \in Writer \cup Admin, DeleteSession(c, t)
      PROVE  ShapeOK' /\ AdmittedOK'
  <2>1. Erase({t})  BY <1>6 DEF DeleteSession
  <2> QED  BY <1>6, <2>1, ShapeErase DEF DeleteSession, ShapeOK, AdmittedOK, Admitted, reqs
<1>7. CASE Cleanup
  <2>1. Erase(Expired) /\ Expired \in SUBSET Thread  BY <1>7 DEF Cleanup, Expired
  <2> QED  BY <1>7, <2>1, ShapeErase DEF Cleanup, ShapeOK, AdmittedOK, Admitted, reqs
<1>8. CASE Restart
  BY <1>8 DEF Restart, ShapeOK, AdmittedOK, Admitted, Phase, Unfinished, Counted,
              cols, ckpt, ghosts
<1>9. CASE Tick
  BY <1>9 DEF Tick, ShapeOK, AdmittedOK, Admitted, cols, ckpt, reqs, ghosts
<1>10. CASE UNCHANGED vars
  BY <1>10 DEF vars, ShapeOK, AdmittedOK, Admitted, cols, ckpt, reqs, ghosts
<1> QED  BY <1>1, <1>2, <1>3, <1>4, <1>5, <1>6, <1>7, <1>8, <1>9, <1>10 DEF Next
-----------------------------------------------------------------------------
(* The gauge.                                                              *)

\* A run that begins to be counted, or is counted no longer, changes the gauge
\* by one.
LEMMA GaugeMoves ==
  ASSUME GaugeInv, NEW r
  PROVE  /\ r \notin Running /\ Running' = Running \cup {r} /\ active' = active + 1
              => GaugeInv'
         /\ r \in Running /\ Running' = Running \ {r} /\ active' = active - 1
              => GaugeInv'
         /\ Running' = Running /\ active' = active => GaugeInv'
  BY FS_AddElement, FS_RemoveElement, FS_CardinalityType DEF GaugeInv, GaugeCountsRuns

\* Moving one request between phases moves at most that request in or out of
\* the counted ones.
LEMMA RunningMoves ==
  ASSUME ShapeOK, NEW r \in Run, NEW from, NEW to \in Phase, Move(r, from, to)
  PROVE  /\ phase[r] \notin Counted /\ to \in Counted
              => r \notin Running /\ Running' = Running \cup {r}
         /\ phase[r] \in Counted /\ to \notin Counted
              => r \in Running /\ Running' = Running \ {r}
         /\ (phase[r] \in Counted) = (to \in Counted) => Running' = Running
  BY DEF ShapeOK, Move, Running

\* Passing the gate counts a chat and leaves a stream uncounted.
LEMMA GaugeBegin ==
  ASSUME ShapeOK, GaugeInv, NEW r \in Run, NEW c, NEW t, Begin(r, c, t)
  PROVE  GaugeInv'
<1>1. CASE Move(r, {"new"}, "running") /\ active' = active + 1
  <2>1. phase[r] = "new"  BY <1>1 DEF Move
  <2> QED  BY <1>1, <2>1, RunningMoves, GaugeMoves DEF Phase, Unfinished, Counted
<1>2. CASE Move(r, {"new"}, "opened") /\ UNCHANGED active
  <2>1. phase[r] = "new"  BY <1>2 DEF Move
  <2>2. Running' = Running
    BY <1>2, <2>1, RunningMoves DEF Phase, Unfinished, Counted
  <2> QED  BY <1>2, <2>2, GaugeMoves
<1> QED  BY <1>1, <1>2 DEF Begin

\* The gauge follows every step of a run.
LEMMA GaugeRunStep ==
  ASSUME ShapeOK, GaugeInv, NEW r \in Run, RunStep(r)
  PROVE  GaugeInv'
<1>1. CASE StreamStarts(r)
  <2>1. Move(r, {"opened"}, "running") /\ phase[r] = "opened" /\ active' = active + 1
    BY <1>1 DEF StreamStarts, Move
  <2> QED  BY <2>1, RunningMoves, GaugeMoves DEF Phase, Unfinished, Counted
<1>2. CASE StreamAbandoned(r)
  <2>1. Move(r, {"opened"}, "failed") /\ phase[r] = "opened" /\ active' = active
    BY <1>2 DEF StreamAbandoned, Move
  <2> QED  BY <2>1, RunningMoves, GaugeMoves DEF Phase, Unfinished, Counted
<1>3. CASE Load(r)
  <2>1. Move(r, {"running"}, "loaded") /\ phase[r] = "running" /\ active' = active
    BY <1>3 DEF Load, Move
  <2> QED  BY <2>1, RunningMoves, GaugeMoves DEF Phase, Unfinished, Counted
<1>4. CASE Ask(r)
  <2>1. Move(r, {"loaded"}, "asked") /\ phase[r] = "loaded" /\ active' = active
    BY <1>4 DEF Ask, Save, Move
  <2> QED  BY <2>1, RunningMoves, GaugeMoves DEF Phase, Unfinished, Counted
<1>5. CASE Answer(r)
  <2>1. Move(r, {"asked"}, "answered") /\ phase[r] = "asked" /\ active' = active
    BY <1>5 DEF Answer, Save, Move
  <2> QED  BY <2>1, RunningMoves, GaugeMoves DEF Phase, Unfinished, Counted
<1>6. CASE Finish(r)
  <2>1. Move(r, {"answered"}, "ok") /\ phase[r] = "answered" /\ active' = active - 1
    BY <1>6 DEF Finish, Move
  <2> QED  BY <2>1, RunningMoves, GaugeMoves DEF Phase, Counted
<1>7. CASE Fail(r)
  <2>1. Move(r, Counted, "failed") /\ phase[r] \in Counted /\ active' = active - 1
    BY <1>7 DEF Fail, Move
  <2> QED  BY <2>1, RunningMoves, GaugeMoves DEF Phase, Counted
<1> QED  BY <1>1, <1>2, <1>3, <1>4, <1>5, <1>6, <1>7 DEF RunStep

\* The gauge counts the runs after every step if it did before.
LEMMA GaugeStep ==
  ASSUME ShapeOK, GaugeInv, [Next]_vars
  PROVE  GaugeInv'
<1>1. ASSUME NEW r \in Run, NEW t \in Thread, NEW c,
             ChatAdmitted(r, c, t) \/ AdminAdmitted(r, c, t)
      PROVE  GaugeInv'
  BY <1>1, GaugeBegin DEF ChatAdmitted, AdminAdmitted
<1>2. ASSUME NEW r \in Run, NEW t \in Thread, NEW c,
             ChatRefused(r, c, t) \/ ChatUnavailable(r, c, t)
      PROVE  GaugeInv'
  <2>1. Move(r, {"new"}, "rejected") /\ phase[r] = "new" /\ active' = active
    BY <1>2 DEF ChatRefused, ChatUnavailable, Reject, Move
  <2> QED  BY <2>1, RunningMoves, GaugeMoves DEF Phase, Counted
<1>3. ASSUME NEW r \in Run, RunStep(r)
      PROVE  GaugeInv'
  BY <1>3, GaugeRunStep
<1>4. CASE \/ \E t \in Thread, c \in Writer \cup Admin : DeleteSession(c, t)
           \/ Cleanup \/ Tick \/ UNCHANGED vars
  <2>1. Running' = Running /\ active' = active
    BY <1>4 DEF DeleteSession, Cleanup, Tick, vars, reqs, Running
  <2> QED  BY <2>1, GaugeMoves
<1>5. CASE Restart
  <2>1. Running' = {} /\ active' = 0
    BY <1>5 DEF Restart, Running, ShapeOK, Unfinished, Counted
  <2> QED  BY <2>1, FS_EmptySet DEF GaugeInv, GaugeCountsRuns
<1> QED  BY <1>1, <1>2, <1>3, <1>4, <1>5 DEF Next

\* The gauge is 0 when no request has been made.
LEMMA GaugeInit == Init => GaugeInv
<1> SUFFICES ASSUME Init PROVE GaugeInv
  OBVIOUS
<1>1. Running = {} /\ active = 0
  BY DEF Init, Running, Counted
<1> QED  BY <1>1, FS_EmptySet DEF GaugeInv, GaugeCountsRuns
-----------------------------------------------------------------------------
(* Ownership.                                                              *)

\* No request is admitted at first.
LEMMA OwnerInit == Init => OwnerInv
  BY DEF Init, OwnerInv, OneClientPerSession, Admitted

\* What passing the gate does to the admitted requests.
LEMMA BeginAdmits ==
  ASSUME ShapeOK, NEW r \in Run, NEW c, NEW t, Begin(r, c, t)
  PROVE  /\ r \notin Admitted /\ Admitted' = Admitted \cup {r}
         /\ client' = [client EXCEPT ![r] = c]
         /\ thread' = [thread EXCEPT ![r] = t]
         /\ born' = [born EXCEPT ![r] = gen[t]]
         /\ gen' = gen
  BY DEF ShapeOK, Begin, Move, Admitted, Unfinished, Counted

\* The gate lets a client in only as the owner, so the invariant survives it.
LEMMA OwnerBegin ==
  ASSUME ShapeOK, AdmittedOK, OwnerInv,
         NEW r \in Run, NEW c \in User, NEW t \in Thread, Begin(r, c, t),
         \/ owner' = [owner EXCEPT ![t] = TouchedOwner(t, c)]
         \/ c \in Admin /\ UNCHANGED owner,
         c \in Client => TouchedOwner(t, c) = c
  PROVE  OwnerInv'
<1> USE SessionsAssumption, BeginAdmits
        DEF OwnerInv, OneClientPerSession, ShapeOK, AdmittedOK, TouchedOwner, User
<1>1. (\A q \in Admitted : born[q] <= gen[thread[q]])'
  BY DEF Admitted
<1>2. (\A q \in Admitted :
         client[q] \in Client /\ born[q] = gen[thread[q]] => owner[thread[q]] = client[q])'
  BY DEF Admitted
<1>3. OneClientPerSession'
  <2> SUFFICES ASSUME NEW q \in Admitted', NEW s \in Admitted',
                      client'[q] \in Client, client'[s] \in Client,
                      thread'[q] = thread'[s], born'[q] = born'[s]
               PROVE  client'[q] = client'[s]
    OBVIOUS
  <2>1. \A x \in Admitted' :
          born'[x] = gen'[thread'[x]] /\ client'[x] \in Client
            => owner'[thread'[x]] = client'[x]
    BY <1>2
  <2>2. CASE q = r \/ s = r
    <3>1. born'[q] = gen'[thread'[q]] /\ born'[s] = gen'[thread'[s]]
      BY <2>2 DEF Admitted
    <3> QED  BY <2>1, <3>1
  <2>3. CASE q # r /\ s # r
    BY <2>3 DEF Admitted
  <2> QED  BY <2>2, <2>3
<1> QED  BY <1>1, <1>2, <1>3

\* An erased session is no longer the one its requests belong to.
LEMMA OwnerErase ==
  ASSUME ShapeOK, AdmittedOK, OwnerInv, NEW S \in SUBSET Thread, Erase(S),
         UNCHANGED <<reqs, born>>
  PROVE  OwnerInv'
<1>1. \A t \in Thread : t \in S => gen'[t] = gen[t] + 1
  BY DEF Erase, ShapeOK
<1>2. \A t \in Thread : t \notin S => gen'[t] = gen[t] /\ owner'[t] = owner[t]
  BY DEF Erase, ShapeOK
<1>3. \A r \in Admitted : thread[r] \in Thread /\ born[r] \in Nat /\ gen[thread[r]] \in Nat
  BY DEF ShapeOK, AdmittedOK, Admitted
<1> QED
  BY <1>1, <1>2, <1>3 DEF OwnerInv, OneClientPerSession, Admitted, reqs

\* Steps that leave the owners and the admitted requests alone.
LEMMA OwnerFrame ==
  ASSUME OwnerInv, UNCHANGED <<owner, client, thread, born, gen>>, Admitted' = Admitted
  PROVE  OwnerInv'
  BY DEF OwnerInv, OneClientPerSession

\* A run's own steps change no owner and no request.
LEMMA RunStepFrame ==
  ASSUME ShapeOK, NEW r \in Run, RunStep(r)
  PROVE  /\ UNCHANGED <<cols, client, thread, born, gen, straddled>>
         /\ Admitted' = Admitted /\ r \in Admitted
<1> USE DEF ShapeOK, Admitted, Move, Counted, cols, ckpt, ghosts
<1>1. CASE StreamStarts(r)  BY <1>1 DEF StreamStarts
<1>2. CASE StreamAbandoned(r)  BY <1>2 DEF StreamAbandoned
<1>3. CASE Load(r)  BY <1>3 DEF Load
<1>4. CASE Ask(r)  BY <1>4 DEF Ask, Save
<1>5. CASE Answer(r)  BY <1>5 DEF Answer, Save
<1>6. CASE Finish(r)  BY <1>6 DEF Finish
<1>7. CASE Fail(r)  BY <1>7 DEF Fail
<1> QED  BY <1>1, <1>2, <1>3, <1>4, <1>5, <1>6, <1>7 DEF RunStep

\* A rejected request is never an admitted one.
LEMMA RejectFrame ==
  ASSUME ShapeOK, NEW r \in Run, Reject(r)
  PROVE  /\ Admitted' = Admitted
         /\ UNCHANGED <<client, thread, hist, ckpt, born, gen, raced, straddled>>
  BY DEF ShapeOK, Reject, Move, Admitted, ghosts

\* A restart ends runs, and admits none.
LEMMA RestartFrame ==
  ASSUME ShapeOK, Restart
  PROVE  /\ Admitted' = Admitted
         /\ UNCHANGED <<cols, ckpt, client, thread, born, gen, raced, straddled>>
  BY DEF ShapeOK, Restart, Admitted, Unfinished, Counted, ghosts

\* Ownership survives every step.
LEMMA OwnerStep ==
  ASSUME ShapeOK, AdmittedOK, OwnerInv, [Next]_vars
  PROVE  OwnerInv'
<1>1. ASSUME NEW r \in Run, NEW t \in Thread, NEW c \in Client, ChatAdmitted(r, c, t)
      PROVE  OwnerInv'
  BY <1>1, OwnerBegin DEF ChatAdmitted, Claim, User
<1>2. ASSUME NEW r \in Run, NEW t \in Thread, NEW c \in Client, ChatRefused(r, c, t)
      PROVE  OwnerInv'
  BY <1>2, RejectFrame, OwnerFrame DEF ChatRefused, cols
<1>3. ASSUME NEW r \in Run, NEW t \in Thread, NEW c \in Client, ChatUnavailable(r, c, t)
      PROVE  OwnerInv'
  <2>1. Reject(r) /\ (Claim(t, c) \/ UNCHANGED cols)  BY <1>3 DEF ChatUnavailable
  <2>2. \A u \in Thread : owner[u] # NoRow => owner'[u] = owner[u]
    BY <2>1 DEF Claim, TouchedOwner, cols, ShapeOK
  <2>3. \A q \in Admitted : thread[q] \in Thread  BY DEF AdmittedOK
  <2> QED
    BY <2>1, <2>2, <2>3, RejectFrame, SessionsAssumption DEF OwnerInv, OneClientPerSession
<1>4. ASSUME NEW r \in Run, NEW t \in Thread, NEW c \in Admin, AdminAdmitted(r, c, t)
      PROVE  OwnerInv'
  <2>1. c \notin Client  BY SessionsAssumption
  <2> QED  BY <1>4, <2>1, OwnerBegin DEF AdminAdmitted, Touch, cols, User
<1>5. ASSUME NEW r \in Run, RunStep(r)
      PROVE  OwnerInv'
  BY <1>5, RunStepFrame, OwnerFrame DEF cols
<1>6. ASSUME NEW t \in Thread, NEW c \in Writer \cup Admin, DeleteSession(c, t)
      PROVE  OwnerInv'
  BY <1>6, OwnerErase DEF DeleteSession
<1>7. CASE Cleanup
  BY <1>7, OwnerErase DEF Cleanup, Expired
<1>8. CASE Restart
  BY <1>8, RestartFrame, OwnerFrame DEF cols
<1>9. CASE Tick \/ UNCHANGED vars
  <2>1. UNCHANGED <<owner, client, thread, born, gen, phase>>
    BY <1>9 DEF Tick, vars, cols, reqs, ghosts
  <2> QED  BY <2>1, OwnerFrame DEF Admitted
<1> QED  BY <1>1, <1>2, <1>3, <1>4, <1>5, <1>6, <1>7, <1>8, <1>9 DEF Next
-----------------------------------------------------------------------------
(* What is saved.                                                          *)

\* Nothing is saved at first that is of a run.
LEMMA HistoryInit == Init => HistoryInv /\ KeptInv
  BY DEF Init, HistoryInv, KeptInv, ErasedStaysErased, Admitted, Unfinished, Counted,
         Writing, Turn

\* A request that is let through is of the present session and has loaded nothing.
LEMMA HistoryBegin ==
  ASSUME ShapeOK, AdmittedOK, HistoryInv,
         NEW r \in Run, NEW c, NEW t \in Thread, Begin(r, c, t)
  PROVE  HistoryInv'
<1> USE DEF ShapeOK, AdmittedOK, HistoryInv
<1>1. /\ r \notin Admitted /\ Admitted' = Admitted \cup {r}
      /\ thread' = [thread EXCEPT ![r] = t]
      /\ born' = [born EXCEPT ![r] = gen[t]]
      /\ UNCHANGED <<gen, hist, saved, straddled>>
  BY BeginAdmits DEF Begin, ckpt
<1>2. /\ phase[r] = "new"
      /\ \E to \in {"running", "opened"} : phase' = [phase EXCEPT ![r] = to]
  BY DEF Begin, Move
<1>3. hist[r] = {}
  BY <1>2 DEF Writing
<1>4. \A q \in Admitted : born'[q] = born[q]
  BY <1>1 DEF Admitted
<1>5. \A q \in Run : phase'[q] \notin Writing \cup {"answered"} => hist'[q] = {}
  BY <1>1, <1>2, <1>3 DEF Writing
<1>6. (\A q \in Run :
         phase[q] \in Unfinished /\ thread[q] \notin straddled
           => /\ born[q] = gen[thread[q]]
              /\ \A m \in hist[q] : born[m[1]] = gen[thread[q]])'
  <2> SUFFICES ASSUME NEW q \in Run, phase'[q] \in Unfinished, thread'[q] \notin straddled'
               PROVE  /\ born'[q] = gen'[thread'[q]]
                      /\ \A m \in hist'[q] : born'[m[1]] = gen'[thread'[q]]
    OBVIOUS
  <2>1. CASE q = r  BY <2>1, <1>1, <1>3
  <2>2. CASE q # r  BY <2>2, <1>1, <1>2, <1>4
  <2> QED  BY <2>1, <2>2
<1>7. ErasedStaysErased'
  BY <1>1, <1>4 DEF ErasedStaysErased
<1> QED  BY <1>1, <1>5, <1>6, <1>7

\* Erasing a session under an unfinished request is what straddled records.
LEMMA HistoryErase ==
  ASSUME ShapeOK, AdmittedOK, HistoryInv, NEW S \in SUBSET Thread, Erase(S),
         UNCHANGED <<reqs, born>>
  PROVE  HistoryInv'
<1>1. Admitted' = Admitted  BY DEF reqs, Admitted
<1>2. \A t \in Thread \ S : gen'[t] = gen[t] /\ saved'[t] = saved[t]
  BY DEF Erase, ShapeOK
<1>3. \A t \in S : saved'[t] = {}  BY DEF Erase, ShapeOK
<1>4. \A r \in Run : phase[r] \in Unfinished /\ thread[r] \notin straddled'
                       => thread[r] \in Thread \ S /\ thread[r] \notin straddled
  BY DEF Erase, Straddled, AdmittedOK, Admitted, Unfinished, Counted
<1>5. straddled \subseteq straddled'  BY DEF Erase, Straddled
<1> QED
  BY <1>1, <1>2, <1>3, <1>4, <1>5 DEF HistoryInv, ErasedStaysErased, reqs

\* A run writes what it has loaded and its own turn.
LEMMA HistorySave ==
  ASSUME ShapeOK, AdmittedOK, HistoryInv, NEW r \in Run, NEW roles,
         NEW from \in {"loaded", "asked"}, NEW to \in {"asked", "answered"},
         Move(r, {from}, to), Save(r, roles)
  PROVE  HistoryInv'
<1> USE DEF ShapeOK, AdmittedOK, HistoryInv
<1>1. /\ phase[r] = from /\ phase' = [phase EXCEPT ![r] = to]
      /\ UNCHANGED <<thread, hist, gen, born, straddled>>
  BY DEF Move, Save, ghosts
<1>2. Admitted' = Admitted /\ r \in Admitted /\ phase[r] \in Unfinished
  BY <1>1 DEF Admitted, Unfinished, Counted
<1>3. saved' = [saved EXCEPT ![thread[r]] = hist[r] \cup ({r} \X roles)]
  BY DEF Save
<1>4. \A m \in {r} \X roles : m[1] = r
  OBVIOUS
<1>5. (\A t \in Thread : \A m \in saved[t] : m[1] \in Admitted)'
  BY <1>2, <1>3, <1>4
<1>6. \A q \in Run : phase'[q] \notin Writing \cup {"answered"} => hist'[q] = {}
  BY <1>1 DEF Writing
<1>7. ErasedStaysErased'
  BY <1>1, <1>2, <1>3, <1>4 DEF ErasedStaysErased
<1>8. \A q \in Run : phase'[q] \in Unfinished => phase[q] \in Unfinished
  BY <1>1, <1>2
<1> QED  BY <1>1, <1>2, <1>5, <1>6, <1>7, <1>8

\* A step of a run keeps erased what was erased.
LEMMA HistoryRunStep ==
  ASSUME ShapeOK, AdmittedOK, HistoryInv, NEW r \in Run, RunStep(r)
  PROVE  HistoryInv'
<1> USE RunStepFrame DEF ShapeOK, AdmittedOK, HistoryInv, ErasedStaysErased, Move,
                         Unfinished, Counted, Writing, ckpt
<1>1. CASE StreamStarts(r)  BY <1>1 DEF StreamStarts
<1>2. CASE StreamAbandoned(r)  BY <1>2 DEF StreamAbandoned
<1>3. CASE Load(r)
  <2>1. /\ phase[r] = "running" /\ phase' = [phase EXCEPT ![r] = "loaded"]
        /\ hist' = [hist EXCEPT ![r] = saved[thread[r]]]
        /\ UNCHANGED <<saved, thread, gen, born, straddled>>
        /\ Admitted' = Admitted /\ thread[r] \in Thread
    BY <1>3 DEF Load
  <2> QED  BY <2>1
<1>4. CASE Ask(r)  BY <1>4, HistorySave DEF Ask
<1>5. CASE Answer(r)  BY <1>5, HistorySave DEF Answer
<1>6. CASE Finish(r)  BY <1>6 DEF Finish
<1>7. CASE Fail(r)  BY <1>7 DEF Fail
<1> QED  BY <1>1, <1>2, <1>3, <1>4, <1>5, <1>6, <1>7 DEF RunStep

\* What was erased stays erased over every step.
LEMMA HistoryStep ==
  ASSUME ShapeOK, AdmittedOK, HistoryInv, [Next]_vars
  PROVE  HistoryInv'
<1>1. ASSUME NEW r \in Run, NEW t \in Thread, NEW c,
             ChatAdmitted(r, c, t) \/ AdminAdmitted(r, c, t)
      PROVE  HistoryInv'
  BY <1>1, HistoryBegin DEF ChatAdmitted, AdminAdmitted
<1>2. ASSUME NEW r \in Run, NEW t \in Thread, NEW c,
             ChatRefused(r, c, t) \/ ChatUnavailable(r, c, t)
      PROVE  HistoryInv'
  <2>1. Reject(r)  BY <1>2 DEF ChatRefused, ChatUnavailable
  <2>2. phase' = [phase EXCEPT ![r] = "rejected"] /\ phase[r] = "new"
    BY <2>1 DEF Reject, Move
  <2> QED
    BY <2>1, <2>2, RejectFrame DEF HistoryInv, ErasedStaysErased, ckpt, ShapeOK,
                                   Unfinished, Counted, Writing
<1>3. ASSUME NEW r \in Run, RunStep(r)
      PROVE  HistoryInv'
  BY <1>3, HistoryRunStep
<1>4. ASSUME NEW t \in Thread, NEW c \in Writer \cup Admin, DeleteSession(c, t)
      PROVE  HistoryInv'
  BY <1>4, HistoryErase DEF DeleteSession
<1>5. CASE Cleanup
  BY <1>5, HistoryErase DEF Cleanup, Expired
<1>6. CASE Restart
  <2>1. /\ \A r \in Run : hist'[r] = {}
        /\ \A r \in Run : phase'[r] \notin Unfinished
    BY <1>6 DEF Restart, Unfinished, Counted, ShapeOK
  <2> QED
    BY <1>6, <2>1, RestartFrame DEF HistoryInv, ErasedStaysErased, ckpt
<1>7. CASE Tick \/ UNCHANGED vars
  <2>1. UNCHANGED <<saved, hist, phase, thread, born, gen, straddled>>
    BY <1>7 DEF Tick, vars, ckpt, reqs, ghosts
  <2> QED  BY <2>1 DEF HistoryInv, ErasedStaysErased, Admitted
<1> QED  BY <1>1, <1>2, <1>3, <1>4, <1>5, <1>6, <1>7 DEF Next

\* Steps that let no run into or out of the phases KeptInv speaks of.
LEMMA KeptFrame ==
  ASSUME KeptInv, UNCHANGED <<thread, saved, raced>>,
         \A r \in Run : phase'[r] \in Writing
                         => phase[r] \in Writing /\ hist'[r] = hist[r],
         \A r \in Run : phase'[r] \in {"answered", "ok"}
                         => /\ phase[r] \in {"answered", "ok"}
                            /\ born'[r] = born[r] /\ gen'[thread[r]] = gen[thread[r]]
  PROVE  KeptInv'
  BY DEF KeptInv

\* An erased turn is of a session that is no longer the present one.
LEMMA KeptErase ==
  ASSUME ShapeOK, AdmittedOK, OwnerInv, KeptInv, NEW S \in SUBSET Thread, Erase(S),
         UNCHANGED <<reqs, born, raced>>
  PROVE  KeptInv'
<1>1. \A t \in Thread \ S : gen'[t] = gen[t] /\ saved'[t] = saved[t]
  BY DEF Erase, ShapeOK
<1>2. \A t \in S : gen'[t] = gen[t] + 1  BY DEF Erase, ShapeOK
<1>3. \A r \in Run : phase[r] \in {"answered", "ok"} /\ born[r] = gen'[thread[r]]
                       => thread[r] \in Thread \ S
  <2> SUFFICES ASSUME NEW r \in Run, phase[r] \in {"answered", "ok"},
                      born[r] = gen'[thread[r]]
               PROVE  thread[r] \in Thread \ S
    OBVIOUS
  <2>1. thread[r] \in Thread /\ born[r] <= gen[thread[r]]
    BY DEF AdmittedOK, OwnerInv, Admitted
  <2> QED  BY <1>2, <2>1 DEF ShapeOK
<1> QED  BY <1>1, <1>3 DEF KeptInv, reqs

\* A run that starts to read marks itself and every run of its thread that is
\* still writing.
LEMMA KeptLoad ==
  ASSUME ShapeOK, AdmittedOK, KeptInv, NEW r \in Run, Load(r)
  PROVE  KeptInv'
<1> USE DEF ShapeOK, AdmittedOK
<1>1. /\ phase[r] = "running" /\ phase' = [phase EXCEPT ![r] = "loaded"]
      /\ hist' = [hist EXCEPT ![r] = saved[thread[r]]]
      /\ raced' = IF Peers(r) = {} THEN raced ELSE raced \cup Peers(r) \cup {r}
      /\ UNCHANGED <<saved, thread, gen, born>>
  BY DEF Load, Move
<1>2. raced \subseteq raced'
  BY <1>1
<1>3. \A q \in Run : q # r /\ phase[q] \in Writing /\ thread[q] = thread[r]
                       => q \in raced' /\ r \in raced'
  BY <1>1 DEF Peers
<1>4. (\A x \in Run \ raced, q \in Run :
         q # x /\ phase[x] \in Writing /\ phase[q] \in Writing => thread[q] # thread[x])'
  BY <1>1, <1>2, <1>3 DEF KeptInv, Writing
<1>5. (\A x \in Run \ raced :
         phase[x] \in {"answered", "ok"} /\ born[x] = gen[thread[x]]
           => /\ Turn(x) \subseteq saved[thread[x]]
              /\ \A q \in Run :
                   q # x /\ phase[q] \in Writing /\ thread[q] = thread[x]
                     => Turn(x) \subseteq hist[q])'
  BY <1>1, <1>2 DEF KeptInv, Turn, Writing
<1> QED  BY <1>4, <1>5 DEF KeptInv

\* A run that writes keeps the turns it has loaded; an answer adds its own, and
\* no other run of the thread is writing unless both are marked.
LEMMA KeptSave ==
  ASSUME ShapeOK, AdmittedOK, KeptInv, NEW r \in Run, Ask(r) \/ Answer(r)
  PROVE  KeptInv'
<1> USE DEF ShapeOK, AdmittedOK
<1>1. PICK to \in {"asked", "answered"}, roles \in SUBSET {"user", "reply"} :
        /\ phase[r] \in Writing /\ phase' = [phase EXCEPT ![r] = to]
        /\ saved' = [saved EXCEPT ![thread[r]] = hist[r] \cup ({r} \X roles)]
        /\ UNCHANGED <<hist, raced, thread, gen, born>>
        /\ to = "answered" => roles = {"user", "reply"}
  <2>1. CASE Ask(r)
    <3>1. /\ phase[r] \in Writing /\ phase' = [phase EXCEPT ![r] = "asked"]
          /\ saved' = [saved EXCEPT ![thread[r]] = hist[r] \cup ({r} \X {"user"})]
          /\ UNCHANGED <<hist, raced, thread, gen, born>>
      BY <2>1 DEF Ask, Save, Move, Writing, ghosts
    <3>2. "asked" \in {"asked", "answered"} /\ {"user"} \in SUBSET {"user", "reply"}
      OBVIOUS
    <3> QED  BY <3>1, <3>2
  <2>2. CASE Answer(r)
    BY <2>2 DEF Answer, Save, Move, Writing, ghosts
  <2> QED  BY <2>1, <2>2
<1>2. thread[r] \in Thread
  BY <1>1 DEF Admitted, Writing
<1>3. \A q \in Run : phase'[q] \in Writing => phase[q] \in Writing
  BY <1>1
<1>4. (\A x \in Run \ raced, q \in Run :
         q # x /\ phase[x] \in Writing /\ phase[q] \in Writing => thread[q] # thread[x])'
  BY <1>1, <1>3 DEF KeptInv
<1>5. ASSUME NEW x \in Run \ raced, phase'[x] \in {"answered", "ok"},
             born[x] = gen[thread[x]]
      PROVE  /\ Turn(x) \subseteq saved'[thread[x]]
             /\ \A q \in Run :
                  q # x /\ phase'[q] \in Writing /\ thread[q] = thread[x]
                    => Turn(x) \subseteq hist[q]
  <2>1. CASE x = r
    <3>1. to = "answered" /\ Turn(x) \subseteq saved'[thread[x]]
      BY <1>1, <1>2, <1>5, <2>1 DEF Turn
    <3>2. \A q \in Run : q # x /\ phase'[q] \in Writing => thread[q] # thread[x]
      BY <1>1, <1>3, <2>1 DEF KeptInv
    <3> QED  BY <3>1, <3>2
  <2>2. CASE x # r
    <3>1. /\ Turn(x) \subseteq saved[thread[x]]
          /\ \A q \in Run : q # x /\ phase[q] \in Writing /\ thread[q] = thread[x]
                             => Turn(x) \subseteq hist[q]
      BY <1>1, <1>5, <2>2 DEF KeptInv
    <3>2. CASE thread[x] = thread[r]
      BY <1>1, <1>2, <1>3, <2>2, <3>1, <3>2
    <3>3. CASE thread[x] # thread[r]
      BY <1>1, <1>2, <1>3, <3>1, <3>3
    <3> QED  BY <3>2, <3>3
  <2> QED  BY <2>1, <2>2
<1> QED  BY <1>1, <1>4, <1>5 DEF KeptInv

\* The turns of the present session survive every step.
LEMMA KeptStep ==
  ASSUME ShapeOK, AdmittedOK, OwnerInv, KeptInv, [Next]_vars
  PROVE  KeptInv'
<1>1. ASSUME NEW r \in Run, NEW t \in Thread, NEW c,
             ChatAdmitted(r, c, t) \/ AdminAdmitted(r, c, t)
      PROVE  KeptInv'
  <2>1. Begin(r, c, t)  BY <1>1 DEF ChatAdmitted, AdminAdmitted
  <2>2. /\ phase[r] = "new"
        /\ \E to \in {"running", "opened"} : phase' = [phase EXCEPT ![r] = to]
    BY <2>1 DEF Begin, Move
  <2>3. /\ thread' = [thread EXCEPT ![r] = t] /\ born' = [born EXCEPT ![r] = gen[t]]
        /\ UNCHANGED <<saved, raced, hist, gen>>
    BY <2>1 DEF Begin, ckpt
  <2>4. \A q \in Run : phase'[q] \in Writing \cup {"answered", "ok"}
                        => /\ q # r /\ phase[q] = phase'[q]
                           /\ thread'[q] = thread[q] /\ born'[q] = born[q]
    BY <2>2, <2>3 DEF Writing, ShapeOK
  <2> QED  BY <2>3, <2>4 DEF KeptInv
<1>2. ASSUME NEW r \in Run, NEW t \in Thread, NEW c,
             ChatRefused(r, c, t) \/ ChatUnavailable(r, c, t)
      PROVE  KeptInv'
  <2>1. Reject(r)  BY <1>2 DEF ChatRefused, ChatUnavailable
  <2>2. phase' = [phase EXCEPT ![r] = "rejected"]
    BY <2>1 DEF Reject, Move
  <2> QED
    BY <2>1, <2>2, RejectFrame, KeptFrame DEF ckpt, ShapeOK, Writing
<1>3. ASSUME NEW r \in Run, RunStep(r)
      PROVE  KeptInv'
  <2>1. CASE Load(r)  BY <2>1, KeptLoad
  <2>2. CASE Ask(r) \/ Answer(r)  BY <2>2, KeptSave
  <2>3. CASE StreamStarts(r) \/ StreamAbandoned(r)
    BY <2>3, KeptFrame DEF StreamStarts, StreamAbandoned, Move, Writing, ckpt, ghosts, ShapeOK
  <2>4. CASE Finish(r)
    BY <2>4, KeptFrame DEF Finish, Move, Writing, ckpt, ghosts, ShapeOK
  <2>5. CASE Fail(r)
    BY <2>5, KeptFrame DEF Fail, Move, Writing, Counted, ckpt, ghosts, ShapeOK
  <2> QED  BY <1>3, <2>1, <2>2, <2>3, <2>4, <2>5 DEF RunStep
<1>4. ASSUME NEW t \in Thread, NEW c \in Writer \cup Admin, DeleteSession(c, t)
      PROVE  KeptInv'
  BY <1>4, KeptErase DEF DeleteSession
<1>5. CASE Cleanup
  BY <1>5, KeptErase DEF Cleanup, Expired
<1>6. CASE Restart
  <2>1. \A r \in Run : phase'[r] \notin Writing /\ phase'[r] # "answered"
                         /\ (phase'[r] = "ok" => phase[r] = "ok")
    BY <1>6 DEF Restart, Unfinished, Counted, Writing, ShapeOK
  <2> QED  BY <1>6, <2>1, RestartFrame, KeptFrame DEF ckpt
<1>7. CASE Tick \/ UNCHANGED vars
  BY <1>7, KeptFrame DEF Tick, vars, ckpt, reqs, ghosts
<1> QED  BY <1>1, <1>2, <1>3, <1>4, <1>5, <1>6, <1>7 DEF Next
-----------------------------------------------------------------------------
(* Theorems.                                                               *)

\* IInv holds at first, every step keeps it, and so it always holds: for every
\* set of clients, threads and requests, and with any interleaving of admissions,
\* runs, deletions, expiries and restarts.
THEOREM InductiveInvariant == Spec => []IInv
<1>1. Init => IInv
  BY ShapeInit, GaugeInit, OwnerInit, HistoryInit DEF IInv
<1>2. IInv /\ [Next]_vars => IInv'
  BY ShapeStep, GaugeStep, OwnerStep, HistoryStep, KeptStep DEF IInv
<1> QED  BY <1>1, <1>2, PTL DEF Spec

\* Every variable keeps the kind of value the code gives it; the gauge in
\* particular never goes below 0 (record_session_end of cayz_agent/monitor.py is
\* called once for each record_session_start).
THEOREM TypeCorrect == Spec => []TypeOK
<1>1. IInv => TypeOK
  BY FS_CardinalityType DEF IInv, ShapeOK, TypeOK, GaugeInv, GaugeCountsRuns
<1> QED  BY <1>1, InductiveInvariant, PTL

\* Two clients that are not admins are never both let into the same session by
\* touch_and_get_owner, however many requests name it.
THEOREM OneClient == Spec => []OneClientPerSession
<1>1. IInv => OneClientPerSession
  BY DEF IInv, OwnerInv
<1> QED  BY <1>1, InductiveInvariant, PTL

\* active_sessions counts the runs under way over failures, disconnects and
\* restarts.
THEOREM GaugeCorrect == Spec => []GaugeCountsRuns
<1>1. IInv => GaugeCountsRuns
  BY DEF IInv, GaugeInv
<1> QED  BY <1>1, InductiveInvariant, PTL

\* delete_session and cleanup_expired_sessions leave nothing that comes back,
\* unless a request was unfinished when they ran.
THEOREM ErasedCorrect == Spec => []ErasedStaysErased
<1>1. IInv => ErasedStaysErased
  BY DEF IInv, HistoryInv
<1> QED  BY <1>1, InductiveInvariant, PTL

\* The turn of every 200 answer is in the history of its session, unless runs of
\* the thread overlapped or the session was erased.
THEOREM KeptCorrect == Spec => []AnsweredTurnIsKept
<1>1. IInv => AnsweredTurnIsKept
  BY DEF IInv, KeptInv, AnsweredTurnIsKept, Turn
<1> QED  BY <1>1, InductiveInvariant, PTL
-----------------------------------------------------------------------------
(* Steps that touch the owner column.                                      *)

OwnerMoved ==
  \/ UNCHANGED owner
  \/ \E t \in Thread, c \in User :
       owner[t] = NoRow /\ owner' = [owner EXCEPT ![t] = c]
  \/ \E S \in SUBSET Thread :
       owner' = [t \in Thread |-> IF t \in S THEN NoRow ELSE owner[t]]

\* Touching a row writes the owner of a free thread or none.
LEMMA TouchMoves ==
  ASSUME ShapeOK, NEW t \in Thread, NEW c \in User,
         Claim(t, c) \/ Touch(t, c) \/ UNCHANGED cols
  PROVE  OwnerMoved
<1>1. CASE owner[t] = NoRow
  BY <1>1 DEF Claim, Touch, TouchedOwner, cols, OwnerMoved
<1>2. CASE owner[t] # NoRow
  BY <1>2 DEF ShapeOK, Claim, Touch, TouchedOwner, cols, OwnerMoved
<1> QED  BY <1>1, <1>2

\* A step erases some threads, touches one free thread, or leaves every owner.
LEMMA OwnerMoves ==
  ASSUME ShapeOK, [Next]_vars
  PROVE  OwnerMoved
<1>1. ASSUME NEW t \in Thread, NEW r \in Run, NEW c \in Client,
             ChatAdmitted(r, c, t) \/ ChatRefused(r, c, t) \/ ChatUnavailable(r, c, t)
      PROVE  OwnerMoved
  <2>1. c \in User  BY DEF User
  <2>2. Claim(t, c) \/ UNCHANGED cols
    BY <1>1 DEF ChatAdmitted, ChatRefused, ChatUnavailable
  <2> QED  BY <2>1, <2>2, TouchMoves
<1>2. ASSUME NEW t \in Thread, NEW r \in Run, NEW c \in Admin, AdminAdmitted(r, c, t)
      PROVE  OwnerMoved
  <2>1. c \in User  BY DEF User
  <2> QED  BY <1>2, <2>1, TouchMoves DEF AdminAdmitted
<1>3. ASSUME NEW r \in Run, RunStep(r)
      PROVE  OwnerMoved
  BY <1>3, RunStepFrame DEF cols, OwnerMoved
<1>4. ASSUME NEW S \in SUBSET Thread, Erase(S)
      PROVE  OwnerMoved
  BY <1>4 DEF Erase, OwnerMoved
<1>5. ASSUME NEW t \in Thread, NEW c \in Writer \cup Admin, DeleteSession(c, t)
      PROVE  OwnerMoved
  BY <1>4, <1>5 DEF DeleteSession
<1>6. CASE Cleanup
  BY <1>4, <1>6 DEF Cleanup, Expired
<1>7. CASE Restart \/ Tick \/ UNCHANGED vars
  BY <1>7 DEF Restart, Tick, vars, cols, OwnerMoved
<1> QED  BY <1>1, <1>2, <1>3, <1>5, <1>6, <1>7 DEF Next

\* While a row exists its owner is the one first written, over every touch,
\* deletion and expiry of every session.
THEOREM OwnerStable == Spec => OwnerIsStable
<1>1. IInv /\ [Next]_vars =>
        [\A t \in Thread :
           owner[t] # NoRow /\ owner'[t] # NoRow => owner'[t] = owner[t]]_owner
  BY OwnerMoves DEF IInv, ShapeOK, OwnerMoved
<1> QED  BY <1>1, InductiveInvariant, PTL DEF Spec, OwnerIsStable
-----------------------------------------------------------------------------
(* Sessions implements SessionOwnership.                                   *)

Served == {<<r, client[r], thread[r]>> : r \in Admitted}

\* Passing the gate serves the request.
LEMMA BeginServes ==
  ASSUME ShapeOK, NEW r \in Run, NEW c, NEW t, Begin(r, c, t)
  PROVE  /\ \A s \in Served : s[1] # r
         /\ Served' = Served \cup {<<r, c, t>>}
<1>1. r \notin Admitted /\ Admitted' = Admitted \cup {r}
  BY BeginAdmits
<1>2. \A q \in Admitted : client'[q] = client[q] /\ thread'[q] = thread[q]
  BY <1>1, BeginAdmits DEF Admitted, ShapeOK
<1>3. client'[r] = c /\ thread'[r] = t
  BY BeginAdmits DEF ShapeOK
<1> QED  BY <1>1, <1>2, <1>3 DEF Served

\* Touching a row takes the thread, or leaves its holder.
LEMMA TouchTakes ==
  ASSUME ShapeOK, NEW t \in Thread, NEW c,
         Claim(t, c) \/ Touch(t, c) \/ UNCHANGED cols
  PROVE  Ownership!Take(t, c) \/ UNCHANGED owner
<1>1. CASE owner[t] = NoRow
  BY <1>1 DEF Claim, Touch, TouchedOwner, cols, Ownership!Take
<1>2. CASE owner[t] # NoRow
  BY <1>2 DEF ShapeOK, Claim, Touch, TouchedOwner, cols
<1> QED  BY <1>1, <1>2

\* Every step of the session layer is a step of the ownership it promises, or
\* none.
LEMMA RefinementStep ==
  ASSUME ShapeOK, [Next]_vars
  PROVE  [Ownership!OwnershipNext]_(Ownership!ownershipVars)
<1> DEFINE Moves == Ownership!OwnershipNext \/ UNCHANGED <<owner, Served>>
<1> SUFFICES Moves
  BY DEF Ownership!ownershipVars, Served
<1>1. ASSUME NEW r \in Run, NEW t \in Thread, NEW c \in User, Begin(r, c, t),
             Ownership!Take(t, c) \/ UNCHANGED owner,
             c \in Admin \/ owner'[t] = c
      PROVE  Moves
  <2>1. Ownership!Serve(r, c, t)
    BY <1>1, BeginServes DEF Ownership!Serve, Served
  <2> QED  BY <2>1 DEF Ownership!OwnershipNext, User
<1>2. ASSUME NEW r \in Run, NEW t \in Thread, NEW c \in Client, ChatAdmitted(r, c, t)
      PROVE  Moves
  <2>1. owner'[t] = c
    BY <1>2 DEF ChatAdmitted, Claim, ShapeOK
  <2> QED  BY <1>1, <1>2, <2>1, TouchTakes DEF ChatAdmitted, User
<1>3. ASSUME NEW r \in Run, NEW t \in Thread, NEW c \in Admin, AdminAdmitted(r, c, t)
      PROVE  Moves
  BY <1>1, <1>3, TouchTakes DEF AdminAdmitted, User
<1>4. ASSUME NEW r \in Run, NEW t \in Thread, NEW c \in Client,
             ChatRefused(r, c, t) \/ ChatUnavailable(r, c, t)
      PROVE  Moves
  <2>1. Reject(r) /\ (Claim(t, c) \/ UNCHANGED cols)
    BY <1>4 DEF ChatRefused, ChatUnavailable
  <2>2. UNCHANGED Served
    BY <2>1, RejectFrame DEF Served
  <2>3. Ownership!Take(t, c) \/ UNCHANGED owner
    BY <2>1, TouchTakes
  <2> QED  BY <2>2, <2>3 DEF Ownership!OwnershipNext, Ownership!TakeOnly, Served, User
<1>5. ASSUME NEW r \in Run, RunStep(r)
      PROVE  Moves
  BY <1>5, RunStepFrame DEF cols, Served
<1>6. ASSUME NEW S \in SUBSET Thread, Erase(S), UNCHANGED reqs
      PROVE  Moves
  <2>1. UNCHANGED Served
    BY <1>6 DEF Served, Admitted, reqs
  <2>2. Ownership!Release(S)
    BY <1>6, <2>1 DEF Erase, Ownership!Release, Served
  <2> QED  BY <2>2 DEF Ownership!OwnershipNext
<1>7. ASSUME NEW t \in Thread, NEW c \in Writer \cup Admin, DeleteSession(c, t)
      PROVE  Moves
  BY <1>6, <1>7 DEF DeleteSession
<1>8. CASE Cleanup
  BY <1>6, <1>8 DEF Cleanup, Expired
<1>9. CASE Restart
  BY <1>9, RestartFrame DEF cols, Served
<1>10. CASE Tick \/ UNCHANGED vars
  BY <1>10 DEF Tick, vars, cols, reqs, Served, Admitted
<1> QED  BY <1>2, <1>3, <1>4, <1>5, <1>7, <1>8, <1>9, <1>10 DEF Next

\* The tables, locks, transactions and runs of the session layer implement the
\* ownership it promises its callers.
THEOREM Refinement == Spec => ImplementsOwnership
<1>1. Init => Ownership!OwnershipInit
  BY DEF Init, Ownership!OwnershipInit, Admitted
<1>2. IInv /\ [Next]_vars => [Ownership!OwnershipNext]_(Ownership!ownershipVars)
  BY RefinementStep DEF IInv
<1> QED
  BY <1>1, <1>2, InductiveInvariant, PTL
     DEF Spec, ImplementsOwnership, Ownership!OwnershipSpec
=============================================================================
