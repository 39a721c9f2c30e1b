-------------------------- MODULE DeliveryProofs ---------------------------
(***************************************************************************)
(* Proofs about module Delivery, for every number of calls, mailboxes and  *)
(* attempts.                                                               *)
(***************************************************************************)
EXTENDS Delivery, TLAPS

\* What holds of a call with job j, got g and flying f: it is busy only while it
\* has attempts left.
CallOK(j, g, f) ==
  /\ j.at = "over" <=> j.said # "nothing"
  /\ j.at = "idle" => j.tried = 0
  /\ j.at \in {"trying", "waiting"} => j.tried < MaxAttempts
  /\ \A r \in To : IF r \in j.to THEN g[r] + f[r] <= j.tried ELSE g[r] + f[r] = 0
  /\ j.said = "ok" => \E r \in j.to : g[r] > 0

\* The inductive invariant.
IInv ==
  /\ job \in [Call -> Job]
  /\ got \in [Call -> [To -> Nat]] /\ flying \in [Call -> [To -> Nat]]
  /\ retries \in Nat
  /\ \A c \in Call : CallOK(job[c], got[c], flying[c])
-----------------------------------------------------------------------------
LEMMA IdleJob == Idle \in Job /\ Idle.at = "idle" /\ Idle.to = {} /\ Idle.tried = 0 /\ Idle.said = "nothing"
  BY DeliveryAssumption DEF Idle, Job

\* Plus counts once more for each member of S.
LEMMA PlusCounts ==
  ASSUME NEW f \in [To -> Nat], NEW S \in SUBSET To
  PROVE  /\ Plus(f, S) \in [To -> Nat]
         /\ \A r \in To : Plus(f, S)[r] = IF r \in S THEN f[r] + 1 ELSE f[r]
  BY DEF Plus

LEMMA InitInv == Init => IInv
<1> SUFFICES ASSUME Init PROVE IInv
  OBVIOUS
<1>1. Nowhere \in [To -> Nat] /\ \A r \in To : Nowhere[r] = 0
  BY DEF Nowhere
<1>2. CallOK(Idle, Nowhere, Nowhere)
  BY <1>1, IdleJob DEF CallOK
<1> QED
  BY <1>1, <1>2, IdleJob DEF Init, IInv

\* A step of one call that leaves it in order leaves all in order.
LEMMA OneCall ==
  ASSUME IInv, NEW c \in Call, NEW j \in Job, NEW g \in [To -> Nat], NEW f \in [To -> Nat],
         CallOK(j, g, f),
         job' = [job EXCEPT ![c] = j], got' = [got EXCEPT ![c] = g],
         flying' = [flying EXCEPT ![c] = f], retries' \in Nat
  PROVE  IInv'
<1>1. /\ job' \in [Call -> Job] /\ got' \in [Call -> [To -> Nat]]
      /\ flying' \in [Call -> [To -> Nat]]
  BY DEF IInv
<1>2. ASSUME NEW d \in Call
      PROVE  CallOK(job'[d], got'[d], flying'[d])
  <2>1. CASE d = c
    BY <2>1 DEF IInv
  <2>2. CASE d # c
    <3>1. job'[d] = job[d] /\ got'[d] = got[d] /\ flying'[d] = flying[d]
      BY <2>2 DEF IInv
    <3> QED
      BY <3>1 DEF IInv
  <2> QED
    BY <2>1, <2>2
<1> QED
  BY <1>1, <1>2 DEF IInv, CallOK

\* A call that has not begun may begin, or be rejected.
LEMMA BeginStep ==
  ASSUME IInv, NEW c \in Call,
         StartNotify(c) \/ (\E S \in SUBSET To : StartEmail(c, S))
           \/ (\E kind \in {"email", "wecom"} : Reject(c, kind))
  PROVE  IInv'
<1>1. /\ job[c] \in Job /\ got[c] \in [To -> Nat] /\ flying[c] \in [To -> Nat]
      /\ CallOK(job[c], got[c], flying[c])
      /\ got' = [got EXCEPT ![c] = got[c]] /\ flying' = [flying EXCEPT ![c] = flying[c]]
      /\ retries' \in Nat
  BY DEF IInv, StartNotify, StartEmail, Reject
<1>2. PICK j \in Job : /\ job' = [job EXCEPT ![c] = j]
                       /\ j.tried = 0
                       /\ \/ j.at = "trying" /\ j.said = "nothing"
                          \/ j.at = "over" /\ j.said = "failed"
  <2>1. CASE StartNotify(c)
    <3> DEFINE j == [Idle EXCEPT !.kind = "wecom", !.at = "trying", !.to = {Group}]
    <3>1. j \in Job /\ j.tried = 0 /\ j.at = "trying" /\ j.said = "nothing"
      BY IdleJob, DeliveryAssumption DEF Idle, Job
    <3> QED
      BY <2>1, <3>1 DEF StartNotify
  <2>2. ASSUME NEW S \in SUBSET To, StartEmail(c, S)
        PROVE  \E j \in Job : /\ job' = [job EXCEPT ![c] = j]
                              /\ j.tried = 0
                              /\ \/ j.at = "trying" /\ j.said = "nothing"
                                 \/ j.at = "over" /\ j.said = "failed"
    <3> DEFINE j == [Idle EXCEPT !.kind = "email", !.at = "trying", !.to = S]
    <3>1. j \in Job /\ j.tried = 0 /\ j.at = "trying" /\ j.said = "nothing"
      BY IdleJob, DeliveryAssumption DEF Idle, Job
    <3> QED
      BY <2>2, <3>1 DEF StartEmail
  <2>3. ASSUME NEW kind \in {"email", "wecom"}, Reject(c, kind)
        PROVE  \E j \in Job : /\ job' = [job EXCEPT ![c] = j]
                              /\ j.tried = 0
                              /\ \/ j.at = "trying" /\ j.said = "nothing"
                                 \/ j.at = "over" /\ j.said = "failed"
    <3> DEFINE j == [Idle EXCEPT !.kind = kind, !.at = "over", !.said = "failed"]
    <3>1. j \in Job /\ j.tried = 0 /\ j.at = "over" /\ j.said = "failed"
      BY IdleJob, DeliveryAssumption DEF Idle, Job
    <3> QED
      BY <2>3, <3>1 DEF Reject
  <2> QED
    BY <2>1, <2>2, <2>3
<1>3. job[c].at = "idle"
  BY DEF StartNotify, StartEmail, Reject
<1>4. ASSUME NEW r \in To
      PROVE  got[c][r] + flying[c][r] = 0
  <2>1. /\ job[c].tried = 0
        /\ IF r \in job[c].to THEN got[c][r] + flying[c][r] <= job[c].tried
           ELSE got[c][r] + flying[c][r] = 0
    BY <1>1, <1>3 DEF CallOK
  <2>2. got[c][r] \in Nat /\ flying[c][r] \in Nat
    BY <1>1
  <2> QED
    BY <2>1, <2>2
<1>5. CallOK(j, got[c], flying[c])
  BY <1>1, <1>2, <1>4, DeliveryAssumption DEF CallOK
<1> QED
  BY <1>1, <1>2, <1>5, OneCall

\* An attempt of c ends with job j, and copies reach S or set out for T.
LEMMA AttemptEnds ==
  ASSUME IInv, NEW c \in Call, job[c].at = "trying",
         NEW j \in Job, j.to = job[c].to, j.tried = job[c].tried + 1,
         \/ j.at = "over" /\ j.said # "nothing"
         \/ j.at = "waiting" /\ j.said = "nothing" /\ j.tried < MaxAttempts,
         NEW S \in SUBSET job[c].to, NEW T \in SUBSET job[c].to, S = {} \/ T = {},
         j.said = "ok" => S # {},
         job' = [job EXCEPT ![c] = j],
         got' = [got EXCEPT ![c] = Plus(got[c], S)],
         flying' = [flying EXCEPT ![c] = Plus(flying[c], T)],
         retries' \in Nat
  PROVE  IInv'
<1> DEFINE g == Plus(got[c], S)
           f == Plus(flying[c], T)
<1>1. /\ job[c] \in Job /\ got[c] \in [To -> Nat] /\ flying[c] \in [To -> Nat]
      /\ CallOK(job[c], got[c], flying[c])
  BY DEF IInv
<1>2. S \in SUBSET To /\ T \in SUBSET To
  BY <1>1 DEF Job
<1>3. /\ g \in [To -> Nat] /\ f \in [To -> Nat]
      /\ \A r \in To : g[r] = IF r \in S THEN got[c][r] + 1 ELSE got[c][r]
      /\ \A r \in To : f[r] = IF r \in T THEN flying[c][r] + 1 ELSE flying[c][r]
  BY <1>1, <1>2, PlusCounts
<1> HIDE DEF g, f
<1>4. \A r \in To : IF r \in j.to THEN g[r] + f[r] <= j.tried ELSE g[r] + f[r] = 0
  <2> SUFFICES ASSUME NEW r \in To
               PROVE  IF r \in j.to THEN g[r] + f[r] <= j.tried ELSE g[r] + f[r] = 0
    OBVIOUS
  <2>1. /\ got[c][r] \in Nat /\ flying[c][r] \in Nat /\ job[c].tried \in Nat
        /\ IF r \in job[c].to THEN got[c][r] + flying[c][r] <= job[c].tried
           ELSE got[c][r] + flying[c][r] = 0
    BY <1>1, DeliveryAssumption DEF CallOK, Job
  <2>2. CASE r \in job[c].to
    <3>1. g[r] + f[r] <= got[c][r] + flying[c][r] + 1
      BY <1>3, <2>1
    <3> QED
      BY <1>3, <2>1, <2>2, <3>1
  <2>3. CASE r \notin job[c].to
    <3>1. g[r] = got[c][r] /\ f[r] = flying[c][r]
      BY <1>3, <2>3
    <3> QED
      BY <2>1, <2>3, <3>1
  <2> QED
    BY <2>2, <2>3
<1>5. j.said = "ok" => \E r \in j.to : g[r] > 0
  <2> SUFFICES ASSUME j.said = "ok" PROVE \E r \in j.to : g[r] > 0
    OBVIOUS
  <2>1. PICK r \in S : TRUE
    OBVIOUS
  <2>2. r \in To /\ got[c][r] \in Nat /\ g[r] = got[c][r] + 1
    BY <1>1, <1>2, <1>3, <2>1
  <2> QED
    BY <2>1, <2>2
<1>6. CallOK(j, g, f)
  BY <1>4, <1>5 DEF CallOK
<1>7. got' = [got EXCEPT ![c] = g] /\ flying' = [flying EXCEPT ![c] = f]
  BY DEF g, f
<1> QED
  BY <1>3, <1>6, <1>7, OneCall

\* Nothing sets out, nothing arrives.
LEMMA PlusNobody ==
  ASSUME NEW f \in [To -> Nat]
  PROVE  Plus(f, {}) = f
  BY DEF Plus

\* What the records of an ending attempt hold.
LEMMA OverFields ==
  ASSUME IInv, NEW c \in Call, job[c].at = "trying",
         NEW word \in {"ok", "failed", "dead"}
  PROVE  /\ Over(c, word) \in Job
         /\ Over(c, word).to = job[c].to /\ Over(c, word).tried = job[c].tried + 1
         /\ Over(c, word).at = "over" /\ Over(c, word).said = word
<1>1. job[c] \in Job /\ job[c].tried + 1 \in 0..MaxAttempts
  BY DeliveryAssumption DEF IInv, CallOK, Job
<1> QED
  BY <1>1 DEF Over, Job

LEMMA AttemptStep ==
  ASSUME IInv, NEW c \in Call, Attempt(c)
  PROVE  IInv'
<1>1. /\ job[c].at = "trying"
      /\ got[c] \in [To -> Nat] /\ flying[c] \in [To -> Nat]
      /\ Plus(got[c], {}) = got[c] /\ Plus(flying[c], {}) = flying[c]
      /\ got = [got EXCEPT ![c] = got[c]] /\ flying = [flying EXCEPT ![c] = flying[c]]
      /\ retries \in Nat
  BY PlusNobody DEF IInv, Attempt, Accepted, Refused, Fails
<1>2. CASE Accepted(c)
  <2>1. PICK S \in (SUBSET job[c].to) \ {{}} : got' = [got EXCEPT ![c] = Plus(got[c], S)]
    BY <1>2 DEF Accepted
  <2>2. /\ job' = [job EXCEPT ![c] = Over(c, "ok")] /\ retries' = retries
        /\ flying' = [flying EXCEPT ![c] = Plus(flying[c], {})]
    BY <1>1, <1>2 DEF Accepted
  <2>3. {} \in SUBSET job[c].to
    OBVIOUS
  <2>4. /\ Over(c, "ok") \in Job
        /\ Over(c, "ok").to = job[c].to /\ Over(c, "ok").tried = job[c].tried + 1
        /\ Over(c, "ok").at = "over" /\ Over(c, "ok").said = "ok"
    BY <1>1, OverFields
  <2> QED
    BY <1>1, <2>1, <2>2, <2>3, <2>4, AttemptEnds
<1>3. CASE Refused(c)
  <2>1. PICK T \in SUBSET job[c].to : flying' = [flying EXCEPT ![c] = Plus(flying[c], T)]
    BY <1>3 DEF Refused
  <2>2. /\ job' = [job EXCEPT ![c] = Over(c, "failed")] /\ retries' = retries
        /\ got' = [got EXCEPT ![c] = Plus(got[c], {})]
    BY <1>1, <1>3 DEF Refused
  <2>3. {} \in SUBSET job[c].to
    OBVIOUS
  <2>4. /\ Over(c, "failed") \in Job
        /\ Over(c, "failed").to = job[c].to /\ Over(c, "failed").tried = job[c].tried + 1
        /\ Over(c, "failed").at = "over" /\ Over(c, "failed").said = "failed"
    BY <1>1, OverFields
  <2> QED
    BY <1>1, <2>1, <2>2, <2>3, <2>4, AttemptEnds
<1>4. CASE Fails(c)
  <2>1. PICK T \in SUBSET job[c].to : flying' = [flying EXCEPT ![c] = Plus(flying[c], T)]
    BY <1>4 DEF Fails
  <2>2. /\ job' = [job EXCEPT ![c] = AfterFailure(c)] /\ retries' \in Nat
        /\ got' = [got EXCEPT ![c] = Plus(got[c], {})]
    BY <1>1, <1>4 DEF Fails
  <2>3. {} \in SUBSET job[c].to
    OBVIOUS
  <2>4. /\ AfterFailure(c) \in Job
        /\ AfterFailure(c).to = job[c].to /\ AfterFailure(c).tried = job[c].tried + 1
        /\ \/ AfterFailure(c).at = "over" /\ AfterFailure(c).said = "failed"
           \/ /\ AfterFailure(c).at = "waiting" /\ AfterFailure(c).said = "nothing"
              /\ AfterFailure(c).tried < MaxAttempts
    <3>1. CASE job[c].tried + 1 < MaxAttempts
      <4>1. AfterFailure(c) = [job[c] EXCEPT !.at = "waiting", !.tried = job[c].tried + 1]
        BY <3>1 DEF AfterFailure
      <4>2. job[c] \in Job /\ job[c].said = "nothing" /\ job[c].tried + 1 \in 0..MaxAttempts
        BY <1>1, DeliveryAssumption DEF IInv, CallOK, Job
      <4> QED
        BY <3>1, <4>1, <4>2 DEF Job
    <3>2. CASE ~(job[c].tried + 1 < MaxAttempts)
      <4>1. AfterFailure(c) = Over(c, "failed")
        BY <3>2 DEF AfterFailure
      <4> QED
        BY <1>1, <4>1, OverFields
    <3> QED
      BY <3>1, <3>2
  <2> QED
    BY <1>1, <2>1, <2>2, <2>3, <2>4, AttemptEnds
<1> QED
  BY <1>2, <1>3, <1>4 DEF Attempt

LEMMA TryAgainStep ==
  ASSUME IInv, NEW c \in Call, TryAgain(c)
  PROVE  IInv'
<1> DEFINE j == [job[c] EXCEPT !.at = "trying"]
<1>1. /\ job[c] \in Job /\ job[c].at = "waiting"
      /\ got[c] \in [To -> Nat] /\ flying[c] \in [To -> Nat]
      /\ CallOK(job[c], got[c], flying[c])
      /\ got' = [got EXCEPT ![c] = got[c]] /\ flying' = [flying EXCEPT ![c] = flying[c]]
      /\ retries' \in Nat
  BY DEF IInv, TryAgain
<1>2. /\ j \in Job /\ j.at = "trying" /\ j.to = job[c].to
      /\ j.tried = job[c].tried /\ j.said = job[c].said
  BY <1>1 DEF Job
<1>3. job' = [job EXCEPT ![c] = j]
  BY DEF TryAgain
<1> HIDE DEF j
<1>4. CallOK(j, got[c], flying[c])
  BY <1>1, <1>2 DEF CallOK
<1> QED
  BY <1>1, <1>2, <1>3, <1>4, OneCall

\* A copy leaves the air, and reaches r or does not.
LEMMA CopyStep ==
  ASSUME IInv, NEW c \in Call, NEW r \in To, Land(c, r) \/ Lose(c, r)
  PROVE  IInv'
<1> DEFINE f == [flying[c] EXCEPT ![r] = flying[c][r] - 1]
<1>1. /\ job[c] \in Job /\ got[c] \in [To -> Nat] /\ flying[c] \in [To -> Nat]
      /\ CallOK(job[c], got[c], flying[c])
      /\ job = [job EXCEPT ![c] = job[c]] /\ retries \in Nat
      /\ got = [got EXCEPT ![c] = got[c]]
  BY DEF IInv
<1>7. /\ flying[c][r] > 0 /\ flying' = [flying EXCEPT ![c] = f]
      /\ job' = job /\ retries' = retries
  <2>1. CASE Land(c, r)
    BY <2>1 DEF Land, IInv
  <2>2. CASE Lose(c, r)
    BY <2>2 DEF Lose, IInv
  <2> QED
    BY <2>1, <2>2
<1>2. f \in [To -> Nat] /\ \A s \in To : f[s] = IF s = r THEN flying[c][r] - 1 ELSE flying[c][s]
  BY <1>1, <1>7
<1> HIDE DEF f
<1>3. PICK g \in [To -> Nat] :
        /\ got' = [got EXCEPT ![c] = g]
        /\ \A s \in To : got[c][s] <= g[s] /\ g[s] <= got[c][s] + (IF s = r THEN 1 ELSE 0)
  <2>1. CASE Land(c, r)
    <3>1. /\ Plus(got[c], {r}) \in [To -> Nat]
          /\ \A s \in To : Plus(got[c], {r})[s] = IF s \in {r} THEN got[c][s] + 1 ELSE got[c][s]
      BY <1>1, PlusCounts
    <3>2. got' = [got EXCEPT ![c] = Plus(got[c], {r})]
      BY <2>1 DEF Land
    <3>3. \A s \in To : got[c][s] \in Nat
      BY <1>1
    <3> HIDE DEF Plus
    <3>4. \A s \in To : /\ got[c][s] <= Plus(got[c], {r})[s]
                       /\ Plus(got[c], {r})[s] <= got[c][s] + (IF s = r THEN 1 ELSE 0)
      BY <3>1, <3>3
    <3> QED
      BY <3>1, <3>2, <3>4
  <2>2. CASE Lose(c, r)
    <3>1. got' = [got EXCEPT ![c] = got[c]]
      BY <1>1, <2>2 DEF Lose
    <3>2. \A s \in To : got[c][s] <= got[c][s] /\ got[c][s] <= got[c][s] + (IF s = r THEN 1 ELSE 0)
      BY <1>1
    <3> QED
      BY <1>1, <3>1, <3>2
  <2> QED
    BY <2>1, <2>2
<1>4. \A s \in To : IF s \in job[c].to THEN g[s] + f[s] <= job[c].tried ELSE g[s] + f[s] = 0
  <2> SUFFICES ASSUME NEW s \in To
               PROVE  IF s \in job[c].to THEN g[s] + f[s] <= job[c].tried ELSE g[s] + f[s] = 0
    OBVIOUS
  <2>1. /\ got[c][s] \in Nat /\ flying[c][s] \in Nat /\ job[c].tried \in Nat
        /\ g[s] \in Nat /\ f[s] \in Nat
        /\ IF s \in job[c].to THEN got[c][s] + flying[c][s] <= job[c].tried
           ELSE got[c][s] + flying[c][s] = 0
    BY <1>1, <1>2, DeliveryAssumption DEF CallOK, Job
  <2> QED
    BY <1>1, <1>2, <1>3, <2>1
<1>5. job[c].said = "ok" => \E s \in job[c].to : g[s] > 0
  <2> SUFFICES ASSUME job[c].said = "ok" PROVE \E s \in job[c].to : g[s] > 0
    OBVIOUS
  <2>1. PICK s \in job[c].to : got[c][s] > 0
    BY <1>1 DEF CallOK
  <2>2. s \in To /\ g[s] \in Nat /\ got[c][s] \in Nat
    BY <1>1, <2>1 DEF Job
  <2> QED
    BY <1>3, <2>1, <2>2
<1>6. CallOK(job[c], g, f)
  BY <1>1, <1>4, <1>5 DEF CallOK
<1> QED
  BY <1>1, <1>2, <1>3, <1>6, <1>7, OneCall

\* A restart ends every attempt under way, as if it had failed.
LEMMA RestartStep ==
  ASSUME IInv, Restart
  PROVE  IInv'
<1>1. PICK sent \in [Call -> SUBSET To] :
        /\ \A c \in Call : sent[c] \subseteq (IF job[c].at = "trying" THEN job[c].to ELSE {})
        /\ flying' = [c \in Call |-> Plus(flying[c], sent[c])]
  BY DEF Restart
<1>2. got' = got /\ retries' = 0
  BY DEF Restart
<1>3. ASSUME NEW c \in Call
      PROVE  /\ job'[c] \in Job /\ flying'[c] \in [To -> Nat]
             /\ CallOK(job'[c], got'[c], flying'[c])
  <2>1. /\ job[c] \in Job /\ got[c] \in [To -> Nat] /\ flying[c] \in [To -> Nat]
        /\ CallOK(job[c], got[c], flying[c])
    BY DEF IInv
  <2>2. /\ flying'[c] \in [To -> Nat]
        /\ \A r \in To : flying'[c][r] = IF r \in sent[c] THEN flying[c][r] + 1 ELSE flying[c][r]
    <3>1. flying'[c] = Plus(flying[c], sent[c]) /\ sent[c] \in SUBSET To
      BY <1>1
    <3> QED
      BY <2>1, <3>1, PlusCounts
  <2>3. CASE job[c].at = "trying"
    <3>1. /\ job'[c] = Over(c, "dead") /\ sent[c] \subseteq job[c].to
          /\ got'[c] = got[c]
      BY <1>1, <1>2, <2>3 DEF Restart
    <3>2. /\ Over(c, "dead") \in Job
          /\ Over(c, "dead").to = job[c].to /\ Over(c, "dead").tried = job[c].tried + 1
          /\ Over(c, "dead").at = "over" /\ Over(c, "dead").said = "dead"
      BY <2>3, OverFields
    <3>3. ASSUME NEW r \in To
          PROVE  IF r \in job[c].to THEN got[c][r] + flying'[c][r] <= job[c].tried + 1
                 ELSE got[c][r] + flying'[c][r] = 0
      <4>1. /\ got[c][r] \in Nat /\ flying[c][r] \in Nat /\ job[c].tried \in Nat
            /\ IF r \in job[c].to THEN got[c][r] + flying[c][r] <= job[c].tried
               ELSE got[c][r] + flying[c][r] = 0
        BY <2>1, DeliveryAssumption DEF CallOK, Job
      <4>2. CASE r \in job[c].to
        BY <2>2, <4>1, <4>2
      <4>3. CASE r \notin job[c].to
        <5>1. flying'[c][r] = flying[c][r]
          BY <2>2, <3>1, <4>3
        <5> QED
          BY <4>1, <4>3, <5>1
      <4> QED
        BY <4>2, <4>3
    <3> QED
      BY <2>2, <3>1, <3>2, <3>3 DEF CallOK
  <2>4. CASE job[c].at # "trying"
    <3>1. sent[c] = {}
      BY <1>1, <2>4
    <3>2. flying'[c] = flying[c] /\ got'[c] = got[c]
      BY <1>1, <1>2, <2>1, <3>1, PlusNobody
    <3>3. CASE Busy(c)
      <4>1. job'[c] = [job[c] EXCEPT !.at = "over", !.said = "dead"]
        BY <2>4, <3>3 DEF Restart
      <4>2. /\ job'[c] \in Job /\ job'[c].at = "over" /\ job'[c].said = "dead"
            /\ job'[c].to = job[c].to /\ job'[c].tried = job[c].tried
        BY <2>1, <4>1 DEF Job
      <4> QED
        BY <2>1, <3>2, <4>2 DEF CallOK
    <3>4. CASE ~Busy(c)
      <4>1. job'[c] = job[c]
        BY <2>4, <3>4 DEF Restart
      <4> QED
        BY <2>1, <3>2, <4>1
    <3> QED
      BY <3>3, <3>4
  <2> QED
    BY <2>3, <2>4
<1>4. /\ job' = [c \in Call |-> job'[c]] /\ flying' = [c \in Call |-> flying'[c]]
      /\ got' \in [Call -> [To -> Nat]]
  BY <1>1, <1>2 DEF Restart, IInv
<1>5. job' \in [Call -> Job] /\ flying' \in [Call -> [To -> Nat]]
  BY <1>3, <1>4
<1> QED
  BY <1>2, <1>3, <1>4, <1>5 DEF IInv

LEMMA NextInv ==
  ASSUME IInv, [Next]_vars
  PROVE  IInv'
<1>1. ASSUME NEW c \in Call,
             \/ StartNotify(c) \/ (\E S \in SUBSET To : StartEmail(c, S))
             \/ \E kind \in {"email", "wecom"} : Reject(c, kind)
      PROVE  IInv'
  BY <1>1, BeginStep
<1>2. ASSUME NEW c \in Call, Attempt(c)
      PROVE  IInv'
  BY <1>2, AttemptStep
<1>3. ASSUME NEW c \in Call, TryAgain(c)
      PROVE  IInv'
  BY <1>3, TryAgainStep
<1>4. ASSUME NEW c \in Call, NEW r \in To, Land(c, r) \/ Lose(c, r)
      PROVE  IInv'
  BY <1>4, CopyStep
<1>5. CASE Restart
  BY <1>5, RestartStep
<1>6. CASE UNCHANGED vars
  BY <1>6 DEF vars, IInv, CallOK
<1> QED
  BY <1>1, <1>2, <1>3, <1>4, <1>5, <1>6 DEF Next

\* Every reachable state satisfies the inductive invariant.
THEOREM InductiveInvariant == Spec => []IInv
<1>1. Init => IInv
  BY InitInv
<1>2. IInv /\ [Next]_vars => IInv'
  BY NextInv
<1> QED
  BY <1>1, <1>2, PTL DEF Spec

\* Type correctness, for every number of calls, mailboxes and attempts.
THEOREM TypeCorrect == Spec => []TypeOK
<1>1. IInv => TypeOK
  BY DEF IInv, TypeOK, CallOK
<1> QED
  BY <1>1, InductiveInvariant, PTL

\* No mailbox gets more copies than attempts were made, whatever the network
\* does with requests and answers and whenever the process restarts
\* (retry_on_error around the integrations' sends).
THEOREM CopiesBounded == Spec => []CopiesAreBounded
<1>1. IInv => CopiesAreBounded
  BY DEF IInv, CopiesAreBounded, CallOK
<1> QED
  BY <1>1, InductiveInvariant, PTL

\* What the tools say they sent has reached somebody.
THEOREM SentHasArrived == Spec => []SentReachedSomebody
<1>1. IInv => SentReachedSomebody
  BY DEF IInv, SentReachedSomebody, CallOK
<1> QED
  BY <1>1, InductiveInvariant, PTL
-----------------------------------------------------------------------------
(* Delivery implements DeliveryPromise.                                    *)

\* A step of c that leaves what c said alone leaves what all said alone.
LEMMA SaidNothing ==
  ASSUME IInv, NEW c \in Call, NEW j \in Job, job' = [job EXCEPT ![c] = j],
         j.said = job[c].said
  PROVE  [d \in Call |-> job'[d].said] = [d \in Call |-> job[d].said]
<1>1. ASSUME NEW d \in Call
      PROVE  job'[d].said = job[d].said
  BY DEF IInv
<1> QED
  BY <1>1

\* A mailbox that can get one more copy has less than MaxAttempts.
LEMMA RoomForOne ==
  ASSUME IInv, NEW c \in Call, NEW r \in job[c].to,
         job[c].at = "trying" \/ flying[c][r] > 0
  PROVE  r \in To /\ got[c][r] < MaxAttempts
<1>1. /\ job[c] \in Job /\ got[c] \in [To -> Nat] /\ flying[c] \in [To -> Nat]
      /\ CallOK(job[c], got[c], flying[c])
  BY DEF IInv
<1>2. /\ r \in To /\ job[c].tried \in 0..MaxAttempts
  BY <1>1 DEF Job
<1>3. /\ got[c][r] \in Nat /\ flying[c][r] \in Nat
      /\ got[c][r] + flying[c][r] <= job[c].tried
      /\ job[c].at = "trying" => job[c].tried < MaxAttempts
  BY <1>1, <1>2 DEF CallOK
<1> QED
  BY <1>2, <1>3, DeliveryAssumption

\* c has its answer and copies reach S.
LEMMA Answers ==
  ASSUME IInv, NEW c \in Call, job[c].at = "trying" \/ job[c].at = "idle",
         NEW j \in Job, j.said \in {"ok", "failed"}, job' = [job EXCEPT ![c] = j],
         NEW S \in SUBSET job[c].to, S = {} \/ job[c].at = "trying",
         j.said = "ok" => S # {},
         got' = [got EXCEPT ![c] = Plus(got[c], S)]
  PROVE  Promise!Answer(c, j.said)
<1>1. /\ job[c] \in Job /\ got[c] \in [To -> Nat] /\ CallOK(job[c], got[c], flying[c])
      /\ job \in [Call -> Job] /\ got \in [Call -> [To -> Nat]]
  BY DEF IInv
<1>2. job[c].said = "nothing"
  BY <1>1 DEF CallOK, Job
<1>3. S \in SUBSET {r \in To : got[c][r] < MaxAttempts}
  BY RoomForOne
<1>4. got' = [got EXCEPT ![c] = [r \in To |-> IF r \in S THEN got[c][r] + 1 ELSE got[c][r]]]
  BY DEF Plus
<1>5. j.said = "ok" => \E r \in To : got'[c][r] > 0
  <2> SUFFICES ASSUME j.said = "ok" PROVE \E r \in To : got'[c][r] > 0
    OBVIOUS
  <2>1. PICK r \in S : TRUE
    OBVIOUS
  <2>2. r \in To /\ got[c][r] \in Nat /\ got'[c][r] = got[c][r] + 1
    BY <1>1, <1>3, <1>4, <2>1
  <2> QED
    BY <2>2
<1>6. [d \in Call |-> job'[d].said] = [[d \in Call |-> job[d].said] EXCEPT ![c] = j.said]
  <2>1. ASSUME NEW d \in Call
        PROVE  job'[d].said = IF d = c THEN j.said ELSE job[d].said
    BY <1>1
  <2> QED
    BY <2>1
<1> QED
  BY <1>2, <1>3, <1>4, <1>5, <1>6 DEF Promise!Answer

LEMMA PromiseStep ==
  ASSUME IInv, [Next]_vars
  PROVE  [Promise!Next]_(Promise!vars)
<1>1. ASSUME NEW c \in Call
      PROVE  /\ job[c] \in Job /\ got[c] \in [To -> Nat] /\ flying[c] \in [To -> Nat]
             /\ CallOK(job[c], got[c], flying[c])
             /\ got = [got EXCEPT ![c] = Plus(got[c], {})]
  BY PlusNobody DEF IInv
<1>2. ASSUME NEW c \in Call, NEW j \in Job, j.said = job[c].said,
             job' = [job EXCEPT ![c] = j], got' = got
      PROVE  UNCHANGED Promise!vars
  BY <1>2, SaidNothing DEF Promise!vars
<1>3. ASSUME NEW c \in Call, StartNotify(c)
      PROVE  UNCHANGED Promise!vars
  <2> DEFINE j == [Idle EXCEPT !.kind = "wecom", !.at = "trying", !.to = {Group}]
  <2>1. j \in Job /\ j.said = "nothing"
    BY IdleJob, DeliveryAssumption DEF Idle, Job
  <2>2. job[c].said = "nothing" /\ job' = [job EXCEPT ![c] = j] /\ got' = got
    BY <1>1, <1>3 DEF StartNotify, CallOK, Job
  <2> QED
    BY <1>2, <2>1, <2>2
<1>4. ASSUME NEW c \in Call, NEW S \in SUBSET To, StartEmail(c, S)
      PROVE  UNCHANGED Promise!vars
  <2> DEFINE j == [Idle EXCEPT !.kind = "email", !.at = "trying", !.to = S]
  <2>1. j \in Job /\ j.said = "nothing"
    BY IdleJob, DeliveryAssumption DEF Idle, Job
  <2>2. job[c].said = "nothing" /\ job' = [job EXCEPT ![c] = j] /\ got' = got
    BY <1>1, <1>4 DEF StartEmail, CallOK, Job
  <2> QED
    BY <1>2, <2>1, <2>2
<1>5. ASSUME NEW c \in Call, NEW kind \in {"email", "wecom"}, Reject(c, kind)
      PROVE  Promise!Answer(c, "failed")
  <2> DEFINE j == [Idle EXCEPT !.kind = kind, !.at = "over", !.said = "failed"]
  <2>1. j \in Job /\ j.said = "failed"
    BY IdleJob, DeliveryAssumption DEF Idle, Job
  <2>2. /\ job[c].at = "idle" /\ job' = [job EXCEPT ![c] = j]
        /\ got' = [got EXCEPT ![c] = Plus(got[c], {})]
    BY <1>1, <1>5 DEF Reject
  <2> HIDE DEF j
  <2>3. {} \in SUBSET job[c].to
    OBVIOUS
  <2> QED
    BY <2>1, <2>2, <2>3, Answers
<1>6. ASSUME NEW c \in Call, Accepted(c)
      PROVE  Promise!Answer(c, "ok")
  <2>1. PICK S \in (SUBSET job[c].to) \ {{}} : got' = [got EXCEPT ![c] = Plus(got[c], S)]
    BY <1>6 DEF Accepted
  <2>2. job[c].at = "trying" /\ job' = [job EXCEPT ![c] = Over(c, "ok")]
    BY <1>6 DEF Accepted
  <2>3. Over(c, "ok") \in Job /\ Over(c, "ok").said = "ok"
    BY <2>2, OverFields
  <2> QED
    BY <2>1, <2>2, <2>3, Answers
<1>7. ASSUME NEW c \in Call, job[c].at = "trying",
             job' = [job EXCEPT ![c] = Over(c, "failed")], got' = got
      PROVE  Promise!Answer(c, "failed")
  <2>1. Over(c, "failed") \in Job /\ Over(c, "failed").said = "failed"
    BY <1>7, OverFields
  <2>2. got' = [got EXCEPT ![c] = Plus(got[c], {})] /\ {} \in SUBSET job[c].to
    BY <1>1, <1>7
  <2> QED
    BY <1>7, <2>1, <2>2, Answers
<1>8. ASSUME NEW c \in Call, Refused(c)
      PROVE  Promise!Answer(c, "failed")
  BY <1>7, <1>8 DEF Refused
<1>9. ASSUME NEW c \in Call, Fails(c)
      PROVE  Promise!Answer(c, "failed") \/ UNCHANGED Promise!vars
  <2>1. CASE job[c].tried + 1 < MaxAttempts
    <3> DEFINE j == [job[c] EXCEPT !.at = "waiting", !.tried = job[c].tried + 1]
    <3>1. job' = [job EXCEPT ![c] = j] /\ got' = got
      BY <1>9, <2>1 DEF Fails, AfterFailure
    <3>2. job[c] \in Job /\ job[c].tried + 1 \in 0..MaxAttempts
      BY <1>1, <2>1, DeliveryAssumption DEF Job
    <3>3. j \in Job /\ j.said = job[c].said
      BY <3>2 DEF Job
    <3> QED
      BY <1>2, <3>1, <3>3
  <2>2. CASE ~(job[c].tried + 1 < MaxAttempts)
    <3>1. /\ job[c].at = "trying" /\ got' = got
          /\ job' = [job EXCEPT ![c] = Over(c, "failed")]
      BY <1>9, <2>2 DEF Fails, AfterFailure
    <3> QED
      BY <1>7, <3>1
  <2> QED
    BY <2>1, <2>2
<1>10. ASSUME NEW c \in Call, TryAgain(c)
       PROVE  UNCHANGED Promise!vars
  <2> DEFINE j == [job[c] EXCEPT !.at = "trying"]
  <2>1. j \in Job /\ j.said = job[c].said
    BY <1>1 DEF Job
  <2>2. job' = [job EXCEPT ![c] = j] /\ got' = got
    BY <1>10 DEF TryAgain
  <2> QED
    BY <1>2, <2>1, <2>2
<1>11. ASSUME NEW c \in Call, NEW r \in To, Land(c, r)
       PROVE  Promise!Arrive(c)
  <2>1. /\ flying[c][r] > 0 /\ job' = job
        /\ got' = [got EXCEPT ![c] = Plus(got[c], {r})]
    BY <1>11 DEF Land
  <2>2. r \in job[c].to
    <3>1. got[c][r] \in Nat /\ flying[c][r] \in Nat
      BY <1>1
    <3> QED
      BY <1>1, <2>1, <3>1 DEF CallOK
  <2>3. {r} \in SUBSET {s \in To : got[c][s] < MaxAttempts}
    BY <2>1, <2>2, RoomForOne
  <2>4. got' = [got EXCEPT ![c] = [s \in To |-> IF s \in {r} THEN got[c][s] + 1 ELSE got[c][s]]]
    BY <2>1 DEF Plus
  <2> QED
    BY <2>1, <2>3, <2>4 DEF Promise!Arrive
<1>12. ASSUME NEW c \in Call, NEW r \in To, Lose(c, r)
       PROVE  UNCHANGED Promise!vars
  BY <1>12 DEF Lose, Promise!vars
<1>13. ASSUME Restart
       PROVE  Promise!Die
  <2> DEFINE S == {c \in Call : Busy(c)}
             said == [c \in Call |-> job[c].said]
  <2>1. ASSUME NEW c \in Call
        PROVE  /\ job'[c].said = IF c \in S THEN "dead" ELSE job[c].said
               /\ c \in S => job[c].said = "nothing"
    <3>1. CASE job[c].at = "trying"
      <4>1. job'[c] = Over(c, "dead") /\ c \in S
        BY <1>13, <3>1 DEF Restart, Busy
      <4>2. Over(c, "dead").said = "dead"
        BY <3>1, OverFields
      <4> QED
        BY <1>1, <3>1, <4>1, <4>2 DEF CallOK
    <3>2. CASE job[c].at = "waiting"
      <4>1. job'[c] = [job[c] EXCEPT !.at = "over", !.said = "dead"] /\ c \in S
        BY <1>13, <3>2 DEF Restart, Busy
      <4>2. job'[c].said = "dead"
        BY <1>1, <4>1 DEF Job
      <4> QED
        BY <1>1, <3>2, <4>1, <4>2 DEF CallOK
    <3>3. CASE ~Busy(c)
      <4>1. job'[c] = job[c]
        BY <1>13, <3>3 DEF Restart, Busy
      <4> QED
        BY <3>3, <4>1
    <3> QED
      BY <3>1, <3>2, <3>3 DEF Busy
  <2>2. S \in SUBSET {c \in Call : said[c] = "nothing"}
    BY <2>1
  <2>3. [c \in Call |-> job'[c].said] = [c \in Call |-> IF c \in S THEN "dead" ELSE said[c]]
    BY <2>1
  <2>4. got' = got
    BY <1>13 DEF Restart
  <2> QED
    BY <2>2, <2>3, <2>4 DEF Promise!Die
<1>14. CASE UNCHANGED vars
  BY <1>14 DEF vars, Promise!vars
<1> QED
  BY <1>3, <1>4, <1>5, <1>6, <1>8, <1>9, <1>10, <1>11, <1>12, <1>13, <1>14
     DEF Next, Attempt, Promise!Next

\* Delivery implements DeliveryPromise: no mailbox gets more copies than there
\* may be attempts, "ok" is said of nothing that reached nobody, and what was
\* said stays said.
THEOREM Refinement == Spec => KeepsPromise
<1>1. Init => Promise!Init
  <2> SUFFICES ASSUME Init PROVE Promise!Init
    OBVIOUS
  <2>1. got = [c \in Call |-> [r \in To |-> 0]]
    BY DEF Init, Nowhere
  <2>2. [c \in Call |-> job[c].said] = [c \in Call |-> "nothing"]
    BY IdleJob DEF Init
  <2> QED
    BY <2>1, <2>2 DEF Promise!Init
<1>2. IInv /\ [Next]_vars => [Promise!Next]_(Promise!vars)
  BY PromiseStep
<1> QED
  BY <1>1, <1>2, InductiveInvariant, PTL DEF Spec, KeepsPromise, Promise!Spec
=============================================================================
