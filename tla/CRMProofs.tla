----------------------------- MODULE CRMProofs ------------------------------
(***************************************************************************)
(* Proofs about the two halves of CRMClient: module CRM, for any number of *)
(* worker threads, records, numbers and statuses, and module CRMFile.      *)
(***************************************************************************)
EXTENDS CRM, CRMFile, TLAPS, WellFoundedInduction

\* The customer at c is r, or r is gone.
Given(c, r) == r \in gone \/ (r # None /\ WhoHas(c) = r)

\* What an actor has found, or holds ready to add, still fits the book; what it
\* knows of its key holds as long as nobody has changed that.
JobFits(j) ==
  /\ j.op = "add" =>
       /\ \A k \in Key : WhoHas(k) # j.who
       /\ j.key \in Order <=> j.to # None
       /\ j.set \in Text
       /\ ~j.stale => book[j.key] = None
  /\ j.op \in {"update", "archive", "restore", "delete"} /\ ~j.stale => WhoHas(j.key) = j.who
  /\ j.op = "update" /\ j.to # None => j.key \in Order
  /\ j.to # None => Given(j.to, j.buyer)

JobsInv == \A a \in Actor : job[a].op # "none" => job[a].who \in made /\ JobFits(job[a])

\* No record is being added twice.
AddsDiffer ==
  \A a, b \in Actor :
    job[a].op = "add" /\ job[b].op = "add" /\ job[a].who = job[b].who => a = b

\* Records in the book were added, and remember the status they are due.
BookInv ==
  \A k \in Key : book[k] # None =>
    /\ book[k].who \in made
    /\ book[k].before # Blank => book[k].was = book[k].before

\* Who is gone is not in the book, nor about to be added to it.
GoneInv ==
  \A r \in gone :
    /\ \A k \in Key : WhoHas(k) # r
    /\ \A a \in Actor : job[a].op = "add" => job[a].who # r

\* The inductive invariant.
IInv ==
  /\ TypeOK /\ JobsInv /\ AddsDiffer /\ BookInv /\ GoneInv
  /\ NobodyIsLost /\ OrderStaysWithCustomer
-----------------------------------------------------------------------------
LEMMA ConstantFacts ==
  /\ None \notin Record /\ None \notin Text /\ None \notin Key /\ None \notin Item
  /\ None \notin Customer
  /\ Customer \subseteq Key /\ Order \subseteq Key /\ Customer \cap Order = {}
  /\ Archived \in Text /\ Blank \in Text /\ Default \in Text
  /\ AddedAs \subseteq Text /\ Requested \subseteq Text
  /\ <<"customer", 1>> \in Key
  BY CRMAssumption, NoneAssumption DEF Key, Customer, Order, Text

LEMMA WhoFacts ==
  \A k \in Key : WhoHas(k) = IF book[k] = None THEN None ELSE book[k].who
  BY ConstantFacts DEF WhoHas, Held

LEMMA WhoFactsNext ==
  \A k \in Key : WhoHas(k)' = IF book'[k] = None THEN None ELSE book'[k].who
  BY ConstantFacts DEF WhoHas, Held

LEMMA IdleFacts == Idle \in Job /\ Idle.op = "none"
  BY ConstantFacts DEF Idle, Job

\* Type correctness, by keys rather than by what is held.
LEMMA TypeFacts ==
  ASSUME TypeOK
  PROVE  /\ book \in [Key -> Item \cup {None}] /\ job \in [Actor -> Job]
         /\ made \subseteq Record /\ gone \subseteq made
         /\ \A k \in Key : book[k] # None =>
              /\ book[k] \in Item /\ WhoHas(k) = book[k].who /\ WhoHas(k) \in Record
              /\ k \in Order <=> book[k].of # None
         /\ \A k, l \in Key : book[k] # None /\ WhoHas(k) = WhoHas(l) => k = l
<1>1. /\ book \in [Key -> Item \cup {None}] /\ job \in [Actor -> Job]
      /\ made \subseteq Record /\ gone \subseteq made
  BY DEF TypeOK
<1>2. \A k \in Key : book[k] # None =>
        /\ book[k] \in Item /\ WhoHas(k) = book[k].who /\ WhoHas(k) \in Record
        /\ k \in Order <=> book[k].of # None
  <2> SUFFICES ASSUME NEW k \in Key, book[k] # None
               PROVE  /\ book[k] \in Item /\ WhoHas(k) = book[k].who /\ WhoHas(k) \in Record
                      /\ k \in Order <=> book[k].of # None
    OBVIOUS
  <2>1. book[k] \in Item
    BY <1>1
  <2>2. WhoHas(k) = book[k].who
    BY WhoFacts
  <2>3. book[k].who \in Record
    BY <2>1 DEF Item
  <2> QED
    BY <2>1, <2>2, <2>3 DEF TypeOK, Held
<1>3. ASSUME NEW k \in Key, NEW l \in Key, book[k] # None, WhoHas(k) = WhoHas(l)
      PROVE  k = l
  <2>1. book[l] # None
    BY <1>2, <1>3, WhoFacts, ConstantFacts
  <2> QED
    BY <1>3, <2>1 DEF TypeOK, Held
<1> QED
  BY <1>1, <1>2, <1>3
-----------------------------------------------------------------------------
(* The number of a new record.                                             *)

\* A bounded set of numbers that is not empty has a greatest one.
LEMMA GreatestNumber ==
  ASSUME NEW max \in Nat, NEW S \in SUBSET (1..max), S # {}
  PROVE  \E n \in S : \A m \in S : m <= n
<1> DEFINE R == OpToRel(<, Nat)
           T == {max - n : n \in S}
<1>1. ASSUME NEW x \in Nat, NEW y \in Nat, x < y
      PROVE  <<x, y>> \in R
  BY <1>1 DEF OpToRel
<1>2. IsWellFoundedOn(R, Nat)
  BY NatLessThanWellFounded
<1>3. T \subseteq Nat /\ T # {}
  <2>1. \A n \in S : n \in 1..max
    OBVIOUS
  <2>2. \A n \in S : max - n \in Nat
    BY <2>1
  <2> QED
    BY <2>2
<1> HIDE DEF R
<1>4. PICK t \in T : \A u \in T : ~ (<<u, t>> \in R)
  <2> HIDE DEF T
  <2> QED
    BY <1>2, <1>3, WFMin
<1>5. PICK n \in S : t = max - n
  OBVIOUS
<1>6. ASSUME NEW m \in S
      PROVE  m <= n
  <2>1. max - m \in T /\ max - m \in Nat /\ t \in Nat
    BY <1>3
  <2>2. ~ (max - m < t)
    BY <1>1, <1>4, <2>1
  <2> QED
    BY <1>5, <2>1, <2>2
<1> QED
  BY <1>6

\* NextNumber is greater than every number held.
LEMMA NumberIsFree ==
  ASSUME NEW table, NEW max \in Nat, NEW K, K = {table} \X (1..max), K \subseteq Key
  PROVE  /\ <<table, NextNumber(K)>> \notin Held(K)
<1> DEFINE S == {k[2] : k \in Held(K)}
<1>1. CASE Held(K) = {}
  BY <1>1
<1>2. CASE Held(K) # {}
  <2>1. S \subseteq 1..max /\ S # {}
    BY <1>2 DEF Held
  <2>2. PICK n \in S : \A m \in S : m <= n
    <3> HIDE DEF S
    <3> QED
      BY <2>1, GreatestNumber
  <2>3. \A k \in Held(K) : k[2] <= n
    BY <2>2
  <2> DEFINE top == CHOOSE x \in S : \A k \in Held(K) : k[2] <= x
  <2>4. top \in S /\ \A k \in Held(K) : k[2] <= top
    BY <2>2, <2>3
  <2>5. NextNumber(K) = 1 + top
    BY <1>2 DEF NextNumber
  <2> HIDE DEF top
  <2>6. top \in Nat
    <3>1. top \in 1..max
      BY <2>1, <2>4
    <3> QED
      BY <3>1
  <2>7. ~(1 + top <= top)
    BY <2>6
  <2>8. <<table, 1 + top>>[2] = 1 + top
    OBVIOUS
  <2> QED
    BY <2>4, <2>5, <2>7, <2>8
<1> QED
  BY <1>1, <1>2
-----------------------------------------------------------------------------
(* A look: book and gone stay, one actor gets something to do.             *)

LEMMA LookStep ==
  ASSUME IInv, NEW a \in Actor, job[a].op = "none",
         NEW j \in Job, JobFits(j),
         job' = [job EXCEPT ![a] = j], book' = book, gone' = gone,
         made' \in SUBSET Record, made \subseteq made',
         j.op # "none" => j.who \in made',
         j.op = "add" => j.who \notin made,
         \A r \in made' \ made : j.op = "add" /\ j.who = r
  PROVE  IInv'
<1>1. \A b \in Actor : job'[b] = IF b = a THEN j ELSE job[b]
  BY TypeFacts DEF IInv
<1>2. TypeOK'
  <2>1. job' \in [Actor -> Job]
    BY TypeFacts DEF IInv
  <2>2. \A k \in Key : WhoHas(k)' = WhoHas(k)
    BY WhoFacts, WhoFactsNext
  <2>3. Held(Key)' = Held(Key) /\ Held(Key) \subseteq Key
    BY DEF Held
  <2> QED
    BY <2>1, <2>2, <2>3 DEF IInv, TypeOK
<1>3. \A k \in Key : WhoHas(k)' = WhoHas(k)
  BY WhoFacts, WhoFactsNext
<1>4. JobsInv'
  <2> SUFFICES ASSUME NEW b \in Actor, job'[b].op # "none"
               PROVE  job'[b].who \in made' /\ JobFits(job[b])'
    BY DEF JobsInv
  <2>1. PICK i \in Job : i = job'[b]
    BY <1>1, TypeFacts DEF IInv
  <2>2. JobFits(i) /\ i.who \in made'
    BY <1>1, <2>1 DEF IInv, JobsInv
  <2>3. i.op \in {"add", "update", "archive", "restore", "delete"}
    BY <2>1 DEF Job
  <2>4. i.key \in Key /\ i.to \in Customer \cup {None}
    BY <2>1 DEF Job
  <2>5. i.to # None /\ Given(i.to, i.buyer) => Given(i.to, i.buyer)'
    BY <1>3, <2>4, ConstantFacts DEF Given
  <2>6. JobFits(i)'
    BY <1>3, <2>2, <2>4, <2>5 DEF JobFits, Given
  <2> QED
    BY <2>1, <2>2, <2>6 DEF JobFits, Given
<1>5. AddsDiffer'
  BY <1>1 DEF IInv, AddsDiffer, JobsInv
<1>6. BookInv'
  BY DEF IInv, BookInv
<1>7. NobodyIsLost'
  <2> SUFFICES ASSUME NEW r \in made', r \notin gone
               PROVE  \/ \E k \in Key : WhoHas(k)' = r
                      \/ \E b \in Actor : job'[b].op = "add" /\ job'[b].who = r
    BY DEF NobodyIsLost
  <2>1. CASE r \in made
    BY <1>1, <1>3, <2>1 DEF IInv, NobodyIsLost
  <2>2. CASE r \notin made
    BY <1>1, <2>2
  <2> QED
    BY <2>1, <2>2
<1>8. OrderStaysWithCustomer'
  <2>1. \A k \in Order : book[k] # None => book[k].of \in Customer
    BY TypeFacts, ConstantFacts DEF IInv, Item
  <2>2. Held(Order)' = Held(Order)
    BY DEF Held
  <2> QED
    BY <1>3, <2>1, <2>2, ConstantFacts DEF IInv, OrderStaysWithCustomer, Held
<1>9. GoneInv'
  <2>1. \A r \in gone : r \in made
    BY TypeFacts DEF IInv
  <2> QED
    BY <1>1, <1>3, <2>1 DEF IInv, GoneInv
<1> QED
  BY <1>2, <1>4, <1>5, <1>6, <1>7, <1>8, <1>9 DEF IInv
-----------------------------------------------------------------------------
(* A change: the actor's key gets a new item or none, the actor is done.   *)

LEMMA EffectStep ==
  ASSUME IInv, NEW a \in Actor, job[a].op # "none", Done(a),
         NEW N \in Item \cup {None},
         book' = [book EXCEPT ![job[a].key] = N],
         made' = made, gone' \in SUBSET made, gone \subseteq gone',
         gone' \subseteq gone \cup {WhoHas(job[a].key)},
         N # None =>
           /\ N.who \notin gone'
           /\ job[a].key \in Order <=> N.of # None
           /\ N.before # Blank => N.was = N.before
           /\ job[a].key \in Order => Given(N.of, N.buyer)
           /\ N.who = WhoHas(job[a].key) \/ (job[a].op = "add" /\ N.who = job[a].who),
         WhoHas(job[a].key) # None =>
           (N # None /\ N.who = WhoHas(job[a].key)) \/ WhoHas(job[a].key) \in gone',
         job[a].op = "add" => N # None /\ N.who = job[a].who
  PROVE  IInv'
<1>1. PICK key \in Key : key = job[a].key
  BY TypeFacts DEF IInv, Job
<1>2. /\ book' \in [Key -> Item \cup {None}]
      /\ \A k \in Key : book'[k] = IF k = key THEN N ELSE book[k]
  BY <1>1, TypeFacts DEF IInv
<1>3. /\ \A k \in Key : k # key => WhoHas(k)' = WhoHas(k)
      /\ WhoHas(key)' = IF N = None THEN None ELSE N.who
  BY <1>2, WhoFacts, WhoFactsNext
<1>4. job[a].op = "add" =>
        /\ \A k \in Key : WhoHas(k) # job[a].who
        /\ key \in Order <=> job[a].to # None
  BY <1>1 DEF IInv, JobsInv, JobFits
<1>5. job[a].who \in made /\ job[a].who \in Record
  BY TypeFacts DEF IInv, JobsInv
<1>6. N # None => N.who \in Record /\ N \in Item
  BY DEF Item
<1>7. \A c \in Customer : \A r : Given(c, r) => Given(c, r)'
  <2> SUFFICES ASSUME NEW c \in Customer, NEW r, r \notin gone', r # None, WhoHas(c) = r
               PROVE  WhoHas(c)' = r
    BY DEF Given
  <2>1. CASE c = key
    BY <1>1, <1>3, <2>1
  <2>2. CASE c # key
    BY <1>3, <2>2, ConstantFacts
  <2> QED
    BY <2>1, <2>2
<1>8. /\ job' \in [Actor -> Job] /\ job'[a].op = "none"
      /\ \A b \in Actor : b # a =>
           /\ job'[b].op = job[b].op /\ job'[b].key = job[b].key /\ job'[b].who = job[b].who
           /\ job'[b].set = job[b].set /\ job'[b].to = job[b].to
           /\ job'[b].buyer = job[b].buyer
           /\ ~job'[b].stale /\ job[b].op # "none" => ~job[b].stale /\ job[b].key # key
  <2>1. \A b \in Actor : job'[b] =
          IF b = a THEN Idle
          ELSE IF job[b].op # "none" /\ job[b].key = key THEN [job[b] EXCEPT !.stale = TRUE]
          ELSE job[b]
    BY <1>1 DEF Done
  <2>2. job' = [b \in Actor |-> job'[b]]
    BY DEF Done
  <2>3. \A b \in Actor : job[b] \in Job
    BY TypeFacts DEF IInv
  <2>4. \A i \in Job :
          /\ [i EXCEPT !.stale = TRUE] \in Job
          /\ [i EXCEPT !.stale = TRUE].op = i.op /\ [i EXCEPT !.stale = TRUE].key = i.key
          /\ [i EXCEPT !.stale = TRUE].who = i.who /\ [i EXCEPT !.stale = TRUE].set = i.set
          /\ [i EXCEPT !.stale = TRUE].to = i.to /\ [i EXCEPT !.stale = TRUE].buyer = i.buyer
          /\ [i EXCEPT !.stale = TRUE].stale = TRUE
    BY DEF Job
  <2>5. ASSUME NEW b \in Actor
        PROVE  job'[b] \in Job
    <3>1. Idle \in Job /\ job[b] \in Job /\ [job[b] EXCEPT !.stale = TRUE] \in Job
      BY <2>3, <2>4, IdleFacts
    <3> QED
      BY <2>1, <3>1
  <2>6. job' \in [Actor -> Job]
    BY <2>2, <2>5
  <2>7. ASSUME NEW b \in Actor, b # a
        PROVE  /\ job'[b].op = job[b].op /\ job'[b].key = job[b].key /\ job'[b].who = job[b].who
               /\ job'[b].set = job[b].set /\ job'[b].to = job[b].to
               /\ job'[b].buyer = job[b].buyer
               /\ ~job'[b].stale /\ job[b].op # "none" => ~job[b].stale /\ job[b].key # key
    <3>1. CASE job[b].op # "none" /\ job[b].key = key
      <4>1. job'[b] = [job[b] EXCEPT !.stale = TRUE]
        BY <2>1, <2>7, <3>1
      <4> QED
        BY <2>3, <2>4, <4>1
    <3>2. CASE ~(job[b].op # "none" /\ job[b].key = key)
      <4>1. job'[b] = job[b]
        BY <2>1, <2>7, <3>2
      <4> QED
        BY <3>2, <4>1
    <3> QED
      BY <3>1, <3>2
  <2>8. job'[a].op = "none"
    BY <2>1, IdleFacts
  <2> QED
    BY <2>6, <2>7, <2>8
<1>9. TypeOK'
  <2>1. ASSUME NEW k \in Key, book'[k] # None
        PROVE  k \in Order <=> book'[k].of # None
    <3>1. CASE k = key
      BY <1>1, <1>2, <2>1, <3>1
    <3>2. CASE k # key
      BY <1>2, <2>1, <3>2, TypeFacts DEF IInv
    <3> QED
      BY <3>1, <3>2
  <2>2. ASSUME NEW k \in Key, NEW l \in Key, book'[k] # None, book'[l] # None,
               WhoHas(k)' = WhoHas(l)'
        PROVE  k = l
    <3>1. CASE k # key /\ l # key
      <4>1. book[k] # None /\ WhoHas(k) = WhoHas(l)
        BY <1>2, <1>3, <2>2, <3>1
      <4> QED
        BY <4>1, TypeFacts DEF IInv
    <3>2. ASSUME NEW i \in Key, i # key, book[i] # None, N # None, N.who = WhoHas(i)
          PROVE  FALSE
      <4>1. N.who # WhoHas(key)
        BY <3>2, TypeFacts DEF IInv
      <4> QED
        BY <1>1, <1>4, <3>2, <4>1
    <3>3. CASE k = key /\ l # key
      BY <1>2, <1>3, <2>2, <3>2, <3>3
    <3>4. CASE k # key /\ l = key
      BY <1>2, <1>3, <2>2, <3>2, <3>4
    <3> QED
      BY <3>1, <3>3, <3>4
  <2>3. made' \in SUBSET Record /\ gone' \in SUBSET made'
    BY TypeFacts DEF IInv
  <2> QED
    BY <1>2, <1>8, <2>1, <2>2, <2>3 DEF TypeOK, Held
<1>10. JobsInv'
  <2> SUFFICES ASSUME NEW b \in Actor, job'[b].op # "none"
               PROVE  job'[b].who \in made' /\ JobFits(job[b])'
    BY DEF JobsInv
  <2>1. b # a
    BY <1>8
  <2>2. PICK i \in Job : i = job[b]
    BY TypeFacts DEF IInv
  <2>3. PICK n \in Job : n = job'[b]
    BY <1>8
  <2>4. /\ n.op = i.op /\ n.key = i.key /\ n.who = i.who /\ n.set = i.set
        /\ n.to = i.to /\ n.buyer = i.buyer /\ i.op # "none"
        /\ ~n.stale => ~i.stale /\ i.key # key
    BY <1>8, <2>1, <2>2, <2>3
  <2>5. i.who \in made /\ JobFits(i)
    BY <2>2, <2>4 DEF IInv, JobsInv
  <2>6. i.key \in Key /\ i.to \in Customer \cup {None} /\ i.who \in Record
    BY <2>2, <2>5, TypeFacts DEF Job, IInv
  <2>7. i.op = "add" => \A k \in Key : WhoHas(k)' # i.who
    <3> SUFFICES ASSUME i.op = "add", NEW k \in Key
                 PROVE  WhoHas(k)' # i.who
      OBVIOUS
    <3>1. \A l \in Key : WhoHas(l) # i.who
      BY <2>5 DEF JobFits
    <3>2. job[a].op = "add" => i.who # job[a].who
      BY <2>1, <2>2 DEF IInv, AddsDiffer
    <3>3. i.who # None
      BY <2>6, ConstantFacts
    <3> QED
      BY <1>1, <1>3, <3>1, <3>2, <3>3
  <2>8. ~n.stale => book'[i.key] = book[i.key] /\ WhoHas(i.key)' = WhoHas(i.key)
    BY <1>2, <1>3, <2>4, <2>6
  <2>9. n.to # None => Given(n.to, n.buyer)'
    BY <1>7, <2>4, <2>5, <2>6 DEF JobFits
  <2>10. JobFits(n)'
    BY <2>4, <2>5, <2>7, <2>8, <2>9 DEF JobFits
  <2> QED
    BY <2>3, <2>4, <2>5, <2>10 DEF JobFits, Given
<1>11. AddsDiffer'
  BY <1>8 DEF IInv, AddsDiffer
<1>12. BookInv'
  <2> SUFFICES ASSUME NEW k \in Key, book'[k] # None
               PROVE  /\ book'[k].who \in made
                      /\ book'[k].before # Blank => book'[k].was = book'[k].before
    BY DEF BookInv
  <2>1. CASE k = key
    <3>1. book'[k] = N /\ N # None
      BY <1>2, <2>1
    <3>2. N.who = WhoHas(key) => N.who \in made
      BY <1>6, <3>1, WhoFacts, ConstantFacts DEF IInv, BookInv
    <3> QED
      BY <1>1, <1>5, <3>1, <3>2
  <2>2. CASE k # key
    BY <1>2, <2>2 DEF IInv, BookInv
  <2> QED
    BY <2>1, <2>2
<1>13. NobodyIsLost'
  <2> SUFFICES ASSUME NEW r \in made, r \notin gone'
               PROVE  \/ \E k \in Key : WhoHas(k)' = r
                      \/ \E b \in Actor : job'[b].op = "add" /\ job'[b].who = r
    BY DEF NobodyIsLost
  <2>1. r # None
    BY TypeFacts, ConstantFacts DEF IInv
  <2>2. CASE \E k \in Key : WhoHas(k) = r
    <3>1. PICK k \in Key : WhoHas(k) = r
      BY <2>2
    <3>2. WhoHas(k)' = r
      BY <1>1, <1>3, <2>1, <3>1
    <3> QED
      BY <3>2
  <2>3. CASE \E b \in Actor : job[b].op = "add" /\ job[b].who = r
    <3>1. PICK b \in Actor : job[b].op = "add" /\ job[b].who = r
      BY <2>3
    <3>2. CASE b = a
      <4>1. WhoHas(key)' = r
        BY <1>1, <1>3, <3>1, <3>2
      <4> QED
        BY <4>1
    <3>3. CASE b # a
      BY <1>8, <3>1, <3>3
    <3> QED
      BY <3>2, <3>3
  <2> QED
    BY <2>2, <2>3 DEF IInv, NobodyIsLost
<1>14. OrderStaysWithCustomer'
  <2> SUFFICES ASSUME NEW k \in Order, book'[k] # None
               PROVE  \/ book'[k].buyer \in gone'
                      \/ book'[k].buyer # None /\ WhoHas(book[k].of)' = book'[k].buyer
    BY DEF OrderStaysWithCustomer, Held
  <2>1. k \in Key /\ book'[k] \in Item /\ book'[k].of # None
    BY <1>2, <1>9, ConstantFacts DEF TypeOK, Held
  <2>2. book'[k].of \in Customer
    BY <2>1 DEF Item
  <2>3. PICK c \in Customer, r \in Record \cup {None} : c = book'[k].of /\ r = book'[k].buyer
    BY <2>1, <2>2 DEF Item
  <2>4. Given(c, r)
    <3>1. CASE k = key
      BY <1>1, <1>2, <2>1, <2>3, <3>1
    <3>2. CASE k # key
      BY <1>2, <2>1, <2>3, <3>2 DEF IInv, OrderStaysWithCustomer, Given, Held
    <3> QED
      BY <3>1, <3>2
  <2>5. r \in gone' \/ (r # None /\ WhoHas(c)' = r)
    BY <1>7, <2>4 DEF Given
  <2> QED
    BY <2>3, <2>5 DEF WhoHas, Held
<1>15. GoneInv'
  <2> SUFFICES ASSUME NEW r \in gone'
               PROVE  /\ \A k \in Key : WhoHas(k)' # r
                      /\ \A b \in Actor : job'[b].op = "add" => job'[b].who # r
    BY DEF GoneInv
  <2>1. r # None
    BY TypeFacts, ConstantFacts DEF IInv
  <2>2. r \in gone \/ r = WhoHas(key)
    BY <1>1
  <2>3. ASSUME NEW k \in Key
        PROVE  WhoHas(k)' # r
    <3>1. CASE k = key
      BY <1>3, <2>1, <3>1
    <3>2. CASE k # key
      <4>1. WhoHas(k)' = WhoHas(k)
        BY <1>3, <3>2
      <4>2. WhoHas(k) = r => book[k] # None /\ WhoHas(key) # r
        BY <2>1, <3>2, TypeFacts, WhoFacts DEF IInv
      <4> QED
        BY <2>2, <4>1, <4>2 DEF IInv, GoneInv
    <3> QED
      BY <3>1, <3>2
  <2>4. ASSUME NEW b \in Actor, job'[b].op = "add"
        PROVE  job'[b].who # r
    <3>1. b # a /\ job[b].op = "add" /\ job'[b].who = job[b].who
      BY <1>8, <2>4
    <3>2. WhoHas(key) # job[b].who
      BY <3>1 DEF IInv, JobsInv, JobFits
    <3> QED
      BY <2>2, <3>1, <3>2 DEF IInv, GoneInv
  <2> QED
    BY <2>3, <2>4
<1> QED
  BY <1>9, <1>10, <1>11, <1>12, <1>13, <1>14, <1>15 DEF IInv
-----------------------------------------------------------------------------
(* The operations.                                                         *)

\* add_customer and add_order take the number of a new record.
LEMMA NumberStep ==
  ASSUME IInv, NEW a \in Actor, NEW r \in Record, NEW s \in AddedAs,
         NumberCustomer(a, r, s) \/ \E c \in Customer : NumberOrder(a, r, s, c)
  PROVE  IInv'
<1>1. PICK k \in Key, c \in Customer \cup {None} :
        /\ book[k] = None /\ (k \in Order <=> c # None)
        /\ c # None => c \in Held(Customer)
        /\ r \notin made /\ Look(a, "add", k, r, s, c) /\ made' = made \cup {r}
  <2>1. CASE NumberCustomer(a, r, s)
    <3> DEFINE k == <<"customer", NextNumber(Customer)>>
    <3>1. /\ k \in Key /\ r \notin made /\ Look(a, "add", k, r, s, None) /\ made' = made \cup {r}
      BY <2>1 DEF NumberCustomer, Number
    <3>2. k \notin Order
      BY DEF Order
    <3>3. k \notin Held(Customer) /\ k \in Customer
      BY <3>1, <3>2, NumberIsFree, ConstantFacts, CRMAssumption DEF Customer, Key
    <3> HIDE DEF k
    <3>4. book[k] = None
      BY <3>3 DEF Held
    <3> QED
      BY <3>1, <3>2, <3>4
  <2>2. ASSUME NEW c \in Customer, NumberOrder(a, r, s, c)
        PROVE  \E k \in Key : /\ book[k] = None /\ k \in Order
                             /\ c \in Held(Customer) /\ r \notin made
                             /\ Look(a, "add", k, r, s, c) /\ made' = made \cup {r}
    <3> DEFINE k == <<"order", NextNumber(Order)>>
    <3>1. /\ k \in Key /\ r \notin made /\ Look(a, "add", k, r, s, c) /\ made' = made \cup {r}
          /\ c \in Held(Customer)
      BY <2>2 DEF NumberOrder, Number
    <3>2. k \notin Customer
      BY DEF Customer
    <3>3. k \notin Held(Order) /\ k \in Order
      BY <3>1, <3>2, NumberIsFree, ConstantFacts, CRMAssumption DEF Order, Key
    <3> HIDE DEF k
    <3>4. book[k] = None
      BY <3>3 DEF Held
    <3> QED
      BY <3>1, <3>3, <3>4
  <2> QED
    BY <2>1, <2>2, ConstantFacts
<1>2. WhoHas(c) \in Record \cup {None} /\ (c # None => WhoHas(c) # None)
  <2>1. CASE c = None
    BY <2>1 DEF WhoHas
  <2>2. CASE c # None
    <3>1. c \in Key /\ book[c] # None
      BY <1>1, <2>2, ConstantFacts DEF Held
    <3> QED
      BY <3>1, TypeFacts, ConstantFacts DEF IInv
  <2> QED
    BY <2>1, <2>2
<1> DEFINE i == [op |-> "add", key |-> k, who |-> r, set |-> s, to |-> c,
                 buyer |-> WhoHas(c), stale |-> FALSE]
<1>3. i \in Job
  BY <1>2, ConstantFacts DEF Job
<1>4. PICK j \in Job : j = i
  BY <1>3
<1>5. JobFits(j)
  <2>1. \A l \in Key : WhoHas(l) # r
    BY <1>1, WhoFacts, ConstantFacts DEF IInv, BookInv
  <2>2. c # None => Given(c, WhoHas(c))
    BY <1>2 DEF Given
  <2>3. s \in Text
    BY ConstantFacts
  <2>4. /\ j.op = "add" /\ j.key = k /\ j.who = r /\ j.set = s /\ j.to = c
        /\ j.buyer = WhoHas(c)
    BY <1>4
  <2> HIDE DEF i
  <2> QED
    BY <1>1, <2>1, <2>2, <2>3, <2>4 DEF JobFits
<1>6. /\ job[a].op = "none" /\ job' = [job EXCEPT ![a] = j] /\ book' = book /\ gone' = gone
  BY <1>1, <1>4 DEF Look
<1>7. made' \in SUBSET Record /\ made' \ made = {r} /\ made \subseteq made'
  BY <1>1, TypeFacts DEF IInv
<1>8. j.op = "add" /\ j.who = r
  BY <1>4
<1> QED
  BY <1>1, <1>5, <1>6, <1>7, <1>8, LookStep

\* update, archive, restore and delete find their record.
LEMMA FindStep ==
  ASSUME IInv, NEW a \in Actor, NEW k \in Key,
         NEW op \in {"update", "archive", "restore", "delete"},
         NEW s \in Text \cup {None}, NEW c \in Customer \cup {None},
         c # None => k \in Order /\ c \in Held(Customer),
         Find(a, op, k, s, c)
  PROVE  IInv'
<1>1. /\ book[k] # None /\ job[a].op = "none" /\ UNCHANGED <<book, gone, made>>
      /\ job' = [job EXCEPT ![a] = [op |-> op, key |-> k, who |-> book[k].who, set |-> s, to |-> c,
                                    buyer |-> WhoHas(c), stale |-> FALSE]]
  BY DEF Find, Look, Held
<1>2. WhoHas(c) \in Record \cup {None} /\ (c # None => WhoHas(c) # None)
  <2>1. CASE c = None
    BY <2>1 DEF WhoHas
  <2>2. CASE c # None
    <3>1. c \in Key /\ book[c] # None
      BY <2>2, ConstantFacts DEF Held
    <3> QED
      BY <3>1, TypeFacts, ConstantFacts DEF IInv
  <2> QED
    BY <2>1, <2>2
<1>3. WhoHas(k) = book[k].who /\ WhoHas(k) \in Record /\ book[k].who \in made
  BY <1>1, TypeFacts DEF IInv, BookInv
<1> DEFINE i == [op |-> op, key |-> k, who |-> book[k].who, set |-> s, to |-> c,
                 buyer |-> WhoHas(c), stale |-> FALSE]
<1>4. i \in Job
  BY <1>2, <1>3 DEF Job
<1>5. PICK j \in Job : j = i
  BY <1>4
<1>6. JobFits(j)
  <2>1. c # None => Given(c, WhoHas(c))
    BY <1>2 DEF Given
  <2> QED
    BY <1>3, <1>5, <2>1 DEF JobFits
<1>7. job' = [job EXCEPT ![a] = j] /\ j.who \in made /\ j.op # "add"
  BY <1>1, <1>3, <1>5
<1>8. made' \in SUBSET Record /\ made' = made
  BY <1>1, TypeFacts DEF IInv
<1> QED
  BY <1>1, <1>6, <1>7, <1>8, LookStep

\* Update, Archive and Restore make a new item of the one found.
LEMMA ChangeStep ==
  ASSUME IInv, NEW a \in Actor, NEW op \in {"update", "archive", "restore"}, NEW new,
         Change(a, op, new),
         WhoHas(job[a].key) = job[a].who =>
           /\ new \in Item /\ new.who = book[job[a].key].who
           /\ job[a].key \in Order <=> new.of # None
           /\ new.before # Blank => new.was = new.before
           /\ job[a].key \in Order => Given(new.of, new.buyer)
  PROVE  IInv'
<1>1. /\ job[a].op = op /\ Done(a) /\ made' = made /\ gone' = gone
      /\ book' = IF WhoHas(job[a].key) = job[a].who THEN [book EXCEPT ![job[a].key] = new] ELSE book
  BY DEF Change
<1>2. PICK k \in Key : k = job[a].key
  BY TypeFacts DEF IInv, Job
<1>3. /\ book \in [Key -> Item \cup {None}] /\ gone \in SUBSET made
      /\ book[k] # None =>
           /\ book[k] \in Item /\ WhoHas(k) = book[k].who
           /\ k \in Order <=> book[k].of # None
  BY TypeFacts DEF IInv
<1>4. WhoHas(k) # None <=> book[k] # None
  BY <1>3, TypeFacts, WhoFacts, ConstantFacts DEF IInv
<1>5. job[a].who \in Record /\ job[a].who # None /\ WhoHas(k) \notin gone
  BY <1>1, TypeFacts, ConstantFacts DEF IInv, JobsInv, GoneInv
<1>6. CASE WhoHas(k) = job[a].who
  <2>1. PICK N \in Item : N = new
    BY <1>2, <1>6
  <2>2. book[k] # None /\ N # None /\ N.who = WhoHas(k)
    BY <1>2, <1>3, <1>4, <1>5, <1>6, <2>1, ConstantFacts
  <2>3. N.who \notin gone' /\ gone' \subseteq gone \cup {WhoHas(job[a].key)}
    BY <1>1, <1>5, <2>2
  <2> QED
    BY <1>1, <1>2, <1>3, <1>6, <2>1, <2>2, <2>3, EffectStep
<1>7. CASE WhoHas(k) # job[a].who
  <2>1. PICK N \in Item \cup {None} : N = book[k]
    BY <1>3
  <2>2. book' = [book EXCEPT ![k] = N]
    BY <1>1, <1>2, <1>3, <1>7, <2>1
  <2>3. N # None =>
          /\ N.before # Blank => N.was = N.before
          /\ k \in Order => Given(N.of, N.buyer)
    BY <2>1 DEF IInv, BookInv, OrderStaysWithCustomer, Given, Held
  <2>4. gone' \subseteq gone \cup {WhoHas(job[a].key)}
    BY <1>1
  <2>5. N # None => N.who = WhoHas(k) /\ N.who \notin gone'
    BY <1>1, <1>3, <1>5, <2>1
  <2> QED
    BY <1>1, <1>2, <1>3, <1>4, <2>1, <2>2, <2>3, <2>4, <2>5, EffectStep
<1> QED
  BY <1>6, <1>7

\* What an actor is about to do fits its record, if that is still there.
LEMMA FoundFacts ==
  ASSUME IInv, NEW a \in Actor, job[a].op # "none", WhoHas(job[a].key) = job[a].who
  PROVE  /\ job[a].key \in Key /\ Found(a) = book[job[a].key] /\ Found(a) \in Item
         /\ job[a].key \in Order <=> Found(a).of # None
         /\ Found(a).before # Blank => Found(a).was = Found(a).before
         /\ job[a].key \in Order => Given(Found(a).of, Found(a).buyer)
         /\ job[a] \in Job
         /\ job[a].to # None => Given(job[a].to, job[a].buyer)
         /\ job[a].op = "update" /\ job[a].to # None => job[a].key \in Order
<1>1. job[a] \in Job /\ job[a].key \in Key
  BY TypeFacts DEF IInv, Job
<1>2. PICK k \in Key : k = job[a].key
  BY <1>1
<1>3. job[a].who # None /\ JobFits(job[a])
  BY TypeFacts, ConstantFacts DEF IInv, JobsInv
<1>4. book[k] # None
  BY <1>2, <1>3, WhoFacts
<1>5. book[k] \in Item /\ (k \in Order <=> book[k].of # None)
  BY <1>4, TypeFacts DEF IInv
<1>6. book[k].before # Blank => book[k].was = book[k].before
  BY <1>4 DEF IInv, BookInv
<1>7. k \in Order => Given(book[k].of, book[k].buyer)
  BY <1>4 DEF IInv, OrderStaysWithCustomer, Given, Held
<1> QED
  BY <1>1, <1>2, <1>3, <1>5, <1>6, <1>7 DEF Found, JobFits

LEMMA UpdateStep ==
  ASSUME IInv, NEW a \in Actor, Update(a)
  PROVE  IInv'
<1> DEFINE j == job[a]
           f == Found(a)
           n == [f EXCEPT !.status = IF j.set = None THEN f.status ELSE j.set,
                          !.before = IF j.set = None THEN f.before ELSE Blank,
                          !.of = IF j.to = None THEN f.of ELSE j.to,
                          !.buyer = IF j.to = None THEN f.buyer ELSE j.buyer]
<1>1. Change(a, "update", n)
  BY DEF Update
<1>2. j.op = "update"
  BY <1>1 DEF Change
<1>3. PICK new : new = n
  OBVIOUS
<1>4. ASSUME WhoHas(j.key) = j.who
      PROVE  /\ new \in Item /\ new.who = book[j.key].who
             /\ j.key \in Order <=> new.of # None
             /\ new.before # Blank => new.was = new.before
             /\ j.key \in Order => Given(new.of, new.buyer)
  <2>1. /\ f = book[j.key] /\ f \in Item /\ j \in Job
        /\ j.key \in Order <=> f.of # None
        /\ f.before # Blank => f.was = f.before
        /\ j.key \in Order => Given(f.of, f.buyer)
        /\ j.to # None => Given(j.to, j.buyer) /\ j.key \in Order
    BY <1>2, <1>4, FoundFacts
  <2> HIDE DEF f, j
  <2>2. /\ j.set \in Text \cup {None} /\ j.to \in Customer \cup {None}
        /\ j.buyer \in Record \cup {None}
    BY <2>1 DEF Job
  <2>3. n \in Item
    <3>1. /\ (IF j.set = None THEN f.status ELSE j.set) \in Text
          /\ (IF j.set = None THEN f.before ELSE Blank) \in Text
          /\ (IF j.to = None THEN f.of ELSE j.to) \in Customer \cup {None}
          /\ (IF j.to = None THEN f.buyer ELSE j.buyer) \in Record \cup {None}
      BY <2>1, <2>2, ConstantFacts DEF Item
    <3>2. f \in Item
      BY <2>1
    <3> QED
      BY <3>1, <3>2 DEF Item
  <2>4. /\ n.who = f.who /\ n.was = f.was
        /\ n.before = IF j.set = None THEN f.before ELSE Blank
        /\ n.of = IF j.to = None THEN f.of ELSE j.to
        /\ n.buyer = IF j.to = None THEN f.buyer ELSE j.buyer
    BY <2>1 DEF Item
  <2> HIDE DEF n
  <2> QED
    BY <1>3, <2>1, <2>3, <2>4
<1>5. Change(a, "update", new)
  BY <1>1, <1>3
<1> HIDE DEF n
<1> QED
  BY <1>4, <1>5, ChangeStep

LEMMA ArchiveStep ==
  ASSUME IInv, NEW a \in Actor, Archive(a)
  PROVE  IInv'
<1> DEFINE j == job[a]
           f == Found(a)
           n == [f EXCEPT !.status = Archived, !.was = f.status,
                          !.before = IF j.stale THEN Blank ELSE f.status]
<1>1. Change(a, "archive", n)
  BY DEF Archive
<1>2. j.op = "archive"
  BY <1>1 DEF Change
<1>3. PICK new : new = n
  OBVIOUS
<1>4. ASSUME WhoHas(j.key) = j.who
      PROVE  /\ new \in Item /\ new.who = book[j.key].who
             /\ j.key \in Order <=> new.of # None
             /\ new.before # Blank => new.was = new.before
             /\ j.key \in Order => Given(new.of, new.buyer)
  <2>1. /\ f = book[j.key] /\ f \in Item
        /\ j.key \in Order <=> f.of # None
        /\ j.key \in Order => Given(f.of, f.buyer)
    BY <1>2, <1>4, FoundFacts
  <2> HIDE DEF f, j
  <2>2. n \in Item
    BY <2>1, ConstantFacts DEF Item
  <2>3. /\ n.who = f.who /\ n.was = f.status /\ n.of = f.of /\ n.buyer = f.buyer
        /\ n.before = IF j.stale THEN Blank ELSE f.status
    BY <2>1 DEF Item
  <2> HIDE DEF n
  <2> QED
    BY <1>3, <2>1, <2>2, <2>3
<1>5. Change(a, "archive", new)
  BY <1>1, <1>3
<1> HIDE DEF n
<1> QED
  BY <1>4, <1>5, ChangeStep

LEMMA RestoreStep ==
  ASSUME IInv, NEW a \in Actor, Restore(a)
  PROVE  IInv'
<1> DEFINE j == job[a]
           f == Found(a)
           n == [f EXCEPT !.status = IF f.was = Blank THEN Default ELSE f.was,
                          !.was = Blank, !.before = Blank]
<1>1. Change(a, "restore", n)
  BY DEF Restore
<1>2. j.op = "restore"
  BY <1>1 DEF Change
<1>3. PICK new : new = n
  OBVIOUS
<1>4. ASSUME WhoHas(j.key) = j.who
      PROVE  /\ new \in Item /\ new.who = book[j.key].who
             /\ j.key \in Order <=> new.of # None
             /\ new.before # Blank => new.was = new.before
             /\ j.key \in Order => Given(new.of, new.buyer)
  <2>1. /\ f = book[j.key] /\ f \in Item
        /\ j.key \in Order <=> f.of # None
        /\ j.key \in Order => Given(f.of, f.buyer)
    BY <1>2, <1>4, FoundFacts
  <2> HIDE DEF f, j
  <2>2. n \in Item
    BY <2>1, ConstantFacts DEF Item
  <2>3. /\ n.who = f.who /\ n.was = Blank /\ n.of = f.of /\ n.buyer = f.buyer
        /\ n.before = Blank
    BY <2>1 DEF Item
  <2> HIDE DEF n
  <2> QED
    BY <1>3, <2>1, <2>2, <2>3
<1>5. Change(a, "restore", new)
  BY <1>1, <1>3
<1> HIDE DEF n
<1> QED
  BY <1>4, <1>5, ChangeStep

\* Whom a new record overwrites is counted as gone.
LEMMA AddStep ==
  ASSUME IInv, NEW a \in Actor, Add(a)
  PROVE  IInv'
<1> DEFINE j == job[a]
<1>1. /\ j.op = "add" /\ Done(a) /\ made' = made
      /\ gone' = gone \cup (IF j.stale THEN {WhoHas(j.key)} \ {None} ELSE {})
      /\ book' = [book EXCEPT ![j.key] = [who |-> j.who, status |-> j.set, was |-> Blank, of |-> j.to,
                                         before |-> Blank, buyer |-> j.buyer]]
  BY DEF Add
<1>2. j \in Job /\ j.who \in made /\ j.who \in Record /\ JobFits(j)
  BY <1>1, TypeFacts DEF IInv, JobsInv
<1> HIDE DEF j
<1>3. PICK k \in Key : k = j.key
  BY <1>2 DEF Job
<1>4. [who |-> j.who, status |-> j.set, was |-> Blank, of |-> j.to,
       before |-> Blank, buyer |-> j.buyer] \in Item
  BY <1>1, <1>2, ConstantFacts DEF Item, Job, JobFits
<1>5. PICK N \in Item : N = [who |-> j.who, status |-> j.set, was |-> Blank, of |-> j.to,
                             before |-> Blank, buyer |-> j.buyer]
  BY <1>4
<1>6. WhoHas(k) # None => WhoHas(k) \in made /\ j.stale
  BY <1>1, <1>2, <1>3, WhoFacts DEF IInv, BookInv, JobFits
<1>7. gone \subseteq made
  BY TypeFacts DEF IInv
<1>8. gone' \in SUBSET made /\ gone \subseteq gone' /\ (WhoHas(k) # None => WhoHas(k) \in gone')
  BY <1>1, <1>3, <1>6, <1>7
<1>9. /\ k \in Order <=> j.to # None
      /\ j.to # None => Given(j.to, j.buyer)
  BY <1>1, <1>2, <1>3 DEF JobFits
<1>10. N.who = j.who /\ N.of = j.to /\ N.buyer = j.buyer /\ N.before = Blank /\ N # None
  BY <1>5, ConstantFacts
<1>11. gone' \subseteq gone \cup {WhoHas(k)} /\ j.who \notin gone'
  <2>1. j.who # WhoHas(k) /\ j.who \notin gone
    BY <1>1, <1>2 DEF IInv, JobFits, GoneInv, j
  <2> QED
    BY <1>1, <1>3, <2>1
<1>12. /\ k = job[a].key /\ job[a].op = "add" /\ N.who = job[a].who /\ N.who \notin gone'
       /\ book' = [book EXCEPT ![job[a].key] = N]
  BY <1>1, <1>3, <1>5, <1>10, <1>11 DEF j
<1>13. /\ k \in Order <=> N.of # None
       /\ N.before # Blank => N.was = N.before
       /\ k \in Order => Given(N.of, N.buyer)
  BY <1>9, <1>10
<1> QED
  BY <1>1, <1>8, <1>10, <1>11, <1>12, <1>13, EffectStep

LEMMA DeleteStep ==
  ASSUME IInv, NEW a \in Actor, Delete(a)
  PROVE  IInv'
<1>1. /\ job[a].op = "delete" /\ Done(a) /\ made' = made
      /\ gone' = gone \cup ({WhoHas(job[a].key)} \ {None})
      /\ book' = [book EXCEPT ![job[a].key] = None]
  BY DEF Delete
<1>2. PICK k \in Key : k = job[a].key
  BY TypeFacts DEF IInv, Job
<1>3. WhoHas(k) # None => WhoHas(k) \in made
  BY WhoFacts DEF IInv, BookInv
<1>4. gone \subseteq made
  BY TypeFacts DEF IInv
<1>5. /\ gone' \in SUBSET made /\ gone \subseteq gone' /\ (WhoHas(k) # None => WhoHas(k) \in gone')
      /\ gone' \subseteq gone \cup {WhoHas(k)}
  BY <1>1, <1>2, <1>3, <1>4
<1>6. PICK N \in Item \cup {None} : N = None
  OBVIOUS
<1>7. book' = [book EXCEPT ![job[a].key] = N] /\ job[a].op # "none" /\ job[a].op # "add"
  BY <1>1, <1>6
<1> QED
  BY <1>1, <1>2, <1>5, <1>6, <1>7, EffectStep

LEMMA InitInv == Init => IInv
<1> SUFFICES ASSUME Init PROVE IInv
  OBVIOUS
<1>1. /\ \A k \in Key : book[k] = None
      /\ book \in [Key -> Item \cup {None}]
      /\ \A a \in Actor : job[a] = Idle
      /\ job \in [Actor -> Job] /\ made = {} /\ gone = {}
  BY IdleFacts DEF Init
<1>2. \A a \in Actor : job[a].op = "none"
  BY <1>1, IdleFacts
<1>3. Held(Key) = {} /\ Held(Order) = {}
  BY <1>1, ConstantFacts DEF Held
<1>4. TypeOK
  BY <1>1, <1>3 DEF TypeOK
<1>5. JobsInv /\ AddsDiffer
  BY <1>2 DEF JobsInv, AddsDiffer
<1>6. BookInv /\ GoneInv /\ NobodyIsLost /\ OrderStaysWithCustomer
  BY <1>1, <1>3 DEF BookInv, GoneInv, NobodyIsLost, OrderStaysWithCustomer
<1> QED
  BY <1>4, <1>5, <1>6 DEF IInv

LEMMA NextInv == IInv /\ [Next]_vars => IInv'
<1> SUFFICES ASSUME IInv, [Next]_vars PROVE IInv'
  OBVIOUS
<1>1. ASSUME NEW a \in Actor, AddNew(a) PROVE IInv'
  BY <1>1, NumberStep DEF AddNew
<1>2. ASSUME NEW a \in Actor, Manage(a) PROVE IInv'
  <2>1. None \in Text \cup {None} /\ None \in Customer \cup {None}
    OBVIOUS
  <2>2. PICK k \in Key : FindArchive(a, k) \/ FindRestore(a, k) \/ FindDelete(a, k)
    BY <1>2 DEF Manage
  <2>3. PICK op \in {"update", "archive", "restore", "delete"} : Find(a, op, k, None, None)
    <3>1. CASE FindArchive(a, k)
      BY <3>1 DEF FindArchive
    <3>2. CASE FindRestore(a, k)
      BY <3>2 DEF FindRestore
    <3>3. CASE FindDelete(a, k)
      BY <3>3 DEF FindDelete
    <3> QED
      BY <2>2, <3>1, <3>2, <3>3
  <2> QED
    BY <2>1, <2>3, FindStep
<1>3. CASE Edit
  <2>1. PICK k \in Key, s \in Requested \cup {None}, c \in Customer \cup {None} : FindUpdate(k, s, c)
    BY <1>3 DEF Edit
  <2>2. s \in Text \cup {None} /\ Loop \in Actor
    BY ConstantFacts DEF Actor
  <2>3. /\ c # None => k \in Order /\ c \in Held(Customer)
        /\ Find(Loop, "update", k, s, c)
    BY <2>1 DEF FindUpdate
  <2> QED
    BY <2>2, <2>3, FindStep
<1>4. ASSUME NEW a \in Actor, Proceed(a) PROVE IInv'
  BY <1>4, AddStep, UpdateStep, ArchiveStep, RestoreStep, DeleteStep DEF Proceed
<1>5. CASE UNCHANGED vars
  <2>1. book' = book /\ job' = job /\ made' = made /\ gone' = gone
    BY <1>5 DEF vars
  <2>2. \A k : WhoHas(k)' = WhoHas(k)
    BY <2>1 DEF WhoHas, Held
  <2>3. TypeOK'
    BY <2>1, <2>2 DEF IInv, TypeOK, Held
  <2>4. JobsInv'
    BY <2>1 DEF IInv, JobsInv, JobFits, Given, WhoHas, Held
  <2>5. AddsDiffer' /\ BookInv' /\ GoneInv'
    BY <2>1, <2>2 DEF IInv, AddsDiffer, BookInv, GoneInv
  <2>6. NobodyIsLost' /\ OrderStaysWithCustomer'
    BY <2>1, <2>2 DEF IInv, NobodyIsLost, OrderStaysWithCustomer, WhoHas, Held
  <2> QED
    BY <2>3, <2>4, <2>5, <2>6 DEF IInv
<1> QED
  BY <1>1, <1>2, <1>3, <1>4, <1>5 DEF Next
-----------------------------------------------------------------------------
(* Steps that undo.                                                        *)

\* Nobody has changed the record since the look: it is where it was found.
LEMMA StillThere ==
  ASSUME IInv, NEW a \in Actor,
         job[a].op \in {"update", "archive", "restore", "delete"}, ~job[a].stale
  PROVE  WhoHas(job[a].key) = job[a].who
  BY DEF IInv, JobsInv, JobFits

LEMMA RestoreUndoes ==
  ASSUME IInv, NEW a \in Actor, Restore(a), ~job[a].stale, book[job[a].key].before # Blank
  PROVE  book'[job[a].key].status = book[job[a].key].before
<1> DEFINE j == job[a]
           f == Found(a)
           n == [f EXCEPT !.status = IF f.was = Blank THEN Default ELSE f.was,
                          !.was = Blank, !.before = Blank]
<1>1. Change(a, "restore", n)
  BY DEF Restore
<1>2. j.op = "restore" /\ WhoHas(j.key) = j.who
  BY <1>1, StillThere DEF Change
<1>3. book' = [book EXCEPT ![j.key] = n]
  BY <1>1, <1>2 DEF Change
<1>4. /\ j.key \in Key /\ f = book[j.key] /\ f \in Item
      /\ f.before # Blank => f.was = f.before
  BY <1>2, FoundFacts
<1>5. f.before # Blank
  BY <1>4
<1> HIDE DEF f, j
<1>6. n.status = f.before
  BY <1>4, <1>5 DEF Item
<1>7. book'[j.key] = n
  <2> HIDE DEF n
  <2> QED
    BY <1>3, <1>4, TypeFacts DEF IInv
<1> HIDE DEF n
<1>8. book'[j.key].status = book[j.key].before
  BY <1>4, <1>6, <1>7
<1> QED
  BY <1>8 DEF j
-----------------------------------------------------------------------------
\* The invariant that carries the results below holds in every reachable state
\* of CRM (CRMClient).
THEOREM InductiveInvariant == Spec => []IInv
  BY InitInv, NextInv, PTL DEF Spec

\* The book and what actors have found keep their shapes; no record is under
\* two numbers (CRMClient).
THEOREM TypeCorrect == Spec => []TypeOK
<1>1. IInv => TypeOK
  BY DEF IInv
<1> QED
  BY <1>1, InductiveInvariant, PTL

\* What was deleted is never in the book again, whoever had found it before and
\* changes it late, and whoever has its number now (update_..., archive_...,
\* restore_..., delete_customer, delete_order).
THEOREM DeletionIsFinal == Spec => []DeletedIsGone
<1>1. IInv => DeletedIsGone
  <2> SUFFICES ASSUME IInv, NEW k \in Key, book[k] # None
               PROVE  book[k].who \notin gone
    BY DEF DeletedIsGone, Held
  <2>1. WhoHas(k) = book[k].who
    BY WhoFacts
  <2> QED
    BY <2>1 DEF IInv, GoneInv
<1> QED
  BY <1>1, InductiveInvariant, PTL

\* The maximum plus one is never a number that is taken, whatever was deleted
\* before and whoever adds at the same time: what was added stays until it is
\* deleted, or overwritten by an addition that overlapped (add_customer,
\* add_order).
THEOREM NobodyLost == Spec => []NobodyIsLost
<1>1. IInv => NobodyIsLost
  BY DEF IInv
<1> QED
  BY <1>1, InductiveInvariant, PTL

\* An order's customer_id names the customer it was given to as long as that one
\* exists (add_order, update_order).
THEOREM OrderStays == Spec => []OrderStaysWithCustomer
<1>1. IInv => OrderStaysWithCustomer
  BY DEF IInv
<1> QED
  BY <1>1, InductiveInvariant, PTL

\* Restoring gives back the status from before the archive (restore_customer,
\* restore_order).
THEOREM ArchiveUndone == Spec => ArchiveIsUndone
<1>1. IInv /\ [Next]_vars =>
        [\A a \in Actor :
           LET k == job[a].key IN
           Restore(a) /\ ~job[a].stale /\ book[k].before # Blank
             => book'[k].status = book[k].before]_vars
  BY RestoreUndoes
<1> QED
  BY <1>1, InductiveInvariant, PTL DEF Spec, ArchiveIsUndone

-----------------------------------------------------------------------------
(* CRMFile: the dictionaries and their files, for every number of savers   *)
(* and every set of entries.                                               *)

\* What a change has put into the dictionary is in it until somebody else takes
\* it out, and a snapshot that is not old is the dictionary.
SavesInv ==
  \A a \in Saver :
    /\ save[a].put \subseteq memory
    /\ save[a].fresh => save[a].data = memory

\* The inductive invariant.
FileIInv == FileTypeOK /\ SavesInv /\ FileIsMemory /\ AnsweredIsOnDisk
-----------------------------------------------------------------------------
\* Entries in the file are loaded as they are.
LEMMA LoadedEntries ==
  ASSUME NEW S \in SUBSET Entry, file = S
  PROVE  Loaded = S
  BY CRMFileAssumption DEF Loaded

\* Whatever the file holds, entries are loaded.
LEMMA LoadedType ==
  ASSUME file \in {Empty, Torn} \cup (SUBSET Entry)
  PROVE  Loaded \in SUBSET Entry
  BY DEF Loaded

LEMMA FileInitInv == FileInit => FileIInv
<1> SUFFICES ASSUME FileInit PROVE FileIInv
  OBVIOUS
<1>1. NoSave \in Save /\ NoSave.put = {} /\ NoSave.fresh = FALSE
  BY DEF NoSave, Save
<1>2. Loaded = {}
  BY LoadedEntries DEF FileInit
<1> QED
  BY <1>1, <1>2 DEF FileInit, FileIInv, FileTypeOK, SavesInv, FileIsMemory, AnsweredIsOnDisk

\* A change of the dictionary makes every snapshot old.
LEMMA AlterStep ==
  ASSUME FileIInv, NEW a \in Saver, NEW out \in SUBSET Entry, NEW in \in SUBSET Entry,
         Alter(a, out, in)
  PROVE  FileIInv'
<1> DEFINE mine == [NoSave EXCEPT !.at = "changed", !.put = in]
           theirs(b) == [save[b] EXCEPT !.put = @ \ out, !.fresh = FALSE]
<1>1. /\ memory' = (memory \ out) \cup in
      /\ promised' = promised \ out
      /\ save' = [b \in Saver |-> IF b = a THEN mine ELSE theirs(b)]
      /\ UNCHANGED <<file, spoiled>>
  BY DEF Alter
<1>2. mine \in Save /\ mine.at = "changed" /\ mine.put = in /\ mine.fresh = FALSE
  BY DEF NoSave, Save
<1>3. ASSUME NEW b \in Saver
      PROVE  /\ theirs(b) \in Save
             /\ theirs(b).at = save[b].at
             /\ theirs(b).put = save[b].put \ out
             /\ theirs(b).fresh = FALSE
  BY DEF FileIInv, FileTypeOK, Save
<1> HIDE DEF mine, theirs
<1>4. FileTypeOK'
  BY <1>1, <1>2, <1>3 DEF FileIInv, FileTypeOK
<1>5. SavesInv'
  BY <1>1, <1>2, <1>3 DEF FileIInv, SavesInv
<1>6. ~Quiet'
  BY <1>1, <1>2 DEF Quiet
<1>7. Exposed' => Exposed
  BY <1>1, <1>2, <1>3 DEF Exposed
<1>8. Exposed => Exposed'
  <2> SUFFICES ASSUME NEW b \in Saver, save[b].at = "opened" PROVE Exposed'
    BY DEF Exposed
  <2>1. b # a
    BY DEF Alter
  <2> QED
    BY <1>1, <1>3, <2>1 DEF Exposed
<1>9. Loaded' = Loaded
  BY <1>1 DEF Loaded
<1> QED
  BY <1>1, <1>4, <1>5, <1>6, <1>7, <1>8, <1>9 DEF FileIInv, FileIsMemory, AnsweredIsOnDisk

\* A snapshot is what the dictionary holds.
LEMMA SnapshotStep ==
  ASSUME FileIInv, NEW a \in Saver, Snapshot(a)
  PROVE  FileIInv'
<1> DEFINE mine == [save[a] EXCEPT !.at = "snapped", !.data = memory, !.fresh = TRUE]
<1>1. save' = [save EXCEPT ![a] = mine] /\ UNCHANGED <<memory, file, spoiled, promised>>
  BY DEF Snapshot
<1>2. /\ mine \in Save /\ mine.at = "snapped" /\ mine.data = memory
      /\ mine.put = save[a].put /\ mine.fresh = TRUE
  BY DEF FileIInv, FileTypeOK, Save
<1>3. save[a].at = "changed"
  BY DEF Snapshot
<1> HIDE DEF mine
<1>4. \A b \in Saver : save'[b] = IF b = a THEN mine ELSE save[b]
  BY <1>1 DEF FileIInv, FileTypeOK
<1>5. FileTypeOK'
  BY <1>1, <1>2 DEF FileIInv, FileTypeOK
<1>6. SavesInv'
  BY <1>1, <1>2, <1>4 DEF FileIInv, SavesInv
<1>7. ~Quiet' /\ (Exposed' <=> Exposed) /\ Loaded' = Loaded
  BY <1>1, <1>2, <1>3, <1>4 DEF Quiet, Exposed, Loaded
<1> QED
  BY <1>1, <1>5, <1>6, <1>7 DEF FileIInv, FileIsMemory, AnsweredIsOnDisk

\* An open file promises nothing.
LEMMA OpenStep ==
  ASSUME FileIInv, NEW a \in Saver, Open(a)
  PROVE  FileIInv'
<1> DEFINE mine == [save[a] EXCEPT !.at = "opened"]
<1>1. /\ save' = [save EXCEPT ![a] = mine]
      /\ file' = Empty
      /\ UNCHANGED <<memory, spoiled, promised>>
  BY DEF Open
<1>2. /\ mine \in Save /\ mine.at = "opened" /\ mine.data = save[a].data
      /\ mine.put = save[a].put /\ mine.fresh = save[a].fresh
  BY DEF FileIInv, FileTypeOK, Save
<1> HIDE DEF mine
<1>3. \A b \in Saver : save'[b] = IF b = a THEN mine ELSE save[b]
  BY <1>1 DEF FileIInv, FileTypeOK
<1>4. FileTypeOK'
  BY <1>1, <1>2 DEF FileIInv, FileTypeOK
<1>5. SavesInv'
  BY <1>1, <1>2, <1>3 DEF FileIInv, SavesInv
<1>6. ~Quiet' /\ Exposed'
  BY <1>2, <1>3 DEF Quiet, Exposed
<1> QED
  BY <1>4, <1>5, <1>6 DEF FileIInv, FileIsMemory, AnsweredIsOnDisk

\* An answer adds to the promises what is in the dictionary.
LEMMA AnswerStep ==
  ASSUME FileTypeOK, SavesInv, NEW a \in Saver, Answer(a),
         file' \in {Empty, Torn} \cup (SUBSET Entry), spoiled' \in BOOLEAN
  PROVE  FileTypeOK' /\ SavesInv' /\ promised' \subseteq memory'
<1>1. NoSave \in Save /\ NoSave.put = {} /\ NoSave.fresh = FALSE
  BY DEF NoSave, Save
<1>2. /\ save' = [save EXCEPT ![a] = NoSave]
      /\ promised' = promised \cup save[a].put
      /\ memory' = memory
  BY DEF Answer
<1>3. FileTypeOK'
  BY <1>1, <1>2 DEF FileTypeOK, SavesInv
<1>4. SavesInv'
  BY <1>1, <1>2 DEF FileTypeOK, SavesInv
<1> QED
  BY <1>3, <1>4 DEF FileTypeOK

\* What is written and not spoiled is the dictionary.
LEMMA WriteStep ==
  ASSUME FileIInv, NEW a \in Saver, Write(a)
  PROVE  FileIInv'
<1>1. /\ file' = save[a].data \/ file' = Torn
      /\ spoiled' = (file' = Torn \/ ~save[a].fresh)
      /\ Answer(a)
  BY DEF Write
<1>2. save[a] \in Save /\ save[a].data \in SUBSET Entry
  BY DEF FileIInv, FileTypeOK, Save
<1>3. file' \in {Empty, Torn} \cup (SUBSET Entry) /\ spoiled' \in BOOLEAN
  BY <1>1, <1>2
<1>4. FileTypeOK' /\ SavesInv' /\ promised' \subseteq memory'
  BY <1>1, <1>3, AnswerStep DEF FileIInv
<1>5. ~spoiled' => Loaded' = memory'
  <2> SUFFICES ASSUME ~spoiled' PROVE Loaded' = memory'
    OBVIOUS
  <2>1. file' = save[a].data /\ save[a].data = memory
    BY <1>1 DEF FileIInv, SavesInv
  <2>2. Loaded' = save[a].data
    BY <1>2, <2>1, CRMFileAssumption DEF Loaded
  <2> QED
    BY <1>1, <2>1, <2>2 DEF Answer
<1> QED
  BY <1>4, <1>5 DEF FileIInv, FileIsMemory, AnsweredIsOnDisk

\* A failed save is spoiled.
LEMMA SaveFailsStep ==
  ASSUME FileIInv, NEW a \in Saver, SaveFails(a)
  PROVE  FileIInv'
<1>1. /\ file' \in {file, Torn}
      /\ spoiled' = TRUE
      /\ Answer(a)
  BY DEF SaveFails
<1>2. FileTypeOK' /\ SavesInv'
  BY <1>1, AnswerStep DEF FileIInv, FileTypeOK
<1> QED
  BY <1>1, <1>2 DEF FileIInv, FileIsMemory, AnsweredIsOnDisk

\* A restart begins with what the file held.
LEMMA RestartStep ==
  ASSUME FileIInv, Restart
  PROVE  FileIInv'
<1>1. NoSave \in Save /\ NoSave.put = {} /\ NoSave.fresh = FALSE
  BY DEF NoSave, Save
<1>2. /\ memory' = Loaded /\ file' = file /\ spoiled' = FALSE
      /\ save' = [a \in Saver |-> NoSave]
  BY DEF Restart
<1>3. Loaded' = Loaded
  BY <1>2 DEF Loaded
<1>4. promised' \subseteq Loaded
  BY DEF FileIInv, AnsweredIsOnDisk, Restart
<1>5. Loaded \in SUBSET Entry
  BY LoadedType DEF FileIInv, FileTypeOK
<1>6. FileTypeOK'
  BY <1>1, <1>2, <1>4, <1>5 DEF FileIInv, FileTypeOK
<1>7. SavesInv'
  BY <1>1, <1>2 DEF SavesInv
<1> QED
  BY <1>2, <1>3, <1>4, <1>6, <1>7 DEF FileIInv, FileIsMemory, AnsweredIsOnDisk

\* The inductive invariant holds of every reachable state.
THEOREM FileInductiveInvariant == FileSpec => []FileIInv
<1>1. FileIInv /\ [FileNext]_fileVars => FileIInv'
  <2> SUFFICES ASSUME FileIInv, [FileNext]_fileVars PROVE FileIInv'
    OBVIOUS
  <2>1. \A out \in AtMostOne : out \in SUBSET Entry
    BY DEF AtMostOne
  <2>2. ASSUME NEW a \in Saver, NEW out \in AtMostOne, NEW in \in AtMostOne, Alter(a, out, in)
        PROVE  FileIInv'
    BY <2>1, <2>2, AlterStep
  <2>3. CASE UNCHANGED fileVars
    BY <2>3 DEF fileVars, FileIInv, FileTypeOK, SavesInv, FileIsMemory, AnsweredIsOnDisk,
                Quiet, Exposed, Loaded
  <2> QED
    BY <2>2, <2>3, SnapshotStep, OpenStep, WriteStep, SaveFailsStep, RestartStep DEF FileNext
<1> QED  BY FileInitInv, <1>1, PTL DEF FileSpec

\* Whatever the file looks like, the dictionary holds entries, and all that was
\* promised.
THEOREM FileTypeCorrect == FileSpec => []FileTypeOK
<1>1. FileIInv => FileTypeOK
  BY DEF FileIInv
<1> QED  BY FileInductiveInvariant, <1>1, PTL

\* With every save through, the file is the dictionary, unless the save that
\* ended last was spoiled.
THEOREM FileCurrent == FileSpec => []FileIsMemory
<1>1. FileIInv => FileIsMemory
  BY DEF FileIInv
<1> QED  BY FileInductiveInvariant, <1>1, PTL

\* Between the saves, an answered change is in the file.
THEOREM AnsweredKept == FileSpec => []AnsweredIsOnDisk
<1>1. FileIInv => AnsweredIsOnDisk
  BY DEF FileIInv
<1> QED  BY FileInductiveInvariant, <1>1, PTL
=============================================================================
