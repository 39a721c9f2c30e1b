-------------------------------- MODULE CRM ---------------------------------
(***************************************************************************)
(* The customers and orders of CRMClient (cayz_agent/integrations/crm.py), *)
(* as the endpoints of api.py and the agent's tools change them, in one    *)
(* life of the process.  Their way into the files is module CRMFile's.     *)
(*                                                                         *)
(* CRMClient has no lock.  The event loop runs one endpoint at a time to   *)
(* its end, but tools run in worker threads meanwhile, so an operation's   *)
(* look at the dictionaries and its change are two steps, and a record     *)
(* found may be out of the dictionary when it is changed.  The assignments *)
(* of one change are one step.  An operation that raises before its change *)
(* is as if it had never been asked for.                                   *)
(***************************************************************************)
EXTENDS Integers, FiniteSets

CONSTANTS
  Loop,         \* the event loop, which runs the endpoints
  Tool,         \* the worker threads, which run the agent's tools
  Record,       \* identities of what may be added, each once: bounds additions
  MaxCustomer,  \* bound: the largest customer number
  MaxOrder,     \* bound: the largest order number of the year
  Status,       \* statuses a record may be in, other than Archived
  AddedAs,      \* bound: statuses records are added with, any text in the code
  Requested,    \* bound: statuses updates set, any text in the code
  Default,      \* _DEFAULT_CUSTOMER_STATUS, _DEFAULT_ORDER_STATUS
  Archived,     \* _ARCHIVED_STATUS
  Blank,        \* the empty string
  None          \* no record under this number; a field an update leaves alone

ASSUME CRMAssumption ==
  /\ Loop \notin Tool
  /\ MaxCustomer \in Nat \ {0} /\ MaxOrder \in Nat
  /\ Default \in Status
  /\ AddedAs \cup Requested \subseteq Status \cup {Archived, Blank}
  /\ Archived \notin Status /\ Blank \notin Status \cup {Archived}

Actor == {Loop} \cup Tool
Customer == {"customer"} \X (1 .. MaxCustomer)
Order == {"order"} \X (1 .. MaxOrder)
Key == Customer \cup Order

\* What the fields status and archived_status hold.
Text == Status \cup {Archived, Blank}

Item ==
  [who : Record,                     \* which record it is
   status : Text,
   was : Text,                        \* archived_status
   of : Customer \cup {None},        \* customer_id of an order
   before : Text,                     \* history: the status it was archived in,
                                     \* Blank if none is due back
   buyer : Record \cup {None}]       \* history: whom the order was last given to

\* None is nothing else.
ASSUME NoneAssumption == None \notin Record \cup Text \cup Key \cup Item

VARIABLES
  book,  \* book[k]: _customers and _orders: what is under key k, or None
  job    \* job[a]: what actor a has found and is about to do

\* History variables: no code reads them, the properties do.
VARIABLES
  made,  \* records whose addition has begun
  gone   \* records deleted, or overwritten when two were given one number

vars == <<book, job, made, gone>>
-----------------------------------------------------------------------------
Job ==
  [op : {"none", "add", "update", "archive", "restore", "delete"},
   key : Key,
   who : Record \cup {None},          \* the object it has got hold of
   set : Text \cup {None},            \* the status to set
   to : Customer \cup {None},         \* the customer to give the order to
   buyer : Record \cup {None},        \* history: who that is
   stale : BOOLEAN]                   \* history: key was changed since the look

Idle ==
  [op |-> "none", key |-> <<"customer", 1>>, who |-> None, set |-> None,
   to |-> None, buyer |-> None, stale |-> FALSE]

Held(K) == {k \in K : book[k] # None}
WhoHas(k) == IF k = None \/ k \notin Held(Key) THEN None ELSE book[k].who

Init ==
  /\ book = [k \in Key |-> None]
  /\ job = [a \in Actor |-> Idle]
  /\ made = {} /\ gone = {}
-----------------------------------------------------------------------------
(* Looks.  Where nothing is found the answer is that, and nothing changes. *)

Look(a, op, k, r, s, c) ==
  /\ job[a].op = "none"
  /\ job' = [job EXCEPT ![a] =
       [op |-> op, key |-> k, who |-> r, set |-> s, to |-> c,
        buyer |-> WhoHas(c), stale |-> FALSE]]
  /\ UNCHANGED <<book, gone>>

Mut_NextNumber(K) == Cardinality(Held(K)) + 1

\* The number add_customer and add_order assign: max(existing) + 1.
NextNumber(K) ==
  1 + (IF Held(K) = {} THEN 0
       ELSE CHOOSE n \in {k[2] : k \in Held(K)} : \A k \in Held(K) : k[2] <= n)

\* A new record gets its number; an order also its customer.
Number(a, table, K, r, s, c) ==
  LET k == <<table, NextNumber(K)>> IN
  /\ k \in Key /\ r \notin made
  /\ Look(a, "add", k, r, s, c)
  /\ made' = made \cup {r}

\* add_customer.
NumberCustomer(a, r, s) == Number(a, "customer", Customer, r, s, None)

Mut_NumberOrder(a, r, s, c) == Number(a, "order", Order, r, s, c)

\* add_order: the customer must exist, archived or not.
NumberOrder(a, r, s, c) ==
  c \in Held(Customer) /\ Number(a, "order", Order, r, s, c)

\* The operations on what is there.
Find(a, op, k, s, c) ==
  /\ k \in Held(Key)
  /\ Look(a, op, k, book[k].who, s, c)
  /\ UNCHANGED made

IsArchived(k) == k \in Held(Key) /\ book[k].status = Archived

\* update_customer and update_order, for endpoints only.  An order can be given
\* to another customer, who must exist.  Updates of other fields are left out.
FindUpdate(k, s, c) ==
  /\ s # None \/ c # None
  /\ c = None \/ (k \in Order /\ c \in Held(Customer))
  /\ Find(Loop, "update", k, s, c)

\* archive_customer and archive_order: an archived one is skipped.
FindArchive(a, k) == ~IsArchived(k) /\ Find(a, "archive", k, None, None)

\* restore_customer and restore_order: archived ones only.
FindRestore(a, k) == IsArchived(k) /\ Find(a, "restore", k, None, None)

\* delete_customer and delete_order: archived ones only.
FindDelete(a, k) == IsArchived(k) /\ Find(a, "delete", k, None, None)
-----------------------------------------------------------------------------
(* Changes.                                                                *)

\* Actor a is done; what others have found under the same key is old.
Done(a) ==
  job' = [b \in Actor |->
            IF b = a THEN Idle
            ELSE IF job[b].op # "none" /\ job[b].key = job[a].key
            THEN [job[b] EXCEPT !.stale = TRUE] ELSE job[b]]

\* What actor a has found.
Found(a) == book[job[a].key]

Mut_Change(a, op, new) ==
  LET k == job[a].key IN
  /\ job[a].op = op
  /\ book' = IF WhoHas(k) = None THEN book
              ELSE [book EXCEPT ![k] = [new EXCEPT !.who = job[a].who]]
  /\ UNCHANGED <<made, gone>>
  /\ Done(a)

\* It becomes the item new.  If it is out of the book by now it changes unseen.
Change(a, op, new) ==
  LET k == job[a].key IN
  /\ job[a].op = op
  /\ book' = IF WhoHas(k) = job[a].who THEN [book EXCEPT ![k] = new] ELSE book
  /\ UNCHANGED <<made, gone>>
  /\ Done(a)

\* Whoever had the number is overwritten.
Add(a) ==
  LET j == job[a] IN
  /\ j.op = "add"
  /\ book' = [book EXCEPT ![j.key] =
       [who |-> j.who, status |-> j.set, was |-> Blank, of |-> j.to,
        before |-> Blank, buyer |-> j.buyer]]
  /\ gone' = gone \cup (IF j.stale THEN {WhoHas(j.key)} \ {None} ELSE {})
  /\ UNCHANGED made
  /\ Done(a)

Mut_Update(a) ==
  LET j == job[a] IN
  Change(a, "update",
    [Found(a) EXCEPT !.status = IF j.set = None THEN @ ELSE j.set,
                     !.before = Blank, !.of = j.to, !.buyer = j.buyer])

\* The remembered status stays as it is.
Update(a) ==
  LET j == job[a] IN
  Change(a, "update",
    [Found(a) EXCEPT !.status = IF j.set = None THEN @ ELSE j.set,
                     !.before = IF j.set = None THEN @ ELSE Blank,
                     !.of = IF j.to = None THEN @ ELSE j.to,
                     !.buyer = IF j.to = None THEN @ ELSE j.buyer])

Archive(a) ==
  LET status == Found(a).status IN
  Change(a, "archive",
    [Found(a) EXCEPT !.status = Archived, !.was = status,
                     !.before = IF job[a].stale THEN Blank ELSE status])

Mut_Restore(a) ==
  Change(a, "restore",
    [Found(a) EXCEPT !.status = Default, !.was = Blank, !.before = Blank])

\* archived_status or the default; then archived_status = "".
Restore(a) ==
  LET was == Found(a).was IN
  Change(a, "restore",
    [Found(a) EXCEPT !.status = IF was = Blank THEN Default ELSE was,
                     !.was = Blank, !.before = Blank])

\* Whoever has the number by now is deleted; with nobody there del raises, and
\* the operation fails.
Delete(a) ==
  LET k == job[a].key IN
  /\ job[a].op = "delete"
  /\ book' = [book EXCEPT ![k] = None]
  /\ gone' = gone \cup ({WhoHas(k)} \ {None})
  /\ UNCHANGED made
  /\ Done(a)

\* What endpoints and tools ask for.
AddNew(a) ==
  \E r \in Record, s \in AddedAs :
    NumberCustomer(a, r, s) \/ \E c \in Customer : NumberOrder(a, r, s, c)

Manage(a) ==
  \E k \in Key : FindArchive(a, k) \/ FindRestore(a, k) \/ FindDelete(a, k)

Edit ==
  \E k \in Key, s \in Requested \cup {None}, c \in Customer \cup {None} : FindUpdate(k, s, c)

Proceed(a) == Add(a) \/ Update(a) \/ Archive(a) \/ Restore(a) \/ Delete(a)

Next == Edit \/ \E a \in Actor : AddNew(a) \/ Manage(a) \/ Proceed(a)

Spec == Init /\ [][Next]_vars
-----------------------------------------------------------------------------
(* Properties.                                                             *)

\* Types; orders have a customer, customers none; no record is under two numbers.
TypeOK ==
  /\ book \in [Key -> Item \cup {None}]
  /\ \A k \in Held(Key) : k \in Order <=> book[k].of # None
  /\ \A k, l \in Held(Key) : WhoHas(k) = WhoHas(l) => k = l
  /\ job \in [Actor -> Job]
  /\ made \in SUBSET Record /\ gone \in SUBSET made

\* A deletion is not recoverable, as delete_customer and delete_order say: a
\* record once deleted, or overwritten, is never in the book again, although
\* others may have found it before and update, archive or restore it later, when
\* its number may be somebody else's.
DeletedIsGone == \A k \in Held(Key) : book[k].who \notin gone

\* Whose addition is through is in the book, unless deleted or overwritten by
\* another addition that ran at the same time: a number is never given out again
\* while it is taken, whichever were deleted before.
NobodyIsLost ==
  \A r \in made \ gone :
    \/ \E k \in Key : WhoHas(k) = r
    \/ \E a \in Actor : job[a].op = "add" /\ job[a].who = r

\* An order's customer_id is the number of the customer it was given to, until
\* that one is gone.  (Then it may come to be the number of somebody else.)
OrderStaysWithCustomer ==
  \A k \in Held(Order) :
    \/ book[k].buyer \in gone
    \/ book[k].buyer # None /\ WhoHas(book[k].of) = book[k].buyer

\* A record that was archived is restored to the status it was archived in, if
\* no update has set its status meanwhile, and nobody changed it while it was
\* being archived or restored.
ArchiveIsUndone ==
  [][\A a \in Actor :
       LET k == job[a].key IN
       Restore(a) /\ ~job[a].stale /\ book[k].before # Blank
         => book'[k].status = book[k].before]_vars
=============================================================================
