-------------------------- MODULE SessionOwnership --------------------------
(***************************************************************************)
(* What the session layer promises about ownership, with no table, lock,   *)
(* checkpoint, clock or failure in it: a thread has at most one holder     *)
(* until it is released; a non-admin chat request is served only for the   *)
(* holder, and the first client to ask becomes the holder in the very step *)
(* that serves it.  Module Sessions implements it.                         *)
(***************************************************************************)
CONSTANTS
  Client,   \* client ids whose scope is readonly or write
  Admin,    \* client ids whose scope is admin
  Thread,   \* session (thread) ids
  Run,      \* chat requests, each made once
  Nobody,   \* the holder of a thread that has no session
  Unknown   \* the holder of a session recorded before owners were

VARIABLES
  holder,   \* holder[t]: who holds thread t
  served    \* the requests let through, as <<request, client, thread>>

ownershipVars == <<holder, served>>

Take(t, c) == /\ holder[t] = Nobody
              /\ holder' = [holder EXCEPT ![t] = c]

OwnershipInit ==
  /\ holder \in [Thread -> {Nobody, Unknown}]
  /\ served = {}

(* A request is let through: an admin's always, another client's only if   *)
(* the client holds the thread once the step is done.                      *)
Serve(r, c, t) ==
  /\ \A s \in served : s[1] # r
  /\ Take(t, c) \/ UNCHANGED holder
  /\ c \in Admin \/ holder'[t] = c
  /\ served' = served \cup {<<r, c, t>>}

(* A request that is not served in the end may still have taken a free     *)
(* thread.                                                                 *)
TakeOnly(t, c) == Take(t, c) /\ UNCHANGED served

Release(S) ==
  /\ holder' = [t \in Thread |-> IF t \in S THEN Nobody ELSE holder[t]]
  /\ UNCHANGED served

OwnershipNext ==
  \/ \E r \in Run, c \in Client \cup Admin, t \in Thread : Serve(r, c, t)
  \/ \E c \in Client \cup Admin, t \in Thread : TakeOnly(t, c)
  \/ \E S \in SUBSET Thread : Release(S)

OwnershipSpec == OwnershipInit /\ [][OwnershipNext]_ownershipVars
=============================================================================
