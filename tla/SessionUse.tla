----------------------------- MODULE SessionUse -----------------------------
(***************************************************************************)
(* Sessions with one more history variable, the instant a chat was last    *)
(* admitted on a thread, to compare what cleanup_expired_sessions expires  *)
(* with what its callers' tests say it does.                               *)
(***************************************************************************)
EXTENDS Sessions

VARIABLE lastUse  \* lastUse[t]: when a chat was last admitted on t

AdmittedNow(t) ==
  \E r \in Run :
    /\ phase[r] = "new"
    /\ phase'[r] \in Unfinished
    /\ thread'[r] = t

UseInit == Init /\ lastUse = [t \in Thread |-> 0]

UseNext ==
  /\ Next
  /\ lastUse' = [t \in Thread |-> IF AdmittedNow(t) THEN clock ELSE lastUse[t]]

UseSpec == UseInit /\ [][UseNext]_<<vars, lastUse>>

\* "touch_session must be called, so that cleanup_expired_sessions does not
\* delete the session by mistake" (tests/test_api.py:183), and session.py:259,
\* "to be executed on every chat call": a session on which a chat was admitted
\* within the last MaxAge is not expired.  A client that is not an admin gets
\* touch_and_get_owner, which leaves the last_active of an existing row alone.
UsedSessionIsNotExpired ==
  [][Cleanup => \A t \in Expired : lastUse[t] + MaxAge < clock]_<<vars, lastUse>>
=============================================================================
